------------------------- MODULE SkillEvidenceProofs -------------------------
(***************************************************************************)
(* Lemmas about what is read of a rollout (RolloutReader) and what the     *)
(* policy makes of it (Assessment), for every rollout and every policy.    *)
(*                                                                         *)
(* The prefixes of a rollout are read by recursion on their length, so the *)
(* lemmas are proved by induction.  The library's induction rules take an  *)
(* operator as a parameter; the rule used here takes a set instead, the    *)
(* numbers for which the lemma holds, and rests on the least-number        *)
(* principle.                                                              *)
(***************************************************************************)
EXTENDS Assessment, RolloutReader, FiniteSetTheorems, WellFoundedInduction, SequenceTheorems, TLAPS

-----------------------------------------------------------------------------
(* Induction.                                                              *)

NatLess == {pair \in Nat \X Nat : pair[1] < pair[2]}

LEMMA NatLessIsWellFounded == IsWellFoundedOn(NatLess, Nat)
  <1>1. OpToRel(<, Nat) = NatLess
    BY DEF OpToRel, NatLess
  <1> QED
    BY <1>1, NatLessThanWellFounded

LEMMA LeastNumber ==
  ASSUME NEW S \in SUBSET Nat, S # {}
  PROVE  \E n \in S : \A m \in S : n <= m
  <1>1. PICK n \in S : \A m \in S : ~(<<m, n>> \in NatLess)
    BY NatLessIsWellFounded, WFMin
  <1>2. ASSUME NEW m \in S, m < n PROVE FALSE
    <2>1. <<m, n>> \in Nat \X Nat /\ <<m, n>>[1] = m /\ <<m, n>>[2] = n
      OBVIOUS
    <2>2. <<m, n>> \in NatLess
      BY <1>2, <2>1 DEF NatLess
    <2> QED
      BY <1>1, <2>2
  <1> QED
    BY <1>2

LEMMA InductionOnSet ==
  ASSUME NEW S, 0 \in S, \A n \in Nat : n \in S => n + 1 \in S
  PROVE  Nat \subseteq S
  <1> SUFFICES ASSUME Nat \ S # {} PROVE FALSE
    OBVIOUS
  <1>1. PICK n \in Nat \ S : \A m \in Nat \ S : n <= m
    BY LeastNumber
  <1>2. n - 1 \in Nat /\ n - 1 \in S
    BY <1>1
  <1>3. (n - 1) + 1 \in S
    BY <1>2
  <1> QED
    BY <1>1, <1>3

\* A finite set of integers that is not empty has a greatest element.
LEMMA GreatestOfFinite ==
  ASSUME NEW S \in SUBSET Int, IsFiniteSet(S), S # {}
  PROVE  \E m \in S : \A n \in S : n <= m
  <1> DEFINE HasMax(A) == \E m \in A : \A n \in A : n <= m
             Good == {k \in Nat : \A A \in SUBSET Int :
                        IsFiniteSet(A) /\ A # {} /\ Cardinality(A) = k => HasMax(A)}
  <1>1. 0 \in Good
    BY FS_EmptySet
  <1>2. ASSUME NEW k \in Nat, k \in Good PROVE k + 1 \in Good
    <2> SUFFICES ASSUME NEW A \in SUBSET Int, IsFiniteSet(A), Cardinality(A) = k + 1, A # {}
                 PROVE  HasMax(A)
      OBVIOUS
    <2>1. PICK x \in A : TRUE
      OBVIOUS
    <2>2. IsFiniteSet(A \ {x}) /\ Cardinality(A \ {x}) = k
      <3>1. Cardinality(A \ {x}) = Cardinality(A) - 1
        BY <2>1, FS_RemoveElement
      <3> QED
        BY <3>1, FS_RemoveElement
    <2>3. CASE A \ {x} = {}
      <3>1. A = {x} /\ x \in Int
        BY <2>3
      <3>2. \A n \in A : n <= x
        BY <3>1
      <3> QED
        BY <3>2
    <2>4. CASE A \ {x} # {}
      <3>1. HasMax(A \ {x})
        BY <1>2, <2>2, <2>4
      <3>2. PICK m \in A \ {x} : \A n \in A \ {x} : n <= m
        BY <3>1
      <3>3. CASE x <= m
        BY <3>2, <3>3
      <3>4. CASE m <= x
        <4>1. \A n \in A : n <= x
          BY <3>2, <3>4
        <4> QED
          BY <4>1
      <3> QED
        BY <3>2, <3>3, <3>4
    <2> QED
      BY <2>3, <2>4
  <1> HIDE DEF Good
  <1>3. Nat \subseteq Good
    BY <1>1, <1>2, InductionOnSet
  <1>4. Cardinality(S) \in Good
    BY <1>3, FS_CardinalityType
  <1> QED
    BY <1>4 DEF Good

LEMMA ImageIsFinite ==
  ASSUME NEW S, IsFiniteSet(S), NEW f
  PROVE  IsFiniteSet({f[x] : x \in S})
  <1> DEFINE T == {f[x] : x \in S}
             g == [x \in S |-> f[x]]
  <1>1. g \in Surjection(S, T)
    BY DEF Surjection
  <1> QED
    BY <1>1, FS_Surjection

-----------------------------------------------------------------------------
(* What is known after some records.                                       *)

Turns == {"id", "turn-ordinal", "timestamp"} \X Int
SeenUses == [pos : Nat, skill : Skills, turn : Turns, epoch : Int]
Known == [pos : Nat, turnId : Int \cup {NoTurn}, ordinal : Nat, pending : BOOLEAN,
          uses : SUBSET SeenUses, firsts : SUBSET Int, times : SUBSET Int, bad : SUBSET Nat]

\* `after` keeps what is known `before` and has read one record more.
Extends(before, after) ==
  /\ after.pos = before.pos + 1
  /\ before.uses \subseteq after.uses
  /\ before.bad \subseteq after.bad
  /\ after.bad \subseteq before.bad \cup {after.pos}

LEMMA TimedType ==
  ASSUME NEW st \in Known, NEW rec \in Records
  PROVE  /\ Timed(st, rec) \in Known
         /\ Timed(st, rec).pos = st.pos
         /\ Timed(st, rec).uses = st.uses
         /\ Timed(st, rec).bad = st.bad
         /\ Timed(st, rec).turnId = st.turnId
         /\ Timed(st, rec).ordinal = st.ordinal
  BY DEF Timed, Known, Records

LEMMA UnreadableType ==
  ASSUME NEW st \in Known
  PROVE  /\ Unreadable(st) \in Known
         /\ Unreadable(st).pos = st.pos
         /\ Unreadable(st).uses = st.uses
         /\ Unreadable(st).bad = st.bad \cup {st.pos}
  BY DEF Unreadable, Known

LEMMA TurnContextType ==
  ASSUME NEW st \in Known, NEW rec \in Records
  PROVE  /\ TurnContext(st, rec) \in Known
         /\ TurnContext(st, rec).pos = st.pos
         /\ TurnContext(st, rec).uses = st.uses
         /\ TurnContext(st, rec).bad = st.bad
  <1>1. rec.id \in Int \cup {NoTurn} /\ st.ordinal \in Nat /\ st.turnId \in Int \cup {NoTurn}
    BY DEF Known, Records
  <1>2. CASE st.pending
    <2> DEFINE id == IF rec.id = NoTurn THEN st.turnId ELSE rec.id
    <2>1. id \in Int \cup {NoTurn}
      BY <1>1
    <2>2. TurnContext(st, rec) =
            [pos |-> st.pos, turnId |-> id, ordinal |-> st.ordinal, pending |-> FALSE,
             uses |-> st.uses, firsts |-> st.firsts, times |-> st.times, bad |-> st.bad]
      BY <1>2 DEF TurnContext, Known
    <2> HIDE DEF id
    <2> QED
      BY <1>1, <2>1, <2>2 DEF Known
  <1>3. CASE ~st.pending
    <2> DEFINE ordinal == st.ordinal + 1
    <2>1. TurnContext(st, rec) = [st EXCEPT !.ordinal = ordinal, !.turnId = rec.id]
      BY <1>3 DEF TurnContext
    <2>2. ordinal \in Nat
      BY <1>1
    <2> HIDE DEF ordinal
    <2>3. TurnContext(st, rec) =
            [pos |-> st.pos, turnId |-> rec.id, ordinal |-> ordinal, pending |-> st.pending,
             uses |-> st.uses, firsts |-> st.firsts, times |-> st.times, bad |-> st.bad]
      BY <2>1 DEF Known
    <2> QED
      BY <1>1, <2>2, <2>3 DEF Known
  <1> QED
    BY <1>2, <1>3

LEMMA TaskStartedType ==
  ASSUME NEW st \in Known, NEW rec \in Records
  PROVE  /\ TaskStarted(st, rec) \in Known
         /\ TaskStarted(st, rec).pos = st.pos
         /\ TaskStarted(st, rec).uses = st.uses
         /\ TaskStarted(st, rec).bad = st.bad
  <1>1. rec.id \in Int \cup {NoTurn} /\ st.ordinal \in Nat
    BY DEF Known, Records
  <1> DEFINE ordinal == st.ordinal + 1
  <1>2. TaskStarted(st, rec) = [st EXCEPT !.ordinal = ordinal, !.pending = TRUE, !.turnId = rec.id]
    BY DEF TaskStarted
  <1>3. ordinal \in Nat
    BY <1>1
  <1> HIDE DEF ordinal
  <1>4. TaskStarted(st, rec) =
          [pos |-> st.pos, turnId |-> rec.id, ordinal |-> ordinal, pending |-> TRUE,
           uses |-> st.uses, firsts |-> st.firsts, times |-> st.times, bad |-> st.bad]
    BY <1>2 DEF Known
  <1> QED
    BY <1>1, <1>3, <1>4 DEF Known

LEMMA TurnKeyType ==
  ASSUME NEW st \in Known, NEW t \in Int
  PROVE  TurnKey(st, t) \in Turns
  BY DEF TurnKey, Known, Turns

LEMMA ToolCallType ==
  ASSUME NEW st \in Known, NEW rec \in Records
  PROVE  /\ ToolCall(st, rec) \in Known
         /\ ToolCall(st, rec).pos = st.pos
         /\ st.uses \subseteq ToolCall(st, rec).uses
         /\ st.bad \subseteq ToolCall(st, rec).bad
         /\ ToolCall(st, rec).bad \subseteq st.bad \cup {st.pos}
         /\ IsFiniteSet(st.uses) /\ IsFiniteSet(Skills) /\ IsFiniteSet(rec.at)
              => IsFiniteSet(ToolCall(st, rec).uses)
  <1>1. CASE rec.at = {}
    BY <1>1, UnreadableType DEF ToolCall
  <1>2. CASE rec.at # {}
    <2> DEFINE new == {[pos |-> st.pos, skill |-> s, turn |-> TurnKey(st, t), epoch |-> t] :
                         s \in {x \in Skills : Mentions(rec.words, x)}, t \in rec.at}
    <2>1. new \subseteq SeenUses
      <3>1. rec.at \subseteq Int /\ st.pos \in Nat
        BY DEF Records, Known
      <3> QED
        BY <3>1, TurnKeyType DEF SeenUses
    <2>2. ToolCall(st, rec) = [st EXCEPT !.uses = @ \cup new]
      BY <1>2 DEF ToolCall
    <2>3. ASSUME IsFiniteSet(Skills), IsFiniteSet(rec.at) PROVE IsFiniteSet(new)
      <3> DEFINE readers == {x \in Skills : Mentions(rec.words, x)}
                 use(s, t) == [pos |-> st.pos, skill |-> s, turn |-> TurnKey(st, t), epoch |-> t]
                 f == [pair \in readers \X rec.at |-> use(pair[1], pair[2])]
      <3>1. IsFiniteSet(readers \X rec.at)
        BY <2>3, FS_Subset, FS_Product
      <3>2. new = {f[pair] : pair \in readers \X rec.at}
        <4>1. new = {use(s, t) : s \in readers, t \in rec.at}
          OBVIOUS
        <4>2. \A s \in readers, t \in rec.at : <<s, t>> \in readers \X rec.at /\ f[<<s, t>>] = use(s, t)
          OBVIOUS
        <4>3. \A pair \in readers \X rec.at :
                f[pair] = use(pair[1], pair[2]) /\ pair[1] \in readers /\ pair[2] \in rec.at
          OBVIOUS
        <4> HIDE DEF new, f, use, readers
        <4>4. ASSUME NEW u \in new PROVE u \in {f[pair] : pair \in readers \X rec.at}
          <5>1. PICK s \in readers, t \in rec.at : u = use(s, t)
            BY <4>1
          <5> QED
            BY <4>2, <5>1
        <4>5. ASSUME NEW pair \in readers \X rec.at PROVE f[pair] \in new
          BY <4>1, <4>3
        <4> QED
          BY <4>4, <4>5
      <3> HIDE DEF new, f
      <3> QED
        BY <3>1, <3>2, ImageIsFinite
    <2> HIDE DEF new
    <2>4. IsFiniteSet(st.uses) /\ IsFiniteSet(Skills) /\ IsFiniteSet(rec.at) => IsFiniteSet(st.uses \cup new)
      BY <2>3, FS_Union
    <2> QED
      BY <2>1, <2>2, <2>4 DEF Known
  <1> QED
    BY <1>1, <1>2

\* Reading a record adds to what is known, and a torn one is remembered.
LEMMA ReadNextType ==
  ASSUME NEW before \in Known, NEW rec \in Records
  PROVE  /\ ReadNext(before, rec) \in Known
         /\ Extends(before, ReadNext(before, rec))
         /\ rec.kind \in {"bad", "bad payload"}
              => before.pos + 1 \in ReadNext(before, rec).bad
         /\ IsFiniteSet(before.uses) /\ IsFiniteSet(Skills) /\ IsFiniteSet(rec.at)
              => IsFiniteSet(ReadNext(before, rec).uses)
  <1> DEFINE moved == [before EXCEPT !.pos = @ + 1]
             st == Timed(moved, rec)
             torn == [rec EXCEPT !.id = NoTurn]
  <1>1. moved \in Known /\ moved.pos = before.pos + 1 /\ moved.uses = before.uses /\ moved.bad = before.bad
    BY DEF Known
  <1>2. st \in Known /\ st.pos = before.pos + 1 /\ st.uses = before.uses /\ st.bad = before.bad
    BY <1>1, TimedType
  <1>3. torn \in Records
    BY DEF Records
  <1> HIDE DEF moved, st, torn
  <1>4. before.pos \in Nat /\ rec.kind \in RecordKinds
    BY DEF Known, Records
  <1>5. ReadNext(before, rec) =
          CASE rec.kind = "context" -> TurnContext(st, rec)
            [] rec.kind = "bad context" -> Unreadable(TurnContext(st, torn))
            [] rec.kind = "started" -> TaskStarted(st, rec)
            [] rec.kind = "call" -> ToolCall(st, rec)
            [] rec.kind \in {"bad", "bad payload"} -> Unreadable(st)
            [] OTHER -> st
    BY DEF ReadNext, moved, st, torn
  <1>6. CASE rec.kind = "context"
    BY <1>2, <1>4, <1>5, <1>6, TurnContextType DEF Extends
  <1>7. CASE rec.kind = "bad context"
    <2>1. TurnContext(st, torn) \in Known
      BY <1>2, <1>3, TurnContextType
    <2>2. TurnContext(st, torn).pos = st.pos /\ TurnContext(st, torn).uses = st.uses
          /\ TurnContext(st, torn).bad = st.bad
      BY <1>2, <1>3, TurnContextType
    <2>3. ReadNext(before, rec) = Unreadable(TurnContext(st, torn))
      BY <1>5, <1>7
    <2> QED
      BY <1>2, <1>7, <2>1, <2>2, <2>3, UnreadableType DEF Extends
  <1>8. CASE rec.kind = "started"
    BY <1>2, <1>4, <1>5, <1>8, TaskStartedType DEF Extends
  <1>9. CASE rec.kind = "call"
    BY <1>2, <1>4, <1>5, <1>9, ToolCallType DEF Extends
  <1>10. CASE rec.kind \in {"bad", "bad payload"}
    BY <1>2, <1>4, <1>5, <1>10, UnreadableType DEF Extends
  <1>11. CASE rec.kind \in {"meta", "other", "plain"}
    BY <1>2, <1>4, <1>5, <1>11 DEF Extends
  <1> QED
    BY <1>4, <1>6, <1>7, <1>8, <1>9, <1>10, <1>11 DEF RecordKinds

-----------------------------------------------------------------------------
(* The prefixes of a rollout.                                              *)

\* The recursion that ReadPrefixes is defined by has a solution.
LEMMA PrefixesDefined ==
  ASSUME NEW records, Len(records) \in Nat
  PROVE  ReadPrefixes(records) =
           [n \in 0..Len(records) |->
              IF n = 0 THEN BeforeRecords ELSE ReadNext(ReadPrefixes(records)[n - 1], records[n])]
  <1> DEFINE Solves(g, k) == g = [n \in 0..k |-> IF n = 0 THEN BeforeRecords
                                                ELSE ReadNext(g[n - 1], records[n])]
             Solved == {k \in Nat : \E g : Solves(g, k)}
  <1>1. 0 \in Solved
    <2>1. Solves([n \in 0..0 |-> BeforeRecords], 0)
      OBVIOUS
    <2> QED
      BY <2>1
  <1>2. ASSUME NEW k \in Nat, k \in Solved PROVE k + 1 \in Solved
    <2>1. PICK g : Solves(g, k)
      BY <1>2
    <2> DEFINE h == [n \in 0..(k + 1) |-> IF n = k + 1 THEN ReadNext(g[k], records[k + 1]) ELSE g[n]]
    <2>2. \A n \in 0..k : h[n] = g[n]
      OBVIOUS
    <2>3. ASSUME NEW n \in 0..(k + 1)
          PROVE  h[n] = IF n = 0 THEN BeforeRecords ELSE ReadNext(h[n - 1], records[n])
      <3>1. CASE n = k + 1
        <4>1. n - 1 = k /\ k \in 0..k /\ n # 0 /\ h[n - 1] = g[k]
          BY <2>2, <3>1
        <4> QED
          BY <3>1, <4>1
      <3>2. CASE n # k + 1
        <4>1. n \in 0..k /\ h[n] = g[n]
          BY <2>2, <3>2
        <4>2. n # 0 => n - 1 \in 0..k /\ h[n - 1] = g[n - 1]
          BY <2>2, <4>1
        <4>3. g[n] = IF n = 0 THEN BeforeRecords ELSE ReadNext(g[n - 1], records[n])
          BY <2>1, <4>1
        <4> QED
          BY <4>1, <4>2, <4>3
      <3> QED
        BY <3>1, <3>2
    <2>4. h = [n \in 0..(k + 1) |-> h[n]]
      OBVIOUS
    <2> HIDE DEF h
    <2>5. Solves(h, k + 1)
      BY <2>3, <2>4
    <2> QED
      BY <2>5
  <1>3. Len(records) \in Solved
    <2> HIDE DEF Solved
    <2> QED
      BY <1>1, <1>2, InductionOnSet
  <1>4. PICK g : Solves(g, Len(records))
    BY <1>3
  <1>5. ReadPrefixes(records) =
          CHOOSE f : f = [n \in 0..Len(records) |-> IF n = 0 THEN BeforeRecords
                                                   ELSE ReadNext(f[n - 1], records[n])]
    BY DEF ReadPrefixes
  <1> QED
    BY <1>4, <1>5, Zenon

\* One step of the recursion.
LEMMA PrefixStep ==
  ASSUME NEW c \in Seq(Records)
  PROVE  /\ ReadPrefixes(c)[0] = BeforeRecords
         /\ \A n \in 1..Len(c) : ReadPrefixes(c)[n] = ReadNext(ReadPrefixes(c)[n - 1], c[n])
         /\ \A n \in 1..Len(c) : c[n] \in Records /\ n - 1 \in 0..Len(c)
  <1>1. Len(c) \in Nat
    BY LenProperties
  <1> QED
    BY <1>1, PrefixesDefined, ElementOfSeq

\* What a prefix is evidence of: its uses and torn records are among its records.
LEMMA PrefixType ==
  ASSUME NEW c \in Seq(Records), NEW n \in 0..Len(c)
  PROVE  /\ ReadPrefixes(c)[n] \in Known
         /\ ReadPrefixes(c)[n].pos = n
         /\ ReadPrefixes(c)[n].bad \subseteq 1..n
  <1> DEFINE P == ReadPrefixes(c)
             Typed(k) == P[k] \in Known /\ P[k].pos = k /\ P[k].bad \subseteq 1..k
             Good == {k \in Nat : k \in 0..Len(c) => Typed(k)}
  <1>1. Len(c) \in Nat
    BY LenProperties
  <1>2. 0 \in Good
    <2>1. BeforeRecords \in Known /\ BeforeRecords.pos = 0 /\ BeforeRecords.bad = {}
      BY DEF BeforeRecords, Known
    <2> QED
      BY <2>1, PrefixStep
  <1>3. ASSUME NEW k \in Nat, k \in Good PROVE k + 1 \in Good
    <2> SUFFICES ASSUME k + 1 \in 0..Len(c) PROVE Typed(k + 1)
      OBVIOUS
    <2>1. k \in 0..Len(c) /\ k + 1 \in 1..Len(c) /\ (k + 1) - 1 = k
      BY <1>1
    <2>2. Typed(k)
      BY <1>3, <2>1
    <2>3. P[k + 1] = ReadNext(P[k], c[k + 1]) /\ c[k + 1] \in Records
      BY <2>1, PrefixStep
    <2> HIDE DEF P
    <2>4. P[k + 1] \in Known /\ Extends(P[k], P[k + 1])
      BY <2>2, <2>3, ReadNextType
    <2>5. P[k + 1].pos = k + 1
      BY <2>2, <2>4 DEF Extends
    <2>6. P[k + 1].bad \subseteq 1..(k + 1)
      BY <2>2, <2>4, <2>5 DEF Extends
    <2> QED
      BY <2>4, <2>5, <2>6
  <1> HIDE DEF Good
  <1>4. n \in Good
    BY <1>1, <1>2, <1>3, InductionOnSet
  <1> QED
    BY <1>1, <1>4 DEF Good

\* A longer prefix has all that a shorter one has.
LEMMA PrefixGrows ==
  ASSUME NEW c \in Seq(Records), NEW m \in 0..Len(c), NEW n \in m..Len(c)
  PROVE  /\ ReadPrefixes(c)[m].uses \subseteq ReadPrefixes(c)[n].uses
         /\ ReadPrefixes(c)[m].bad \subseteq ReadPrefixes(c)[n].bad
  <1> DEFINE P == ReadPrefixes(c)
             Grown(k) == P[m].uses \subseteq P[k].uses /\ P[m].bad \subseteq P[k].bad
             Good == {d \in Nat : m + d <= Len(c) => Grown(m + d)}
  <1>1. Len(c) \in Nat /\ m \in Nat /\ n \in Nat
    BY LenProperties
  <1>2. 0 \in Good
    BY <1>1
  <1>3. ASSUME NEW d \in Nat, d \in Good PROVE d + 1 \in Good
    <2> SUFFICES ASSUME m + (d + 1) <= Len(c) PROVE Grown(m + (d + 1))
      OBVIOUS
    <2> DEFINE k == m + d
    <2>1. k \in 0..Len(c) /\ k + 1 \in 1..Len(c) /\ (k + 1) - 1 = k /\ m + (d + 1) = k + 1
      BY <1>1
    <2>2. Grown(k)
      BY <1>3, <2>1
    <2> HIDE DEF k
    <2>3. P[k + 1] = ReadNext(P[k], c[k + 1]) /\ c[k + 1] \in Records /\ P[k] \in Known
      BY <2>1, PrefixStep, PrefixType
    <2> HIDE DEF P
    <2>4. Extends(P[k], P[k + 1])
      BY <2>3, ReadNextType
    <2> QED
      BY <2>1, <2>2, <2>4 DEF Extends
  <1> HIDE DEF Good
  <1>4. n - m \in Nat /\ n - m \in Good
    BY <1>1, <1>2, <1>3, InductionOnSet
  <1>5. m + (n - m) = n /\ n <= Len(c)
    BY <1>1
  <1> QED
    BY <1>4, <1>5 DEF Good

LEMMA PlaceInPrefixes ==
  ASSUME NEW L \in Nat, NEW i \in 1..L
  PROVE  i - 1 \in 0..L /\ i \in 0..L /\ L \in i..L /\ (i - 1) + 1 = i
  OBVIOUS

\* A record that cannot be read is not forgotten.
LEMMA TornIsRemembered ==
  ASSUME NEW c \in Seq(Records), NEW i \in 1..Len(c), c[i].kind \in {"bad", "bad payload"}
  PROVE  ReadPrefixes(c)[Len(c)].bad # {}
  <1>1. Len(c) \in Nat /\ i - 1 \in 0..Len(c) /\ i \in 0..Len(c) /\ Len(c) \in i..Len(c)
        /\ (i - 1) + 1 = i
    BY LenProperties, PlaceInPrefixes
  <1>2. i \in ReadPrefixes(c)[i].bad
    <2>1. ReadPrefixes(c)[i - 1] \in Known /\ ReadPrefixes(c)[i - 1].pos = i - 1
      BY <1>1, PrefixType
    <2>2. ReadPrefixes(c)[i] = ReadNext(ReadPrefixes(c)[i - 1], c[i]) /\ c[i] \in Records
      BY PrefixStep
    <2>3. (i - 1) + 1 \in ReadPrefixes(c)[i].bad
      BY <2>1, <2>2, ReadNextType
    <2> QED
      BY <1>1, <2>3
  <1>3. ReadPrefixes(c)[i].bad \subseteq ReadPrefixes(c)[Len(c)].bad
    BY <1>1, PrefixGrows
  <1> QED
    BY <1>2, <1>3

\* A rollout has finitely many uses.
LEMMA UsesAreFinite ==
  ASSUME NEW c \in Seq(Records), IsFiniteSet(Skills), \A i \in DOMAIN c : IsFiniteSet(c[i].at),
         NEW n \in 0..Len(c)
  PROVE  IsFiniteSet(ReadPrefixes(c)[n].uses)
  <1> DEFINE P == ReadPrefixes(c)
             Good == {k \in Nat : k \in 0..Len(c) => IsFiniteSet(P[k].uses)}
  <1>1. Len(c) \in Nat /\ DOMAIN c = 1..Len(c)
    BY LenProperties
  <1>2. 0 \in Good
    <2>1. P[0].uses = {}
      BY PrefixStep DEF BeforeRecords
    <2> HIDE DEF P
    <2> QED
      BY <2>1, FS_EmptySet
  <1>3. ASSUME NEW k \in Nat, k \in Good PROVE k + 1 \in Good
    <2> SUFFICES ASSUME k + 1 \in 0..Len(c) PROVE IsFiniteSet(P[k + 1].uses)
      OBVIOUS
    <2>1. k \in 0..Len(c) /\ k + 1 \in 1..Len(c) /\ (k + 1) - 1 = k
      BY <1>1
    <2>2. IsFiniteSet(P[k].uses) /\ IsFiniteSet(c[k + 1].at)
      BY <1>1, <1>3, <2>1
    <2>3. P[k + 1] = ReadNext(P[k], c[k + 1]) /\ c[k + 1] \in Records /\ P[k] \in Known
      BY <2>1, PrefixStep, PrefixType
    <2> HIDE DEF P
    <2> QED
      BY <2>2, <2>3, ReadNextType
  <1> HIDE DEF Good
  <1>4. n \in Good
    BY <1>1, <1>2, <1>3, InductionOnSet
  <1> QED
    BY <1>1, <1>4 DEF Good

-----------------------------------------------------------------------------
(* The policy.                                                             *)

\* Of every use retain keeps one of the same turn, so that nothing is kept only
\* when there was nothing.
LEMMA NothingRetained ==
  ASSUME NEW uses, \A u \in uses : u.pos \in Nat, Retained(uses) = {}
  PROVE  uses = {}
  <1> SUFFICES ASSUME NEW u \in uses PROVE FALSE
    OBVIOUS
  <1> DEFINE same == {v \in uses : v.rollout = u.rollout /\ v.turn = u.turn}
             places == {v.pos : v \in same}
  <1>1. places \in SUBSET Nat /\ u.pos \in places
    OBVIOUS
  <1>2. PICK least \in places : \A p \in places : least <= p
    <2> HIDE DEF places
    <2> QED
      BY <1>1, LeastNumber
  <1>3. PICK v \in same : v.pos = least
    OBVIOUS
  <1>4. v \in Retained(uses)
    BY <1>2, <1>3 DEF Retained
  <1> QED
    BY <1>4

\* The latest use is one of the uses, and none is later.
LEMMA LatestIsAUse ==
  ASSUME NEW kept, IsFiniteSet(kept), kept # {}, \A u \in kept : u.epoch \in Int
  PROVE  /\ \E u \in kept : LastEpoch(kept) = u.epoch
         /\ \A u \in kept : u.epoch <= LastEpoch(kept)
  <1> DEFINE epochs == {u.epoch : u \in kept}
             f == [u \in kept |-> u.epoch]
  <1>1. epochs \in SUBSET Int /\ epochs # {}
    OBVIOUS
  <1>2. epochs = {f[u] : u \in kept}
    OBVIOUS
  <1>3. IsFiniteSet(epochs)
    <2> HIDE DEF f, epochs
    <2> QED
      BY <1>2, ImageIsFinite
  <1>4. PICK e \in epochs : \A n \in epochs : n <= e
    <2> HIDE DEF epochs
    <2> QED
      BY <1>1, <1>3, GreatestOfFinite
  <1>5. \E m \in epochs : \A u \in kept : u.epoch <= m
    BY <1>4
  <1>6. LastEpoch(kept) \in epochs /\ \A u \in kept : u.epoch <= LastEpoch(kept)
    BY <1>5 DEF LastEpoch
  <1> QED
    BY <1>6

\* What is kept is among the uses.
LEMMA RetainedIsSubset ==
  ASSUME NEW uses PROVE Retained(uses) \subseteq uses
  BY DEF Retained
=============================================================================
