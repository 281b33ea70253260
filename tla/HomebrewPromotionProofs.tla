----------------------- MODULE HomebrewPromotionProofs -----------------------
(***************************************************************************)
(* The safety of promotions for every number of checkouts, versions and    *)
(* people, whatever is interrupted, lost, pushed or edited meanwhile.      *)
(*                                                                         *)
(* What a verdict says is true whatever people do in a checkout.  That a   *)
(* promotion pushes one commit of the formula alone, that versions rise    *)
(* and that a promotion can be resumed needs that nobody works in the      *)
(* checkout between the status that a promotion reads and its commit:      *)
(* Undisturbed.                                                            *)
(***************************************************************************)
EXTENDS HomebrewPromotion, SequenceTheorems, TLAPS

Undisturbed == EditPcs \cap {"dryRun", "prepare", "copy", "add", "commit"} = {}

-----------------------------------------------------------------------------
(* Prefixes.                                                               *)

LEMMA PrefixIsPointwise ==
  ASSUME NEW S, NEW s \in Seq(S), NEW t \in Seq(S)
  PROVE  IsPrefix(s, t) <=> Len(s) <= Len(t) /\ \A i \in 1..Len(s) : s[i] = t[i]
  <1>1. /\ Len(s) \in Nat /\ Len(t) \in Nat
        /\ \A i \in 1..Len(s) : s[i] \in S
        /\ \A i \in 1..Len(t) : t[i] \in S
    BY LenProperties
  <1>2. SubSeq(s, 1, Len(s)) = s
    BY SubSeqFull
  <1>3. CASE Len(s) <= Len(t)
    <2> DEFINE cut == SubSeq(t, 1, Len(s))
    <2>1. \A i \in 1..Len(s) : t[i] \in S
      BY <1>1, <1>3
    <2>2. /\ cut \in Seq(S) /\ Len(cut) = IF 1 <= Len(s) THEN Len(s) - 1 + 1 ELSE 0
          /\ \A i \in 1..(Len(s) - 1 + 1) : cut[i] = t[1 + i - 1]
      BY <1>1, <2>1, SubSeqProperties
    <2>3. Len(cut) = Len(s) /\ \A i \in 1..Len(s) : cut[i] = t[i]
      BY <1>1, <2>2
    <2> HIDE DEF cut
    <2>4. s = cut <=> \A i \in 1..Len(s) : s[i] = t[i]
      BY <2>2, <2>3, SeqEqual
    <2> QED
      BY <1>2, <1>3, <2>4 DEF IsPrefix, cut
  <1>4. CASE ~(Len(s) <= Len(t))
    BY <1>4 DEF IsPrefix
  <1> QED
    BY <1>3, <1>4

LEMMA PrefixOrder ==
  ASSUME NEW S, NEW s \in Seq(S), NEW t \in Seq(S), NEW u \in Seq(S)
  PROVE  /\ IsPrefix(s, s) /\ IsPrefix(<< >>, s)
         /\ IsPrefix(s, t) /\ IsPrefix(t, u) => IsPrefix(s, u)
         /\ IsPrefix(s, t) /\ IsPrefix(t, s) => s = t
         /\ IsPrefix(s, u) /\ IsPrefix(t, u) => IsPrefix(s, t) \/ IsPrefix(t, s)
  <1>1. /\ Len(s) \in Nat /\ Len(t) \in Nat /\ Len(u) \in Nat
        /\ << >> \in Seq(S) /\ Len(<< >>) = 0
    BY LenProperties, EmptySeq
  <1>2. IsPrefix(s, s) /\ IsPrefix(<< >>, s)
    <2>1. IsPrefix(s, s)
      BY <1>1, PrefixIsPointwise
    <2> DEFINE none == << >>
    <2>2. none \in Seq(S) /\ Len(none) = 0
      BY <1>1
    <2> HIDE DEF none
    <2>3. Len(none) <= Len(s) /\ \A i \in 1..Len(none) : none[i] = s[i]
      BY <1>1, <2>2
    <2>4. IsPrefix(none, s)
      BY <2>2, <2>3, PrefixIsPointwise
    <2> QED
      BY <2>1, <2>4 DEF none
  <1>3. IsPrefix(s, t) /\ IsPrefix(t, u) => IsPrefix(s, u)
    <2>1. IsPrefix(s, t) => Len(s) <= Len(t) /\ \A i \in 1..Len(s) : s[i] = t[i]
      BY PrefixIsPointwise
    <2>2. IsPrefix(t, u) => Len(t) <= Len(u) /\ \A i \in 1..Len(t) : t[i] = u[i]
      BY PrefixIsPointwise
    <2>3. IsPrefix(s, u) <=> Len(s) <= Len(u) /\ \A i \in 1..Len(s) : s[i] = u[i]
      BY PrefixIsPointwise
    <2> QED
      BY <1>1, <2>1, <2>2, <2>3
  <1>4. IsPrefix(s, t) /\ IsPrefix(t, s) => s = t
    <2>1. IsPrefix(s, t) => Len(s) <= Len(t) /\ \A i \in 1..Len(s) : s[i] = t[i]
      BY PrefixIsPointwise
    <2>2. IsPrefix(t, s) => Len(t) <= Len(s)
      BY PrefixIsPointwise
    <2> QED
      BY <1>1, <2>1, <2>2, SeqEqual
  <1>5. IsPrefix(s, u) /\ IsPrefix(t, u) => IsPrefix(s, t) \/ IsPrefix(t, s)
    <2>1. IsPrefix(s, u) => Len(s) <= Len(u) /\ \A i \in 1..Len(s) : s[i] = u[i]
      BY PrefixIsPointwise
    <2>2. IsPrefix(t, u) => Len(t) <= Len(u) /\ \A i \in 1..Len(t) : t[i] = u[i]
      BY PrefixIsPointwise
    <2>3. IsPrefix(s, t) <=> Len(s) <= Len(t) /\ \A i \in 1..Len(s) : s[i] = t[i]
      BY PrefixIsPointwise
    <2>4. IsPrefix(t, s) <=> Len(t) <= Len(s) /\ \A i \in 1..Len(t) : t[i] = s[i]
      BY PrefixIsPointwise
    <2> QED
      BY <1>1, <2>1, <2>2, <2>3, <2>4
  <1> QED
    BY <1>2, <1>3, <1>4, <1>5

LEMMA AppendEnds ==
  ASSUME NEW S, NEW s \in Seq(S), NEW e \in S
  PROVE  /\ Append(s, e) \in Seq(S) /\ Append(s, e) # << >>
         /\ Front(Append(s, e)) = s /\ Last(Append(s, e)) = e
         /\ IsPrefix(s, Append(s, e)) /\ Append(s, e) # s
  <1> DEFINE a == Append(s, e)
  <1>1. /\ a \in Seq(S) /\ a # << >> /\ Len(a) = Len(s) + 1 /\ Len(s) \in Nat
        /\ \A i \in 1..Len(s) : a[i] = s[i]
        /\ a[Len(s) + 1] = e
    BY AppendProperties, LenProperties
  <1> HIDE DEF a
  <1>2. Last(a) = e
    BY <1>1 DEF Last
  <1>3. IsPrefix(s, a)
    BY <1>1, PrefixIsPointwise
  <1>4. Front(a) = s
    BY <1>1, <1>3, SubSeqFull DEF Front, IsPrefix
  <1> QED
    BY <1>1, <1>2, <1>3, <1>4 DEF a

LEMMA FrontAndLast ==
  ASSUME NEW S, NEW s \in Seq(S), s # << >>
  PROVE  /\ Front(s) \in Seq(S) /\ Last(s) \in S /\ s = Append(Front(s), Last(s))
         /\ IsPrefix(Front(s), s) /\ Front(s) # s /\ Len(s) \in Nat \ {0}
  <1>1. PICK f \in Seq(S), e \in S : s = Append(f, e)
    BY SequenceEmptyOrAppend
  <1>2. Front(s) = f /\ Last(s) = e /\ IsPrefix(f, s) /\ f # s
    BY <1>1, AppendEnds
  <1> QED
    BY <1>1, <1>2, EmptySeq

\* Between a sequence and the same with one more element there is nothing.
LEMMA NothingBetween ==
  ASSUME NEW S, NEW s \in Seq(S), NEW m \in Seq(S), NEW t \in Seq(S), t # << >>, Front(t) = s,
         IsPrefix(s, m), IsPrefix(m, t)
  PROVE  m = s \/ m = t
  <1>1. t = Append(s, Last(t)) /\ Last(t) \in S
    BY FrontAndLast
  <1>2. Len(t) = Len(s) + 1 /\ Len(s) \in Nat /\ Len(m) \in Nat
    <2>1. Len(Append(s, Last(t))) = Len(s) + 1
      BY <1>1, AppendProperties
    <2> QED
      BY <1>1, <2>1, LenProperties
  <1>3. Len(s) <= Len(m) /\ \A i \in 1..Len(s) : s[i] = m[i]
    BY PrefixIsPointwise
  <1>4. Len(m) <= Len(t) /\ \A i \in 1..Len(m) : m[i] = t[i]
    BY PrefixIsPointwise
  <1>5. CASE Len(m) = Len(s)
    BY <1>3, <1>5, SeqEqual
  <1>6. CASE Len(m) = Len(t)
    BY <1>4, <1>6, SeqEqual
  <1> QED
    BY <1>2, <1>3, <1>4, <1>5, <1>6

-----------------------------------------------------------------------------
(* The invariant.  A checkout is what its promotion sees of it.            *)

Checkout(t) ==
  [head |-> head[t], index |-> index[t], work |-> work[t], other |-> other[t],
   writers |-> writers[t]]

Checkouts ==
  [head : Commits, index : Formulas, work : Formulas, other : {"none", "unstaged", "staged"},
   writers : SUBSET (Versions \cup {Outsider})]

\* Status of a checkout.
State(c) ==
  CASE c.other # "none" -> "foreign"
    [] c.other = "none" /\ {c.index, c.work} = {FormulaOf(c.head)} -> "clean"
    [] OTHER -> "formula"

Looked == {"dryRun", "prepare"}
Writing == {"copy", "add", "commit"}
Sealing == {"race", "push", "published", "verify"}

Typed ==
  /\ remote \in Commits
  /\ head \in [Taps -> Commits]
  /\ index \in [Taps -> Formulas]
  /\ work \in [Taps -> Formulas]
  /\ other \in [Taps -> {"none", "unstaged", "staged"}]
  /\ run \in [Taps -> Runs]
  /\ writers \in [Taps -> SUBSET (Versions \cup {Outsider})]
  /\ runs \in Nat /\ edits \in Nat /\ pushes \in Nat
  /\ remote # NoCommit
  /\ \A t \in Taps : head[t] # NoCommit

\* What a run has read of main is behind main, its version is newer than that,
\* and its verdict is true.
Formed(r, rem) ==
  /\ IsPrefix(r.remoteHead, rem)
  /\ r.pc \notin {"idle", "remote"} => r.remoteHead # NoCommit
  /\ r.pc # "idle" => r.version \in Versions /\ r.verdict = "none"
  /\ r.pc \in Looked \cup Writing \cup Sealing =>
       FormulaOf(r.remoteHead).version # 0 /\ r.version > FormulaOf(r.remoteHead).version
  /\ r.verdict = "PUBLISHED" =>
       IsPrefix(r.prepared, rem) /\ FormulaOf(r.prepared) = Release(r.version)
  /\ r.verdict = "NO_CHANGE" => FormulaOf(r.remoteHead) = Release(r.version)

\* The checkout is as the run has left it.
Steady(r, c) ==
  /\ r.pc \in Looked => r.localHead = c.head /\ r.status = State(c)
  /\ r.pc \in Writing => c.head = r.remoteHead /\ c.other = "none"
  /\ r.pc \in {"add", "commit"} => c.work = Release(r.version)
  /\ r.pc = "commit" => c.index = Release(r.version)

\* A commit that a promotion of version v makes, or takes for its own.
IsPromotion(change, v) == change.formula = Release(v) /\ ~change.others /\ change.by = v

\* What is pushed is one commit of the formula on the main that was read.
Sealed(t, r, rem) ==
  r.pc \in Sealing =>
    /\ r.prepared # NoCommit
    /\ Front(r.prepared) = r.remoteHead
    /\ IsPromotion(Last(r.prepared), r.version)
    /\ Last(r.prepared).at = t \/ IsPrefix(r.prepared, rem)

\* The commits of a checkout that were not made in it are those of main.
Local(t, c, rem) ==
  \A n \in 1..Len(c.head) :
    c.head[n].at # t => n <= Len(rem) /\ \A i \in 1..n : c.head[i] = rem[i]

\* What a promotion of v alone may have left on main: a copied formula, staged or
\* not, or its commit.
Written(v, c, rem) ==
  /\ c.other = "none"
  /\ \/ c.head = rem /\ c.work = Release(v)
     \/ /\ Front(c.head) = rem
        /\ IsPromotion(Last(c.head), v)
        /\ State(c) = "clean"

\* The writers of a checkout tell what it may differ from main in.
Own(t, c, rem) ==
  /\ Local(t, c, rem)
  /\ c.head = rem /\ State(c) = "clean" => c.writers = {}
  /\ c.writers = {} => IsPrefix(c.head, rem) /\ State(c) = "clean"
  /\ \A v \in Versions : c.writers = {v} => Written(v, c, rem)

\* A run that has found its own work, and nobody else's, can go on.
Resumable(r, c) ==
  r.pc = "prepare" /\ c.writers \subseteq {r.version} =>
    \/ r.localHead = r.remoteHead /\ r.status = "clean"
    \/ r.localHead = r.remoteHead /\ r.status = "formula" /\ c.work = Release(r.version)
    \/ r.status = "clean" /\ IsStrictPrefix(r.localHead, r.remoteHead)
    \/ /\ r.status = "clean" /\ Front(r.localHead) = r.remoteHead
       /\ IsPromotion(Last(r.localHead), r.version)

\* The promotions on main have left their own formula, and rise.
Lineage(rem) ==
  /\ \A i \in 1..Len(rem) : rem[i].by # Outsider => rem[i].formula.version = rem[i].by
  /\ \A i \in 2..Len(rem) :
       rem[i].by # Outsider /\ rem[i - 1].by # Outsider => rem[i - 1].by < rem[i].by

\* Whatever people do.
BaseInv == Typed /\ \A t \in Taps : Formed(run[t], remote)

\* If nobody disturbs a promotion.
TapInv(t) ==
  /\ Steady(run[t], Checkout(t))
  /\ Sealed(t, run[t], remote)
  /\ Own(t, Checkout(t), remote)
  /\ Resumable(run[t], Checkout(t))

IInv == BaseInv /\ Lineage(remote) /\ \A t \in Taps : TapInv(t)

-----------------------------------------------------------------------------
(* How the parts of the invariant move with main.                          *)

LEMMA FormedGrows ==
  ASSUME NEW r \in Runs, NEW rem \in Commits, NEW rem2 \in Commits, IsPrefix(rem, rem2),
         Formed(r, rem)
  PROVE  Formed(r, rem2)
  <1>1. r.remoteHead \in Commits /\ r.prepared \in Commits
    BY DEF Runs
  <1>2. IsPrefix(r.remoteHead, rem2)
    BY <1>1, PrefixOrder DEF Formed, Commits
  <1>3. IsPrefix(r.prepared, rem) => IsPrefix(r.prepared, rem2)
    BY <1>1, PrefixOrder DEF Commits
  <1> QED
    BY <1>2, <1>3 DEF Formed

LEMMA SealedGrows ==
  ASSUME NEW t, NEW r \in Runs, NEW rem \in Commits, NEW rem2 \in Commits, IsPrefix(rem, rem2),
         Sealed(t, r, rem)
  PROVE  Sealed(t, r, rem2)
  <1>1. r.prepared \in Commits
    BY DEF Runs
  <1>2. IsPrefix(r.prepared, rem) => IsPrefix(r.prepared, rem2)
    BY <1>1, PrefixOrder DEF Commits
  <1> QED
    BY <1>2 DEF Sealed

LEMMA LocalGrows ==
  ASSUME NEW t, NEW c \in Checkouts, NEW c2 \in Checkouts, c2.head = c.head,
         NEW rem \in Commits, NEW rem2 \in Commits, IsPrefix(rem, rem2), Local(t, c, rem)
  PROVE  Local(t, c2, rem2)
  <1>1. /\ Len(rem) <= Len(rem2) /\ \A i \in 1..Len(rem) : rem[i] = rem2[i]
        /\ Len(rem) \in Nat /\ Len(rem2) \in Nat /\ Len(c.head) \in Nat
    <2>1. Len(rem) <= Len(rem2) /\ \A i \in 1..Len(rem) : rem[i] = rem2[i]
      BY PrefixIsPointwise DEF Commits
    <2>2. c.head \in Seq(Changes)
      BY DEF Checkouts, Commits
    <2>3. Len(rem) \in Nat /\ Len(rem2) \in Nat /\ Len(c.head) \in Nat
      BY <2>2, LenProperties DEF Commits
    <2> QED
      BY <2>1, <2>3
  <1> QED
    BY <1>1 DEF Local

\* A checkout does not meet main where somebody else has moved it to.
LEMMA MainIsElsewhere ==
  ASSUME NEW t, NEW c \in Checkouts, NEW rem \in Commits, NEW rem2 \in Commits, IsPrefix(rem, rem2),
         rem2 # NoCommit, Last(rem2).at # t, Local(t, c, rem), c.head = rem2
  PROVE  rem2 = rem
  <1>1. Len(rem2) \in Nat \ {0} /\ Len(rem) \in Nat
    BY FrontAndLast, LenProperties DEF Commits, NoCommit
  <1>2. Len(rem2) \in 1..Len(c.head) /\ c.head[Len(rem2)].at # t
    BY <1>1 DEF Last
  <1>3. Len(rem2) <= Len(rem) /\ \A i \in 1..Len(rem2) : c.head[i] = rem[i]
    BY <1>2 DEF Local
  <1>4. IsPrefix(rem2, rem)
    BY <1>3, PrefixIsPointwise DEF Commits
  <1> QED
    BY <1>4, PrefixOrder DEF Commits

\* A checkout that its promotion leaves alone while main moves: it is as good as
\* before, and a run in it can be resumed if it could before.
LEMMA OwnGrows ==
  ASSUME NEW t, NEW r \in Runs, NEW c \in Checkouts, NEW c2 \in Checkouts,
         c2.head = c.head, c2.index = c.index, c2.work = c.work, c2.other = c.other,
         NEW rem \in Commits, NEW rem2 \in Commits, IsPrefix(rem, rem2), rem2 # NoCommit,
         rem2 = rem \/ Last(rem2).at # t,
         \/ c2.writers = c.writers /\ (rem2 = rem \/ c.writers = {})
         \/ Outsider \in c2.writers /\ rem2 # rem
         \/ c2.writers = {} /\ c.head = rem2 /\ State(c) = "clean",
         Own(t, c, rem), Formed(r, rem), Resumable(r, c)
  PROVE  Own(t, c2, rem2) /\ Resumable(r, c2)
  <1>1. State(c2) = State(c)
    BY DEF State
  <1>2. Local(t, c2, rem2)
    BY LocalGrows DEF Own
  <1>3. c.head = rem2 => rem2 = rem
    BY MainIsElsewhere DEF Own
  <1>4. c.head \in Commits
    BY DEF Checkouts
  <1>5. IsPrefix(c.head, rem) => IsPrefix(c.head, rem2)
    BY <1>4, PrefixOrder DEF Commits
  <1>6. CASE c2.writers = c.writers /\ rem2 = rem
    <2>1. \A v \in Versions : Written(v, c, rem) => Written(v, c2, rem2)
      BY <1>1, <1>6 DEF Written
    <2>2. Own(t, c2, rem2)
      BY <1>1, <1>2, <1>6, <2>1 DEF Own
    <2>3. Resumable(r, c2)
      BY <1>6 DEF Resumable
    <2> QED
      BY <2>2, <2>3
  <1>7. CASE c2.writers = {} /\ c.writers = {}
    <2>1. Own(t, c2, rem2)
      BY <1>1, <1>2, <1>5, <1>7 DEF Own
    <2>2. Resumable(r, c2)
      BY <1>7 DEF Resumable
    <2> QED
      BY <2>1, <2>2
  <1>8. CASE Outsider \in c2.writers /\ rem2 # rem
    <2>1. Own(t, c2, rem2)
      BY <1>1, <1>2, <1>3, <1>8, PromotionAssumption DEF Own, Outsider
    <2>2. r.pc = "prepare" => r.version # Outsider
      BY PromotionAssumption DEF Formed, Outsider
    <2>3. Resumable(r, c2)
      BY <1>8, <2>2 DEF Resumable
    <2> QED
      BY <2>1, <2>3
  <1>9. CASE c2.writers = {} /\ c.head = rem2 /\ State(c) = "clean"
    BY <1>3, <1>7, <1>9 DEF Own
  <1> QED
    BY <1>6, <1>7, <1>8, <1>9

\* A checkout that somebody has written.
LEMMA OwnTracks ==
  ASSUME NEW t, NEW who \in Versions \cup {Outsider}, NEW c \in Checkouts, NEW c2 \in Checkouts,
         NEW rem \in Commits,
         c2.writers = (IF c2.head = rem /\ State(c2) = "clean" THEN {}
                       ELSE c.writers \cup {who}
                              \cup (IF IsPrefix(rem, c2.head) THEN {} ELSE {Outsider})),
         Local(t, c2, rem),
         who # Outsider /\ c.writers \subseteq {who} /\ IsPrefix(rem, c2.head)
           /\ ~(c2.head = rem /\ State(c2) = "clean") => Written(who, c2, rem)
  PROVE  Own(t, c2, rem)
  <1>1. c2.head = rem /\ State(c2) = "clean" => c2.writers = {}
    OBVIOUS
  <1>2. c2.writers = {} => c2.head = rem /\ State(c2) = "clean"
    OBVIOUS
  <1>3. IsPrefix(rem, rem)
    BY PrefixOrder DEF Commits
  <1>4. ASSUME NEW v \in Versions, c2.writers = {v} PROVE Written(v, c2, rem)
    <2>1. ~(c2.head = rem /\ State(c2) = "clean") /\ v # Outsider
      BY <1>4, PromotionAssumption DEF Outsider
    <2>2. who = v /\ c.writers \subseteq {who} /\ IsPrefix(rem, c2.head)
      BY <1>4, <2>1
    <2> QED
      BY <2>1, <2>2
  <1> QED
    BY <1>1, <1>2, <1>3, <1>4 DEF Own

-----------------------------------------------------------------------------
(* Types.                                                                  *)

LEMMA FormulaTypes ==
  /\ \A v \in Versions : Release(v) \in Formulas
  /\ Broken \in Formulas /\ Foreign \subseteq Formulas /\ First \in Versions
  BY PromotionAssumption DEF Release, Broken, Formulas

LEMMA LastFormula ==
  ASSUME NEW c \in Commits, c # NoCommit
  PROVE  /\ FormulaOf(c) \in Formulas /\ FormulaOf(c).version \in Nat
         /\ FormulaOf(c) = Last(c).formula
  <1>1. Last(c) \in Changes
    BY FrontAndLast DEF Commits, NoCommit
  <1>2. FormulaOf(c) = Last(c).formula /\ FormulaOf(c) \in Formulas
    BY <1>1 DEF Changes, FormulaOf
  <1>3. \A f \in Formulas : f.version \in Nat
    <2>1. \A f \in Formulas : f.version \in Versions \cup {0}
      BY DEF Formulas
    <2>2. \A v \in Versions \cup {0} : v \in Nat
      <3>1. Versions \subseteq Nat \ {0}
        BY PromotionAssumption, Zenon
      <3> QED
        BY <3>1
    <2> QED
      BY <2>1, <2>2
  <1> QED
    BY <1>2, <1>3

LEMMA CheckoutType ==
  ASSUME Typed, NEW t \in Taps
  PROVE  /\ Checkout(t) \in Checkouts /\ Status(t) = State(Checkout(t)) /\ Checkout(t).head # NoCommit
         /\ Status(t) \in {"clean", "formula", "foreign"}
  BY DEF Typed, Checkout, Checkouts, Status, State

LEMMA TrackType ==
  ASSUME Typed, NEW t \in Taps, NEW who \in Versions \cup {Outsider}, Track(t, who)
  PROVE  writers' \in [Taps -> SUBSET (Versions \cup {Outsider})]
  <1> DEFINE new(u) ==
        IF head'[u] = remote' /\ Status(u)' = "clean" THEN {}
        ELSE IF u = t THEN
          writers[u] \cup {who} \cup (IF IsPrefix(remote', head'[u]) THEN {} ELSE {Outsider})
        ELSE IF remote' # remote /\ writers[u] # {} THEN writers[u] \cup {Outsider}
        ELSE writers[u]
  <1>1. writers' = [u \in Taps |-> new(u)]
    BY DEF Track
  <1>2. \A u \in Taps : new(u) \in SUBSET (Versions \cup {Outsider})
    BY DEF Typed
  <1> HIDE DEF new
  <1> QED
    BY <1>1, <1>2

-----------------------------------------------------------------------------
(* What holds whatever people do.                                          *)

LEMMA InitBase == Init => BaseInv
  <1> SUFFICES ASSUME Init PROVE BaseInv
    OBVIOUS
  <1> DEFINE first == [formula |-> Release(First), others |-> TRUE, by |-> Outsider, at |-> ""]
  <1>1. Release(First) \in Formulas /\ first \in Changes
    BY FormulaTypes DEF Changes
  <1>2. FirstCommit \in Commits /\ FirstCommit # NoCommit
    <2>1. FirstCommit = <<first>>
      BY DEF FirstCommit
    <2> HIDE DEF first
    <2>2. <<first>> \in Seq(Changes) /\ Len(<<first>>) = 1 /\ Len(<< >>) = 0
      BY <1>1
    <2>3. <<first>> # << >>
      BY <2>2
    <2> QED
      BY <2>1, <2>2, <2>3 DEF Commits, NoCommit
  <1>3. Idle \in Runs
    <2>1. NoCommit \in Commits
      BY EmptySeq DEF Commits, NoCommit
    <2> QED
      BY <2>1 DEF Idle, Runs, Pcs
  <1>4. Typed
    BY <1>1, <1>2, <1>3 DEF Init, Typed
  <1>5. Formed(Idle, FirstCommit)
    BY <1>2, PrefixOrder DEF Formed, Idle, Looked, Writing, Sealing, Commits, NoCommit
  <1> QED
    BY <1>4, <1>5 DEF Init, BaseInv

\* A step of one run, with what it makes of main.
LEMMA RunMoves ==
  ASSUME BaseInv, NEW t \in Taps, Typed', IsPrefix(remote, remote'), Formed(run'[t], remote'),
         \A u \in Taps \ {t} : run'[u] = run[u]
  PROVE  BaseInv'
  <1>1. \A u \in Taps : run[u] \in Runs /\ Formed(run[u], remote)
    BY DEF BaseInv, Typed
  <1>2. remote \in Commits /\ remote' \in Commits
    BY DEF BaseInv, Typed
  <1>3. \A u \in Taps \ {t} : Formed(run'[u], remote')
    BY <1>1, <1>2, FormedGrows
  <1> QED
    BY <1>3 DEF BaseInv

\* A run goes on with other fields, and no checkout is written.
LEMMA GoesBase ==
  ASSUME BaseInv, NEW t \in Taps, NEW r \in Runs, Formed(r, remote),
         run' = [run EXCEPT ![t] = r], UNCHANGED <<remote, tap, writers, edits, pushes>>, runs' \in Nat
  PROVE  BaseInv' /\ run'[t] = r /\ \A u \in Taps \ {t} : run'[u] = run[u]
  <1>1. Typed' /\ run'[t] = r /\ \A u \in Taps \ {t} : run'[u] = run[u]
    BY DEF BaseInv, Typed, tap
  <1>2. IsPrefix(remote, remote')
    BY PrefixOrder DEF BaseInv, Typed, Commits
  <1> QED
    BY <1>1, <1>2, RunMoves

LEMMA IdleIsFormed ==
  ASSUME NEW rem \in Commits, NEW v \in Versions
  PROVE  /\ Idle \in Runs /\ Formed(Idle, rem)
         /\ [Idle EXCEPT !.pc = "remote", !.version = v] \in Runs
         /\ Formed([Idle EXCEPT !.pc = "remote", !.version = v], rem)
  <1> DEFINE started == [Idle EXCEPT !.pc = "remote", !.version = v]
  <1>1. NoCommit \in Commits /\ IsPrefix(NoCommit, rem)
    BY EmptySeq, PrefixOrder DEF Commits, NoCommit
  <1>2. Idle \in Runs
    BY <1>1 DEF Idle, Runs, Pcs
  <1>3. Idle.pc = "idle" /\ Idle.remoteHead = NoCommit /\ Idle.verdict = "none"
    BY DEF Idle
  <1>4. /\ started \in Runs /\ started.pc = "remote" /\ started.remoteHead = NoCommit
        /\ started.verdict = "none" /\ started.version = v
    BY <1>2, <1>3 DEF Runs, Pcs
  <1> HIDE DEF started
  <1>5. Formed(Idle, rem) /\ Formed(started, rem)
    BY <1>1, <1>3, <1>4 DEF Formed, Looked, Writing, Sealing
  <1> QED
    BY <1>2, <1>4, <1>5 DEF started

\* The steps of a run that write no checkout: what each of them leaves in the run.
LEMMA ReadingBase ==
  ASSUME BaseInv, NEW t \in Taps,
         \/ Stop(t) \/ ReadRemote(t) \/ Fetch(t) \/ Inspect(t) \/ DryRun(t) \/ Prepare(t)
         \/ Race(t) \/ ReadPublished(t) \/ VerifyPublished(t) \/ \E v \in Versions : Start(t, v)
  PROVE  /\ BaseInv' /\ UNCHANGED <<remote, tap, writers>>
         /\ \A u \in Taps \ {t} : run'[u] = run[u]
  <1> DEFINE r == run[t]
  <1>1. r \in Runs /\ Formed(r, remote) /\ remote \in Commits /\ remote # NoCommit
        /\ head[t] \in Commits /\ runs \in Nat /\ IsPrefix(remote, remote)
    BY PrefixOrder DEF BaseInv, Typed, Commits
  <1>2. NoCommit \in Commits
    BY EmptySeq DEF Commits, NoCommit
  <1>3. First \in Versions
    BY PromotionAssumption
  <1>4. ASSUME NEW n \in Runs, Formed(n, remote), Goes(t, n)
        PROVE  /\ BaseInv' /\ UNCHANGED <<remote, tap, writers>>
               /\ \A u \in Taps \ {t} : run'[u] = run[u]
    <2>1. /\ run' = [run EXCEPT ![t] = n] /\ UNCHANGED <<remote, tap, writers, edits, pushes>>
          /\ runs' \in Nat
      BY <1>1, <1>4 DEF Goes, Counters
    <2> QED
      BY <1>4, <2>1, GoesBase
  <1>5. ASSUME Stop(t) PROVE \E n \in Runs : Formed(n, remote) /\ Goes(t, n)
    BY <1>1, <1>3, <1>5, IdleIsFormed DEF Stop
  <1>6. ASSUME ReadRemote(t) PROVE \E n \in Runs : Formed(n, remote) /\ Goes(t, n)
    <2> DEFINE n == [r EXCEPT !.pc = "fetch", !.remoteHead = remote]
    <2>1. n \in Runs /\ n.pc = "fetch" /\ n.remoteHead = remote /\ n.version = r.version
          /\ n.verdict = r.verdict /\ Goes(t, n) /\ r.pc = "remote"
      BY <1>1, <1>6 DEF ReadRemote, Runs, Pcs
    <2> HIDE DEF n
    <2>2. Formed(n, remote)
      BY <1>1, <2>1 DEF Formed, Looked, Writing, Sealing
    <2> QED
      BY <2>1, <2>2
  <1>7. ASSUME NEW to, Goes(t, [r EXCEPT !.pc = to]),
               \/ r.pc = "fetch" /\ to = "inspect"
               \/ r.pc = "dryRun" /\ to = "prepare"
               \/ r.pc = "prepare" /\ to \in {"copy", "add"}
               \/ r.pc = "race" /\ to = "push"
               \/ r.pc = "published" /\ to = "verify"
        PROVE \E n \in Runs : Formed(n, remote) /\ Goes(t, n)
    <2> DEFINE n == [r EXCEPT !.pc = to]
    <2>1. n \in Runs /\ n.pc = to /\ n.remoteHead = r.remoteHead /\ n.version = r.version
          /\ n.verdict = r.verdict /\ n.prepared = r.prepared
      BY <1>1, <1>7 DEF Runs, Pcs
    <2> HIDE DEF n
    <2>2. Formed(n, remote)
      BY <1>1, <1>7, <2>1 DEF Formed, Looked, Writing, Sealing
    <2> QED
      BY <1>7, <2>1, <2>2 DEF n
  <1>8. ASSUME NEW verdict, Finish(t, verdict), r.pc # "idle",
               \/ verdict = "LOCAL_STATE_CONFLICT"
               \/ verdict = "NO_CHANGE" /\ FormulaOf(r.remoteHead) = Release(r.version)
               \/ /\ verdict = "PUBLISHED" /\ r.prepared = remote
                  /\ FormulaOf(r.prepared) = Release(r.version)
        PROVE \E n \in Runs : Formed(n, remote) /\ Goes(t, n)
    <2> DEFINE n == [r EXCEPT !.pc = "idle", !.localHead = NoCommit, !.status = "clean",
                              !.verdict = verdict]
    <2>1. n \in Runs /\ n.pc = "idle" /\ n.remoteHead = r.remoteHead /\ n.version = r.version
          /\ n.verdict = verdict /\ n.prepared = r.prepared /\ Goes(t, n)
      BY <1>1, <1>2, <1>8 DEF Finish, Runs, Pcs
    <2> HIDE DEF n
    <2>2. Formed(n, remote)
      BY <1>1, <1>8, <2>1 DEF Formed, Looked, Writing, Sealing
    <2> QED
      BY <2>1, <2>2
  <1>9. ASSUME Inspect(t) PROVE \E n \in Runs : Formed(n, remote) /\ Goes(t, n)
    <2>1. CASE IsCurrent(t)
      BY <1>8, <1>9, <2>1 DEF Inspect, IsCurrent
    <2>2. CASE ~IsCurrent(t)
      <3> DEFINE n == [r EXCEPT !.pc = "dryRun", !.localHead = head[t], !.status = Status(t)]
      <3>1. Goes(t, n) /\ r.pc = "inspect" /\ Newer(t)
        BY <1>9, <2>2 DEF Inspect
      <3>2. Status(t) \in {"clean", "formula", "foreign"}
        BY CheckoutType DEF BaseInv
      <3>3. n \in Runs /\ n.pc = "dryRun" /\ n.remoteHead = r.remoteHead /\ n.version = r.version
            /\ n.verdict = r.verdict /\ n.prepared = r.prepared
        BY <1>1, <3>2 DEF Runs, Pcs
      <3> HIDE DEF n
      <3>4. Formed(n, remote)
        BY <1>1, <3>1, <3>3 DEF Formed, Looked, Writing, Sealing, Newer
      <3> QED
        BY <3>1, <3>3, <3>4
    <2> QED
      BY <2>1, <2>2
  <1>10. ASSUME Prepare(t) PROVE \E n \in Runs : Formed(n, remote) /\ Goes(t, n)
    <2>1. CASE Committed(t) /\ Goes(t, [r EXCEPT !.pc = "race", !.prepared = r.localHead])
      <3> DEFINE n == [r EXCEPT !.pc = "race", !.prepared = r.localHead]
      <3>1. n \in Runs /\ n.pc = "race" /\ n.remoteHead = r.remoteHead /\ n.version = r.version
            /\ n.verdict = r.verdict /\ r.pc = "prepare" /\ Goes(t, n)
        BY <1>1, <1>10, <2>1 DEF Prepare, Runs, Pcs
      <3> HIDE DEF n
      <3>2. Formed(n, remote)
        BY <1>1, <3>1 DEF Formed, Looked, Writing, Sealing
      <3> QED
        BY <3>1, <3>2
    <2>2. CASE Finish(t, "LOCAL_STATE_CONFLICT")
      BY <1>8, <1>10, <2>2 DEF Prepare
    <2> QED
      BY <1>7, <1>10, <2>1, <2>2 DEF Prepare
  <1>11. ASSUME VerifyPublished(t) PROVE \E n \in Runs : Formed(n, remote) /\ Goes(t, n)
    BY <1>8, <1>11 DEF VerifyPublished
  <1>12. ASSUME NEW v \in Versions, Start(t, v)
         PROVE  /\ BaseInv' /\ UNCHANGED <<remote, tap, writers>>
                /\ \A u \in Taps \ {t} : run'[u] = run[u]
    <2> DEFINE n == [Idle EXCEPT !.pc = "remote", !.version = v]
    <2>1. /\ run' = [run EXCEPT ![t] = n] /\ UNCHANGED <<remote, tap, writers, edits, pushes>>
          /\ runs' = runs + 1
      BY <1>12 DEF Start
    <2>3. runs' \in Nat
      BY <1>1, <2>1
    <2>2. n \in Runs /\ Formed(n, remote)
      BY <1>1, IdleIsFormed
    <2> HIDE DEF n
    <2> QED
      BY <2>1, <2>2, <2>3, GoesBase
  <1> QED
    BY <1>4, <1>5, <1>6, <1>7, <1>9, <1>10, <1>11, <1>12 DEF Fetch, DryRun, Race, ReadPublished

LEMMA LongerIsNotEmpty ==
  ASSUME NEW a \in Commits, NEW b \in Commits, IsPrefix(a, b), a # NoCommit
  PROVE  b # NoCommit
  <1>1. IsPrefix(NoCommit, a) /\ NoCommit \in Commits
    BY EmptySeq, PrefixOrder DEF Commits, NoCommit
  <1>2. b = NoCommit => a = b
    BY <1>1, PrefixOrder DEF Commits
  <1> QED
    BY <1>2

\* A promotion writes its checkout and goes on at pc.
LEMMA WritesBase ==
  ASSUME BaseInv, NEW t \in Taps, NEW pc \in Writing, run[t].pc \in {"prepare", "copy", "add"},
         Writes(t, pc),
         head' \in [Taps -> Commits], \A u \in Taps : head'[u] # NoCommit,
         index' \in [Taps -> Formulas], work' \in [Taps -> Formulas],
         other' \in [Taps -> {"none", "unstaged", "staged"}]
  PROVE  /\ BaseInv' /\ remote' = remote /\ Track(t, run[t].version)
         /\ run'[t] = [run[t] EXCEPT !.pc = pc]
         /\ \A u \in Taps \ {t} : run'[u] = run[u]
  <1> DEFINE n == [run[t] EXCEPT !.pc = pc]
  <1>1. /\ run[t] \in Runs /\ Formed(run[t], remote) /\ remote \in Commits
        /\ run \in [Taps -> Runs] /\ runs \in Nat /\ edits \in Nat /\ pushes \in Nat
        /\ remote # NoCommit
    BY DEF BaseInv, Typed
  <1>2. /\ run' = [run EXCEPT ![t] = n] /\ UNCHANGED <<remote, runs, edits, pushes>>
        /\ Track(t, run[t].version)
    BY DEF Writes, Counters
  <1>3. /\ n \in Runs /\ n.pc = pc /\ n.remoteHead = run[t].remoteHead /\ n.version = run[t].version
        /\ n.verdict = run[t].verdict /\ n.prepared = run[t].prepared
    BY <1>1 DEF Runs, Pcs, Writing
  <1> HIDE DEF n
  <1>4. Formed(n, remote) /\ run[t].version \in Versions
    BY <1>1, <1>3 DEF Formed, Looked, Writing, Sealing
  <1>5. writers' \in [Taps -> SUBSET (Versions \cup {Outsider})]
    BY <1>2, <1>4, TrackType DEF BaseInv
  <1>6. run'[t] = n /\ (\A u \in Taps \ {t} : run'[u] = run[u]) /\ run' \in [Taps -> Runs]
    BY <1>1, <1>2, <1>3
  <1>7. Typed'
    BY <1>1, <1>2, <1>5, <1>6 DEF Typed
  <1>8. IsPrefix(remote, remote')
    BY <1>1, <1>2, PrefixOrder DEF Commits
  <1>9. BaseInv'
    BY <1>2, <1>4, <1>6, <1>7, <1>8, RunMoves
  <1> QED
    BY <1>2, <1>6, <1>9 DEF n

LEMMA FastForwardBase ==
  ASSUME BaseInv, NEW t \in Taps, FastForward(t)
  PROVE  /\ BaseInv' /\ remote' = remote /\ Track(t, run[t].version)
         /\ run'[t] = [run[t] EXCEPT !.pc = "copy"] /\ \A u \in Taps \ {t} : run'[u] = run[u]
  <1>1. run[t] \in Runs /\ Formed(run[t], remote) /\ run[t].pc = "prepare" /\ Writes(t, "copy")
    BY DEF BaseInv, Typed, FastForward
  <1>2. run[t].remoteHead \in Commits /\ run[t].remoteHead # NoCommit
    BY <1>1 DEF Runs, Formed
  <1>3. FormulaOf(run[t].remoteHead) \in Formulas
    BY <1>2, LastFormula
  <1>4. /\ head' \in [Taps -> Commits] /\ \A u \in Taps : head'[u] # NoCommit
        /\ index' \in [Taps -> Formulas] /\ work' \in [Taps -> Formulas]
        /\ other' \in [Taps -> {"none", "unstaged", "staged"}]
    BY <1>2, <1>3 DEF FastForward, BaseInv, Typed
  <1>5. "copy" \in Writing
    BY DEF Writing
  <1> QED
    BY <1>1, <1>4, <1>5, WritesBase

LEMMA CopyBase ==
  ASSUME BaseInv, NEW t \in Taps, Copy(t)
  PROVE  /\ BaseInv' /\ remote' = remote /\ Track(t, run[t].version)
         /\ run'[t] = [run[t] EXCEPT !.pc = "add"] /\ \A u \in Taps \ {t} : run'[u] = run[u]
  <1>1. Formed(run[t], remote) /\ run[t].pc = "copy" /\ Writes(t, "add")
    BY DEF BaseInv, Copy
  <1>2. Release(run[t].version) \in Formulas
    BY <1>1, FormulaTypes DEF Formed
  <1>3. /\ head' \in [Taps -> Commits] /\ \A u \in Taps : head'[u] # NoCommit
        /\ index' \in [Taps -> Formulas] /\ work' \in [Taps -> Formulas]
        /\ other' \in [Taps -> {"none", "unstaged", "staged"}]
    BY <1>2 DEF Copy, BaseInv, Typed
  <1>4. "add" \in Writing
    BY DEF Writing
  <1> QED
    BY <1>1, <1>3, <1>4, WritesBase

LEMMA AddBase ==
  ASSUME BaseInv, NEW t \in Taps, Add(t)
  PROVE  /\ BaseInv' /\ remote' = remote /\ Track(t, run[t].version)
         /\ run'[t] = [run[t] EXCEPT !.pc = "commit"] /\ \A u \in Taps \ {t} : run'[u] = run[u]
  <1>1. run[t].pc = "add" /\ Writes(t, "commit")
    BY DEF Add
  <1>2. /\ head' \in [Taps -> Commits] /\ \A u \in Taps : head'[u] # NoCommit
        /\ index' \in [Taps -> Formulas] /\ work' \in [Taps -> Formulas]
        /\ other' \in [Taps -> {"none", "unstaged", "staged"}]
    BY DEF Add, BaseInv, Typed
  <1>3. "commit" \in Writing
    BY DEF Writing
  <1> QED
    BY <1>1, <1>2, <1>3, WritesBase

\* The commit that a promotion makes.
Made(t) ==
  [formula |-> index[t], others |-> other[t] = "staged", by |-> run[t].version, at |-> t]

LEMMA CommitBase ==
  ASSUME BaseInv, NEW t \in Taps, Commit(t)
  PROVE  /\ BaseInv' /\ remote' = remote /\ Track(t, run[t].version)
         /\ Made(t) \in Changes /\ head'[t] = Append(head[t], Made(t))
         /\ run'[t] = [run[t] EXCEPT !.pc = "race", !.prepared = head'[t]]
         /\ \A u \in Taps \ {t} : run'[u] = run[u]
  <1> DEFINE h == Append(head[t], Made(t))
             n == [run[t] EXCEPT !.pc = "race", !.prepared = h]
  <1>1. /\ run[t] \in Runs /\ Formed(run[t], remote) /\ run[t].pc = "commit" /\ remote \in Commits
        /\ run \in [Taps -> Runs] /\ runs \in Nat /\ edits \in Nat /\ pushes \in Nat
        /\ remote # NoCommit /\ head[t] \in Commits
        /\ head \in [Taps -> Commits]
    BY DEF BaseInv, Typed, Commit
  <1>2. run[t].version \in Versions
    BY <1>1 DEF Formed
  <1>3. Made(t) \in Changes
    <2>1. index[t] \in Formulas
      BY DEF BaseInv, Typed
    <2> QED
      BY <1>2, <2>1 DEF Made, Changes
  <1>4. h \in Commits /\ h # NoCommit
    BY <1>1, <1>3, AppendEnds DEF Commits, NoCommit
  <1>5. head' = [head EXCEPT ![t] = h]
    BY DEF Commit, Made
  <1>6. head'[t] = h
    BY <1>1, <1>5
  <1>7. /\ run' = [run EXCEPT ![t] = n] /\ UNCHANGED <<remote, index, work, runs, edits, pushes>>
        /\ Track(t, run[t].version)
    BY <1>1, <1>6 DEF Commit, Counters
  <1> HIDE DEF h
  <1>8. /\ n \in Runs /\ n.pc = "race" /\ n.remoteHead = run[t].remoteHead
        /\ n.version = run[t].version /\ n.verdict = run[t].verdict
    BY <1>1, <1>4 DEF Runs, Pcs
  <1> HIDE DEF n
  <1>9. Formed(n, remote)
    BY <1>1, <1>8 DEF Formed, Looked, Writing, Sealing
  <1>10. writers' \in [Taps -> SUBSET (Versions \cup {Outsider})]
    BY <1>2, <1>7, TrackType DEF BaseInv
  <1>11. run'[t] = n /\ (\A u \in Taps \ {t} : run'[u] = run[u]) /\ run' \in [Taps -> Runs]
    BY <1>1, <1>7, <1>8
  <1>12. head' \in [Taps -> Commits] /\ \A u \in Taps : head'[u] # NoCommit
    BY <1>4, <1>5 DEF BaseInv, Typed
  <1>13. other' \in [Taps -> {"none", "unstaged", "staged"}]
    BY DEF Commit, BaseInv, Typed
  <1>14. Typed'
    BY <1>1, <1>7, <1>10, <1>11, <1>12, <1>13 DEF BaseInv, Typed
  <1>15. IsPrefix(remote, remote')
    BY <1>1, <1>7, PrefixOrder DEF Commits
  <1>16. BaseInv'
    BY <1>7, <1>9, <1>11, <1>14, <1>15, RunMoves
  <1> QED
    BY <1>3, <1>6, <1>7, <1>11, <1>16 DEF h, n

LEMMA CopyCutBase ==
  ASSUME BaseInv, NEW t \in Taps, CopyCut(t)
  PROVE  /\ BaseInv' /\ remote' = remote /\ Track(t, Outsider)
         /\ run'[t] = Idle /\ \A u \in Taps \ {t} : run'[u] = run[u]
  <1>1. /\ run' = [run EXCEPT ![t] = Idle] /\ UNCHANGED <<remote, head, index, other, runs, edits, pushes>>
        /\ work' = [work EXCEPT ![t] = Broken] /\ Track(t, Outsider)
    BY DEF CopyCut, Counters
  <1>2. Idle \in Runs /\ Formed(Idle, remote)
    BY IdleIsFormed, PromotionAssumption DEF BaseInv, Typed
  <1>3. writers' \in [Taps -> SUBSET (Versions \cup {Outsider})]
    BY <1>1, TrackType DEF BaseInv
  <1>4. Broken \in Formulas
    BY FormulaTypes
  <1>5. Typed' /\ run'[t] = Idle /\ \A u \in Taps \ {t} : run'[u] = run[u]
    BY <1>1, <1>2, <1>3, <1>4 DEF BaseInv, Typed
  <1>6. IsPrefix(remote, remote')
    BY <1>1, PrefixOrder DEF BaseInv, Typed, Commits
  <1> QED
    BY <1>1, <1>2, <1>5, <1>6, RunMoves

LEMMA PushBase ==
  ASSUME BaseInv, NEW t \in Taps, Push(t)
  PROVE  /\ BaseInv' /\ remote' = run[t].prepared /\ IsPrefix(remote, remote') /\ UNCHANGED tap
         /\ Track(t, run[t].version)
         /\ run'[t] \in {[run[t] EXCEPT !.pc = "published"], Idle}
         /\ \A u \in Taps \ {t} : run'[u] = run[u]
  <1> DEFINE n == [run[t] EXCEPT !.pc = "published"]
  <1>1. /\ run[t] \in Runs /\ Formed(run[t], remote) /\ run[t].pc = "push" /\ remote \in Commits
        /\ run \in [Taps -> Runs] /\ remote # NoCommit /\ run[t].prepared \in Commits
    BY DEF BaseInv, Typed, Push, Runs
  <1>2. /\ remote' = run[t].prepared /\ IsPrefix(remote, remote')
        /\ UNCHANGED <<tap, runs, edits, pushes>> /\ Track(t, run[t].version)
        /\ run' \in {[run EXCEPT ![t] = n], [run EXCEPT ![t] = Idle]}
    BY DEF Push, Counters
  <1>3. /\ n \in Runs /\ n.pc = "published" /\ n.remoteHead = run[t].remoteHead
        /\ n.version = run[t].version /\ n.verdict = run[t].verdict /\ n.prepared = run[t].prepared
    BY <1>1 DEF Runs, Pcs
  <1> HIDE DEF n
  <1>4. Formed(n, remote) /\ run[t].version \in Versions
    BY <1>1, <1>3 DEF Formed, Looked, Writing, Sealing
  <1>5. remote' \in Commits /\ remote' # NoCommit
    BY <1>1, <1>2, LongerIsNotEmpty
  <1>6. Idle \in Runs /\ Formed(Idle, remote') /\ Formed(n, remote')
    BY <1>1, <1>2, <1>3, <1>4, <1>5, FormedGrows, IdleIsFormed
  <1>7. writers' \in [Taps -> SUBSET (Versions \cup {Outsider})]
    BY <1>2, <1>4, TrackType DEF BaseInv
  <1>8. /\ run'[t] \in {n, Idle} /\ run' \in [Taps -> Runs]
        /\ \A u \in Taps \ {t} : run'[u] = run[u]
    BY <1>1, <1>2, <1>3, <1>6
  <1>9. Typed'
    BY <1>2, <1>5, <1>7, <1>8 DEF BaseInv, Typed, tap
  <1>10. Formed(run'[t], remote')
    BY <1>6, <1>8
  <1>11. BaseInv'
    BY <1>2, <1>8, <1>9, <1>10, RunMoves
  <1> QED
    BY <1>2, <1>8, <1>11 DEF n

-----------------------------------------------------------------------------
(* People.                                                                 *)

\* A change that people commit, in a checkout or on main.
Outside(formula, others, at) == [formula |-> formula, others |-> others, by |-> Outsider, at |-> at]

LEMMA PeopleBase ==
  ASSUME BaseInv, NEW t \in Taps,
         \/ EditOther(t) \/ CommitOther(t) \/ Tidy(t) \/ \E formula \in Foreign : EditFormula(t, formula)
  PROVE  BaseInv' /\ UNCHANGED <<remote, run>> /\ Track(t, Outsider) /\ run[t].pc \in EditPcs
  <1>1. /\ UNCHANGED <<remote, run, runs, pushes>> /\ Track(t, Outsider) /\ edits' = edits + 1
        /\ run[t].pc \in EditPcs
    BY DEF EditOther, CommitOther, Tidy, EditFormula, People
  <1>2. edits' \in Nat
    BY <1>1 DEF BaseInv, Typed
  <1>3. writers' \in [Taps -> SUBSET (Versions \cup {Outsider})]
    BY <1>1, TrackType DEF BaseInv
  <1>4. /\ head' \in [Taps -> Commits] /\ \A u \in Taps : head'[u] # NoCommit
        /\ index' \in [Taps -> Formulas] /\ work' \in [Taps -> Formulas]
        /\ other' \in [Taps -> {"none", "unstaged", "staged"}]
    <2>1. CASE EditOther(t)
      BY <2>1 DEF EditOther, BaseInv, Typed
    <2>2. CASE \E formula \in Foreign : EditFormula(t, formula)
      BY <2>2, FormulaTypes DEF EditFormula, BaseInv, Typed
    <2>3. CASE CommitOther(t)
      <3> DEFINE change == Outside(work[t], other[t] # "none", t)
                 h == Append(head[t], change)
      <3>1. work[t] \in Formulas /\ head[t] \in Commits
        BY DEF BaseInv, Typed
      <3>2. change \in Changes
        BY <3>1 DEF Outside, Changes, Outsider
      <3> HIDE DEF change
      <3>3. h \in Commits /\ h # NoCommit
        BY <3>1, <3>2, AppendEnds DEF Commits, NoCommit
      <3>4. head' = [head EXCEPT ![t] = h]
        BY <2>3 DEF CommitOther, Outside, change
      <3> HIDE DEF h
      <3>5. head' \in [Taps -> Commits] /\ \A u \in Taps : head'[u] # NoCommit
        BY <3>3, <3>4 DEF BaseInv, Typed
      <3>6. /\ index' \in [Taps -> Formulas] /\ work' \in [Taps -> Formulas]
            /\ other' \in [Taps -> {"none", "unstaged", "staged"}]
        BY <2>3, <3>1 DEF CommitOther, BaseInv, Typed
      <3> QED
        BY <3>5, <3>6
    <2>4. CASE Tidy(t)
      <3>1. FormulaOf(remote) \in Formulas
        BY LastFormula DEF BaseInv, Typed
      <3> QED
        BY <2>4, <3>1 DEF Tidy, BaseInv, Typed
    <2> QED
      BY <2>1, <2>2, <2>3, <2>4
  <1>5. Typed'
    BY <1>1, <1>2, <1>3, <1>4 DEF BaseInv, Typed
  <1> QED
    BY <1>1, <1>5 DEF BaseInv

LEMMA OthersPushBase ==
  ASSUME BaseInv, NEW formula \in Foreign \cup {FormulaOf(remote)}, NEW others \in BOOLEAN,
         OthersPush(formula, others)
  PROVE  /\ BaseInv' /\ UNCHANGED <<tap, run>>
         /\ Outside(formula, others, "") \in Changes
         /\ remote' = Append(remote, Outside(formula, others, ""))
  <1> DEFINE change == Outside(formula, others, "")
  <1>1. /\ UNCHANGED <<tap, run, runs, edits>> /\ pushes' = pushes + 1
        /\ remote' = Append(remote, change)
        /\ writers' = [t \in Taps |-> IF writers[t] = {} THEN {} ELSE writers[t] \cup {Outsider}]
    BY DEF OthersPush, Outside
  <1>2. change \in Changes
    <2>1. formula \in Formulas
      BY LastFormula, FormulaTypes DEF BaseInv, Typed
    <2> QED
      BY <2>1 DEF Outside, Changes, Outsider
  <1> HIDE DEF change
  <1>3. remote' \in Commits /\ remote' # NoCommit /\ IsPrefix(remote, remote')
    BY <1>1, <1>2, AppendEnds DEF BaseInv, Typed, Commits, NoCommit
  <1>4. pushes' \in Nat
    BY <1>1 DEF BaseInv, Typed
  <1>5. writers' \in [Taps -> SUBSET (Versions \cup {Outsider})]
    BY <1>1 DEF BaseInv, Typed
  <1>6. Typed'
    BY <1>1, <1>3, <1>4, <1>5 DEF BaseInv, Typed, tap
  <1>7. \A t \in Taps : Formed(run'[t], remote')
    <2>1. \A t \in Taps : run'[t] = run[t] /\ run[t] \in Runs /\ Formed(run[t], remote)
      BY <1>1 DEF BaseInv, Typed
    <2>2. remote \in Commits
      BY DEF BaseInv, Typed
    <2> QED
      BY <1>3, <2>1, <2>2, FormedGrows
  <1> QED
    BY <1>1, <1>2, <1>6, <1>7 DEF BaseInv, change

LEMMA NextBase == BaseInv /\ [Next]_vars => BaseInv'
  <1> SUFFICES ASSUME BaseInv, [Next]_vars PROVE BaseInv'
    OBVIOUS
  <1>1. ASSUME NEW t \in Taps, Promotion(t) PROVE BaseInv'
    BY <1>1, ReadingBase, FastForwardBase, CopyBase, CopyCutBase, AddBase, CommitBase, PushBase
       DEF Promotion
  <1>2. ASSUME NEW t \in Taps,
               \/ EditOther(t) \/ CommitOther(t) \/ Tidy(t)
               \/ \E formula \in Foreign : EditFormula(t, formula)
        PROVE BaseInv'
    BY <1>2, PeopleBase
  <1>3. ASSUME NEW formula \in Foreign \cup {FormulaOf(remote)}, NEW others \in BOOLEAN,
               OthersPush(formula, others)
        PROVE BaseInv'
    BY <1>3, OthersPushBase
  <1>4. CASE UNCHANGED vars
    BY <1>4 DEF vars, tap, BaseInv, Typed
  <1> QED
    BY <1>1, <1>2, <1>3, <1>4 DEF Next

LEMMA SpecBase == Spec => []BaseInv
  BY InitBase, NextBase, PTL DEF Spec

\* PUBLISHED and NO_CHANGE are true, of what main was moved to or found at,
\* whatever is pushed and edited meanwhile.
THEOREM VerdictsAreTrue == Spec => []VerdictIsTrue
  <1>1. BaseInv => VerdictIsTrue
    BY DEF BaseInv, Formed, VerdictIsTrue
  <1> QED
    BY <1>1, SpecBase, PTL

-----------------------------------------------------------------------------
(* What holds if nobody disturbs a promotion.                              *)

LEMMA LineageGrows ==
  ASSUME NEW rem \in Commits, rem # NoCommit, Lineage(rem), NEW x \in Changes,
         x.by # Outsider => x.formula.version = x.by /\ FormulaOf(rem).version < x.by
  PROVE  Lineage(Append(rem, x))
  <1> DEFINE L == Len(rem)
             a == Append(rem, x)
  <1>1. /\ L \in Nat \ {0} /\ Len(a) = L + 1 /\ a[L + 1] = x
        /\ \A i \in 1..L : a[i] = rem[i]
    BY AppendProperties, FrontAndLast DEF Commits, NoCommit
  <1> HIDE DEF a
  <1>2. FormulaOf(rem).version = rem[L].formula.version
    BY DEF FormulaOf, Last
  <1> HIDE DEF L
  <1>3. \A i \in 1..Len(a) : (i \in 1..L \/ i = L + 1)
    BY <1>1
  <1>4. \A i \in 1..L : rem[i].by # Outsider => rem[i].formula.version = rem[i].by
    BY DEF Lineage, L
  <1>5. \A i \in 1..Len(a) : a[i].by # Outsider => a[i].formula.version = a[i].by
    BY <1>1, <1>3, <1>4
  <1>6. ASSUME NEW i \in 2..Len(a), a[i].by # Outsider, a[i - 1].by # Outsider
        PROVE  a[i - 1].by < a[i].by
    <2>1. CASE i = L + 1
      <3>1. i - 1 = L /\ a[i] = x /\ a[i - 1] = rem[L] /\ L \in 1..L
        BY <1>1, <2>1
      <3>2. rem[L].formula.version = rem[L].by
        BY <1>4, <1>6, <3>1
      <3> QED
        BY <1>2, <1>6, <3>1, <3>2
    <2>2. CASE i \in 2..L
      <3>1. i \in 1..L /\ i - 1 \in 1..L
        BY <1>1, <2>2
      <3>2. a[i] = rem[i] /\ a[i - 1] = rem[i - 1]
        BY <1>1, <3>1
      <3> QED
        BY <1>6, <2>2, <3>2 DEF Lineage, L
    <2> QED
      BY <1>1, <2>1, <2>2
  <1> QED
    BY <1>5, <1>6 DEF Lineage, a

\* What a step in one checkout makes of the writers of another.
LEMMA TrackElsewhere ==
  ASSUME Typed, Typed', NEW t \in Taps, NEW who, Track(t, who), NEW u \in Taps \ {t},
         head'[u] = head[u], index'[u] = index[u], work'[u] = work[u], other'[u] = other[u]
  PROVE  \/ writers'[u] = writers[u] /\ (remote' = remote \/ writers[u] = {})
         \/ Outsider \in writers'[u] /\ remote' # remote
         \/ writers'[u] = {} /\ head[u] = remote' /\ State(Checkout(u)) = "clean"
  <1>1. writers'[u] = IF head'[u] = remote' /\ Status(u)' = "clean" THEN {}
                      ELSE IF remote' # remote /\ writers[u] # {} THEN writers[u] \cup {Outsider}
                      ELSE writers[u]
    BY DEF Track
  <1>2. Status(u)' = State(Checkout(u))
    BY DEF Status, State, Checkout
  <1> QED
    BY <1>1, <1>2

\* A checkout, and the run in it, that a step leaves alone.
LEMMA OtherTap ==
  ASSUME BaseInv, BaseInv', NEW u \in Taps, TapInv(u), run'[u] = run[u], IsPrefix(remote, remote'),
         head'[u] = head[u], index'[u] = index[u], work'[u] = work[u], other'[u] = other[u],
         remote' = remote \/ Last(remote').at # u,
         \/ writers'[u] = writers[u] /\ (remote' = remote \/ writers[u] = {})
         \/ Outsider \in writers'[u] /\ remote' # remote
         \/ writers'[u] = {} /\ head[u] = remote' /\ State(Checkout(u)) = "clean"
  PROVE  TapInv(u)'
  <1> DEFINE c == Checkout(u)
             c2 == Checkout(u)'
             r == run[u]
  <1>1. /\ r \in Runs /\ c \in Checkouts /\ c2 \in Checkouts /\ remote \in Commits /\ remote' \in Commits
        /\ remote' # NoCommit /\ Formed(r, remote)
    <2>1. c2 \in Checkouts
      BY DEF BaseInv, Typed, Checkout, Checkouts
    <2> QED
      BY <2>1, CheckoutType DEF BaseInv, Typed
  <1>2. /\ c2.head = c.head /\ c2.index = c.index /\ c2.work = c.work /\ c2.other = c.other
        /\ c.head = head[u] /\ c.writers = writers[u] /\ c2.writers = writers'[u]
    BY DEF Checkout
  <1>3. /\ Steady(r, c) /\ Sealed(u, r, remote) /\ Own(u, c, remote) /\ Resumable(r, c)
    BY DEF TapInv
  <1> HIDE DEF c, c2, r
  <1>4. Own(u, c2, remote') /\ Resumable(r, c2)
    <2>1. \/ c2.writers = c.writers /\ (remote' = remote \/ c.writers = {})
          \/ Outsider \in c2.writers /\ remote' # remote
          \/ c2.writers = {} /\ c.head = remote' /\ State(c) = "clean"
      BY <1>2 DEF c
    <2> QED
      BY <1>1, <1>2, <1>3, <2>1, OwnGrows
  <1>5. Steady(r, c2)
    BY <1>2, <1>3 DEF Steady, State
  <1>6. Sealed(u, r, remote')
    BY <1>1, <1>3, SealedGrows
  <1> QED
    BY <1>4, <1>5, <1>6 DEF TapInv, c2, r

\* After a step that writes the checkout of t alone, the others are as before.
LEMMA OtherTaps ==
  ASSUME IInv, BaseInv', NEW t \in Taps, NEW who, Track(t, who), IsPrefix(remote, remote'),
         \A u \in Taps \ {t} :
           /\ run'[u] = run[u] /\ head'[u] = head[u] /\ index'[u] = index[u]
           /\ work'[u] = work[u] /\ other'[u] = other[u]
           /\ remote' = remote \/ Last(remote').at # u
  PROVE  \A u \in Taps \ {t} : TapInv(u)'
  <1> SUFFICES ASSUME NEW u \in Taps \ {t} PROVE TapInv(u)'
    OBVIOUS
  <1>1. \/ writers'[u] = writers[u] /\ (remote' = remote \/ writers[u] = {})
        \/ Outsider \in writers'[u] /\ remote' # remote
        \/ writers'[u] = {} /\ head[u] = remote' /\ State(Checkout(u)) = "clean"
    BY TrackElsewhere DEF IInv, BaseInv
  <1> QED
    BY <1>1, OtherTap DEF IInv

\* The checkout that was written.
LEMMA ThisTap ==
  ASSUME BaseInv, BaseInv', NEW t \in Taps, NEW who \in Versions \cup {Outsider}, Track(t, who),
         Local(t, Checkout(t)', remote'),
         who # Outsider /\ writers[t] \subseteq {who} /\ IsPrefix(remote', head'[t])
           /\ ~(head'[t] = remote' /\ State(Checkout(t)') = "clean")
             => Written(who, Checkout(t)', remote')
  PROVE  Own(t, Checkout(t)', remote')
  <1> DEFINE c == Checkout(t)
             c2 == Checkout(t)'
  <1>1. c \in Checkouts /\ c2 \in Checkouts /\ remote' \in Commits
    <2>1. c2 \in Checkouts
      BY DEF BaseInv, Typed, Checkout, Checkouts
    <2> QED
      BY <2>1, CheckoutType DEF BaseInv, Typed
  <1>2. c.writers = writers[t] /\ c2.writers = writers'[t] /\ c2.head = head'[t]
    BY DEF Checkout
  <1>3. Status(t)' = State(c2)
    BY DEF Status, State, Checkout
  <1>4. c2.writers = IF c2.head = remote' /\ State(c2) = "clean" THEN {}
                     ELSE c.writers \cup {who}
                            \cup (IF IsPrefix(remote', c2.head) THEN {} ELSE {Outsider})
    BY <1>2, <1>3 DEF Track
  <1>5. who # Outsider /\ c.writers \subseteq {who} /\ IsPrefix(remote', c2.head)
           /\ ~(c2.head = remote' /\ State(c2) = "clean") => Written(who, c2, remote')
    BY <1>2
  <1> HIDE DEF c, c2
  <1>6. Local(t, c2, remote')
    BY DEF c2
  <1>7. Own(t, c2, remote')
    BY <1>1, <1>4, <1>5, <1>6, OwnTracks
  <1> QED
    BY <1>7 DEF c2

LEMMA InitIInv == Init => IInv
  <1> SUFFICES ASSUME Init PROVE IInv
    OBVIOUS
  <1>1. BaseInv
    BY InitBase
  <1>2. Len(FirstCommit) = 1 /\ FirstCommit[1].by = Outsider /\ FormulaOf(FirstCommit) = Release(First)
    BY DEF FirstCommit, FormulaOf, Last
  <1>3. Lineage(remote)
    <2>1. remote = FirstCommit /\ \A i \in 1..1 : i = 1
      BY DEF Init
    <2>2. \A i \in 2..1 : FALSE
      OBVIOUS
    <2> QED
      BY <1>2, <2>1, <2>2 DEF Lineage
  <1>4. ASSUME NEW t \in Taps PROVE TapInv(t)
    <2> DEFINE c == Checkout(t)
    <2>1. c = [head |-> FirstCommit, index |-> Release(First), work |-> Release(First),
               other |-> "none", writers |-> {}]
      BY DEF Init, Checkout
    <2>2. run[t] = Idle /\ remote = FirstCommit /\ FirstCommit \in Commits
      BY <1>1 DEF Init, BaseInv, Typed
    <2> HIDE DEF c
    <2>3. State(c) = "clean" /\ c.head = remote /\ c.writers = {}
      BY <1>2, <2>1, <2>2 DEF State
    <2>4. Local(t, c, remote) /\ IsPrefix(c.head, remote)
      <3>1. Len(remote) \in Nat
        BY <1>2, <2>2
      <3> QED
        BY <2>2, <2>3, <3>1, PrefixOrder DEF Local, Commits
    <2>5. Own(t, c, remote)
      BY <2>3, <2>4 DEF Own
    <2>6. Steady(Idle, c) /\ Sealed(t, Idle, remote) /\ Resumable(Idle, c)
      BY DEF Idle, Steady, Sealed, Resumable, Looked, Writing, Sealing
    <2> QED
      BY <2>2, <2>5, <2>6 DEF TapInv, c
  <1> QED
    BY <1>1, <1>3, <1>4 DEF IInv

-----------------------------------------------------------------------------
(* The steps of a run that write no checkout.                              *)

\* The dry run finds main where it was read: a run that has its own work, and
\* nobody else's, knows it for that.
LEMMA DryRunFindsOwn ==
  ASSUME IInv, NEW t \in Taps, run[t].pc = "dryRun", remote = run[t].remoteHead,
         writers[t] \subseteq {run[t].version}
  PROVE  LET r == run[t]
         IN \/ r.localHead = r.remoteHead /\ r.status = "clean"
            \/ r.localHead = r.remoteHead /\ r.status = "formula" /\ work[t] = Release(r.version)
            \/ r.status = "clean" /\ IsStrictPrefix(r.localHead, r.remoteHead)
            \/ /\ r.status = "clean" /\ Front(r.localHead) = r.remoteHead
               /\ IsPromotion(Last(r.localHead), r.version)
  <1> DEFINE r == run[t]
             c == Checkout(t)
  <1>1. r.localHead = c.head /\ r.status = State(c) /\ Own(t, c, remote) /\ r.version \in Versions
    BY DEF IInv, BaseInv, TapInv, Steady, Looked, Formed
  <1>2. c.writers = writers[t] /\ c.work = work[t]
    BY DEF Checkout
  <1> HIDE DEF c
  <1>3. CASE writers[t] = {}
    <2>1. IsPrefix(c.head, remote) /\ State(c) = "clean"
      BY <1>1, <1>2, <1>3 DEF Own
    <2> QED
      BY <1>1, <2>1 DEF IsStrictPrefix
  <1>4. CASE writers[t] = {r.version}
    <2>1. Written(r.version, c, remote)
      BY <1>1, <1>2, <1>4 DEF Own
    <2>2. c.other = "none"
      BY <2>1 DEF Written
    <2>3. State(c) \in {"clean", "formula"}
      BY <2>2 DEF State
    <2> QED
      BY <1>1, <1>2, <2>1, <2>3 DEF Written
  <1> QED
    BY <1>3, <1>4

\* What such a step leaves in the run, if it goes on.
LEMMA ReadingRun ==
  ASSUME IInv, NEW t \in Taps, BaseInv', UNCHANGED <<remote, tap, writers>>,
         \/ Stop(t) \/ ReadRemote(t) \/ Fetch(t) \/ Inspect(t) \/ DryRun(t) \/ Prepare(t)
         \/ Race(t) \/ ReadPublished(t) \/ VerifyPublished(t) \/ \E v \in Versions : Start(t, v)
  PROVE  TapInv(t)'
  <1> DEFINE r == run[t]
             c == Checkout(t)
             n == run'[t]
  <1>1. /\ r \in Runs /\ Formed(r, remote) /\ remote \in Commits /\ c \in Checkouts
        /\ Status(t) = State(c) /\ c.head = head[t] /\ c.work = work[t] /\ c.writers = writers[t]
        /\ c.other = other[t] /\ head[t] # NoCommit
    BY CheckoutType DEF IInv, BaseInv, Typed, Checkout
  <1>2. Steady(r, c) /\ Sealed(t, r, remote) /\ Own(t, c, remote) /\ Resumable(r, c)
    BY DEF IInv, TapInv
  <1>3. Checkout(t)' = c
    BY DEF Checkout, tap
  <1>4. \A m : Goes(t, m) => n = m
    BY DEF Goes, IInv, BaseInv, Typed
  <1>5. SUFFICES Steady(n, c) /\ Sealed(t, n, remote) /\ Resumable(n, c)
    BY <1>2, <1>3 DEF TapInv
  <1> HIDE DEF c, n
  <1>6. ASSUME n.pc \notin Looked \cup Writing \cup Sealing
        PROVE  Steady(n, c) /\ Sealed(t, n, remote) /\ Resumable(n, c)
    BY <1>6 DEF Steady, Sealed, Resumable, Looked, Writing, Sealing
  <1>7. ASSUME NEW verdict, Finish(t, verdict) PROVE n.pc = "idle"
    <2>1. n = [r EXCEPT !.pc = "idle", !.localHead = NoCommit, !.status = "clean", !.verdict = verdict]
      BY <1>4, <1>7 DEF Finish
    <2> QED
      BY <1>1, <2>1 DEF Runs
  <1>8. ASSUME NEW to, Goes(t, [r EXCEPT !.pc = to])
        PROVE  /\ n.pc = to /\ n.version = r.version /\ n.remoteHead = r.remoteHead
               /\ n.localHead = r.localHead /\ n.status = r.status /\ n.prepared = r.prepared
    <2>1. n = [r EXCEPT !.pc = to]
      BY <1>4, <1>8
    <2> QED
      BY <1>1, <2>1 DEF Runs
  <1>9. CASE Stop(t) \/ \E v \in Versions : Start(t, v)
    <2>2. ASSUME Stop(t) PROVE n.pc = "idle"
      BY <1>4, <2>2 DEF Stop, Idle
    <2>3. ASSUME NEW v \in Versions, Start(t, v) PROVE n.pc = "remote"
      <3>1. n = [Idle EXCEPT !.pc = "remote", !.version = v]
        BY <2>3 DEF Start, IInv, BaseInv, Typed, n
      <3> QED
        BY <3>1 DEF Idle
    <2>1. n.pc \in {"idle", "remote"}
      BY <1>9, <2>2, <2>3
    <2> QED
      BY <1>6, <2>1 DEF Looked, Writing, Sealing
  <1>10. CASE ReadRemote(t)
    <2>1. n = [r EXCEPT !.pc = "fetch", !.remoteHead = remote]
      BY <1>4, <1>10 DEF ReadRemote
    <2>2. n.pc = "fetch"
      BY <1>1, <2>1 DEF Runs
    <2> QED
      BY <1>6, <2>2 DEF Looked, Writing, Sealing
  <1>11. CASE Fetch(t)
    BY <1>6, <1>8, <1>11 DEF Fetch, Looked, Writing, Sealing
  <1>12. CASE VerifyPublished(t)
    BY <1>6, <1>7, <1>12 DEF VerifyPublished, Looked, Writing, Sealing
  <1>13. CASE Inspect(t)
    <2>1. CASE n.pc = "idle"
      BY <1>6, <2>1 DEF Looked, Writing, Sealing
    <2>2. CASE Goes(t, [r EXCEPT !.pc = "dryRun", !.localHead = head[t], !.status = Status(t)])
      <3>1. n = [r EXCEPT !.pc = "dryRun", !.localHead = head[t], !.status = Status(t)]
        BY <1>4, <2>2
      <3>2. n.pc = "dryRun" /\ n.localHead = c.head /\ n.status = State(c)
        BY <1>1, <3>1 DEF Runs
      <3> QED
        BY <3>2 DEF Steady, Sealed, Resumable, Looked, Writing, Sealing
    <2> QED
      BY <1>7, <1>13, <2>1, <2>2 DEF Inspect
  <1>14. CASE DryRun(t)
    <2>1. /\ r.pc = "dryRun" /\ remote = r.remoteHead /\ n.pc = "prepare" /\ n.version = r.version
          /\ n.remoteHead = r.remoteHead /\ n.localHead = r.localHead /\ n.status = r.status
      BY <1>8, <1>14 DEF DryRun
    <2>2. Steady(n, c) /\ Sealed(t, n, remote)
      BY <1>2, <2>1 DEF Steady, Sealed, Looked, Writing, Sealing
    <2>3. Resumable(n, c)
      BY <1>1, <2>1, DryRunFindsOwn DEF Resumable
    <2> QED
      BY <2>2, <2>3
  <1>15. CASE Prepare(t)
    <2>1. r.pc = "prepare" /\ r.localHead = c.head /\ r.status = State(c)
      BY <1>2, <1>15 DEF Prepare, Steady, Looked
    <2>2. State(c) \in {"clean", "formula"} => c.other = "none"
      BY DEF State
    <2>3. CASE Fresh(t) /\ Goes(t, [r EXCEPT !.pc = "copy"])
      <3>1. n.pc = "copy" /\ n.remoteHead = r.remoteHead
        BY <1>8, <2>3
      <3>2. c.head = r.remoteHead /\ c.other = "none"
        BY <2>1, <2>2, <2>3 DEF Fresh, AtMain
      <3> QED
        BY <3>1, <3>2 DEF Steady, Sealed, Resumable, Looked, Writing, Sealing
    <2>4. CASE Copied(t) /\ Goes(t, [r EXCEPT !.pc = "add"])
      <3>1. n.pc = "add" /\ n.remoteHead = r.remoteHead /\ n.version = r.version
        BY <1>8, <2>4
      <3>2. c.head = r.remoteHead /\ c.other = "none" /\ c.work = Release(r.version)
        BY <1>1, <2>1, <2>2, <2>4 DEF Copied, AtMain
      <3> QED
        BY <3>1, <3>2 DEF Steady, Sealed, Resumable, Looked, Writing, Sealing
    <2>5. CASE Committed(t) /\ Goes(t, [r EXCEPT !.pc = "race", !.prepared = r.localHead])
      <3>1. n = [r EXCEPT !.pc = "race", !.prepared = r.localHead]
        BY <1>4, <2>5
      <3>2. /\ n.pc = "race" /\ n.prepared = r.localHead /\ n.remoteHead = r.remoteHead
            /\ n.version = r.version
        BY <1>1, <3>1 DEF Runs
      <3>3. /\ Front(r.localHead) = r.remoteHead /\ IsPromotion(Last(r.localHead), r.version)
            /\ r.localHead # NoCommit /\ r.localHead \in Commits
        BY <1>1, <2>1, <2>5 DEF Committed, IsPromotion, Runs
      <3>4. Last(r.localHead).at = t \/ IsPrefix(r.localHead, remote)
        <4> SUFFICES ASSUME Last(c.head).at # t PROVE IsPrefix(c.head, remote)
          BY <2>1
        <4>1. Len(c.head) \in Nat \ {0} /\ c.head \in Commits
          BY <2>1, <3>3, FrontAndLast DEF Commits, NoCommit
        <4>2. Len(c.head) \in 1..Len(c.head) /\ c.head[Len(c.head)].at # t
          BY <4>1 DEF Last
        <4>3. Len(c.head) <= Len(remote) /\ \A i \in 1..Len(c.head) : c.head[i] = remote[i]
          BY <1>2, <4>2 DEF Own, Local
        <4> QED
          BY <1>1, <4>1, <4>3, PrefixIsPointwise DEF Commits
      <3> QED
        BY <3>2, <3>3, <3>4 DEF Steady, Sealed, Resumable, Looked, Writing, Sealing
    <2>6. CASE Finish(t, "LOCAL_STATE_CONFLICT")
      BY <1>6, <1>7, <2>6 DEF Looked, Writing, Sealing
    <2> QED
      BY <1>15, <2>3, <2>4, <2>5, <2>6 DEF Prepare
  <1>16. CASE Race(t) \/ ReadPublished(t)
    <2>1. /\ r.pc \in Sealing /\ n.pc \in Sealing /\ n.prepared = r.prepared
          /\ n.remoteHead = r.remoteHead /\ n.version = r.version
      BY <1>8, <1>16 DEF Race, ReadPublished, Sealing
    <2>2. n.pc \notin Looked \cup Writing
      BY <2>1 DEF Looked, Writing, Sealing
    <2> QED
      BY <1>2, <2>1, <2>2 DEF Steady, Sealed, Resumable, Looked, Writing
  <1> QED
    BY <1>9, <1>10, <1>11, <1>12, <1>13, <1>14, <1>15, <1>16

LEMMA ReadingStep ==
  ASSUME IInv, NEW t \in Taps,
         \/ Stop(t) \/ ReadRemote(t) \/ Fetch(t) \/ Inspect(t) \/ DryRun(t) \/ Prepare(t)
         \/ Race(t) \/ ReadPublished(t) \/ VerifyPublished(t) \/ \E v \in Versions : Start(t, v)
  PROVE  IInv'
  <1>1. /\ BaseInv' /\ UNCHANGED <<remote, tap, writers>>
        /\ \A u \in Taps \ {t} : run'[u] = run[u]
    BY ReadingBase DEF IInv
  <1>2. TapInv(t)'
    BY <1>1, ReadingRun
  <1>3. ASSUME NEW u \in Taps \ {t} PROVE TapInv(u)'
    <2>1. Checkout(u)' = Checkout(u)
      BY <1>1 DEF Checkout, tap
    <2> QED
      BY <1>1, <2>1 DEF IInv, TapInv
  <1> QED
    BY <1>1, <1>2, <1>3 DEF IInv

-----------------------------------------------------------------------------
(* The steps of a run that write its checkout, or main.                    *)

\* A promotion, and what it stands on.
LEMMA ThisRun ==
  ASSUME IInv, NEW t \in Taps, run[t].pc # "idle"
  PROVE  /\ run[t] \in Runs /\ remote \in Commits /\ head[t] \in Commits /\ head[t] # NoCommit
         /\ run[t].version \in Versions /\ run[t].version # Outsider
         /\ run[t].remoteHead \in Commits /\ IsPrefix(run[t].remoteHead, remote)
         /\ Steady(run[t], Checkout(t)) /\ Sealed(t, run[t], remote)
         /\ Own(t, Checkout(t), remote) /\ Local(t, Checkout(t), remote)
         /\ Checkout(t) \in Checkouts
  <1>1. run[t].version \in Versions /\ IsPrefix(run[t].remoteHead, remote)
    BY DEF IInv, BaseInv, Formed
  <1>2. run[t].version # Outsider
    BY <1>1, PromotionAssumption DEF Outsider
  <1>3. run[t] \in Runs /\ run[t].remoteHead \in Commits
    BY DEF IInv, BaseInv, Typed, Runs
  <1> QED
    BY <1>1, <1>2, <1>3, CheckoutType DEF IInv, BaseInv, Typed, TapInv, Own

\* A checkout that is behind the main that was read is brought there.
LEMMA FastForwardStep ==
  ASSUME IInv, NEW t \in Taps, FastForward(t)
  PROVE  IInv'
  <1> DEFINE r == run[t]
             c2 == Checkout(t)'
  <1>1. /\ BaseInv' /\ remote' = remote /\ Track(t, r.version)
        /\ run'[t] = [r EXCEPT !.pc = "copy"] /\ \A u \in Taps \ {t} : run'[u] = run[u]
    BY FastForwardBase DEF IInv
  <1>2. /\ r.pc = "prepare" /\ r.status = "clean" /\ head' = [head EXCEPT ![t] = r.remoteHead]
        /\ index' = [index EXCEPT ![t] = FormulaOf(r.remoteHead)]
        /\ work' = [work EXCEPT ![t] = FormulaOf(r.remoteHead)] /\ other' = other
    BY DEF FastForward, Behind
  <1>3. /\ r \in Runs /\ remote \in Commits /\ r.version \in Versions /\ r.remoteHead \in Commits
        /\ IsPrefix(r.remoteHead, remote) /\ Steady(r, Checkout(t))
    BY <1>2, ThisRun
  <1>4. other[t] = "none"
    BY <1>2, <1>3 DEF Steady, Looked, State, Checkout
  <1>5. /\ c2.head = r.remoteHead /\ c2.index = FormulaOf(r.remoteHead)
        /\ c2.work = FormulaOf(r.remoteHead) /\ c2.other = "none" /\ head'[t] = r.remoteHead
        /\ \A u \in Taps \ {t} : /\ head'[u] = head[u] /\ index'[u] = index[u] /\ work'[u] = work[u]
                                /\ other'[u] = other[u]
    BY <1>2, <1>4 DEF Checkout, IInv, BaseInv, Typed
  <1>6. /\ run'[t].pc = "copy" /\ run'[t].remoteHead = r.remoteHead
    BY <1>1, <1>3 DEF Runs
  <1> HIDE DEF c2
  <1>7. State(c2) = "clean"
    BY <1>5 DEF State
  <1>8. Local(t, c2, remote)
    <2>1. Len(c2.head) <= Len(remote) /\ \A i \in 1..Len(c2.head) : c2.head[i] = remote[i]
      BY <1>3, <1>5, PrefixIsPointwise DEF Commits
    <2>2. Len(c2.head) \in Nat /\ Len(remote) \in Nat
      BY <1>3, <1>5, LenProperties DEF Commits
    <2> QED
      BY <2>1, <2>2 DEF Local
  <1>9. IsPrefix(remote, r.remoteHead) => r.remoteHead = remote
    BY <1>3, PrefixOrder DEF Commits
  <1>10. Own(t, c2, remote')
    BY <1>1, <1>3, <1>5, <1>7, <1>8, <1>9, ThisTap DEF c2, IInv
  <1>11. Steady(run'[t], c2) /\ Sealed(t, run'[t], remote') /\ Resumable(run'[t], c2)
    BY <1>5, <1>6 DEF Steady, Sealed, Resumable, Looked, Writing, Sealing
  <1>12. IsPrefix(remote, remote')
    BY <1>1, <1>3, PrefixOrder DEF Commits
  <1>13. \A u \in Taps \ {t} : TapInv(u)'
    BY <1>1, <1>5, <1>12, OtherTaps
  <1> QED
    BY <1>1, <1>10, <1>11, <1>13 DEF IInv, TapInv, c2

\* A step that leaves HEAD alone, in a checkout that is at the main that was read:
\* the formula in the files is the released one.
LEMMA WritingStep ==
  ASSUME IInv, NEW t \in Taps, NEW to \in {"add", "commit"}, run[t].pc \in {"copy", "add"},
         BaseInv', remote' = remote, Track(t, run[t].version),
         run'[t] = [run[t] EXCEPT !.pc = to], \A u \in Taps \ {t} : run'[u] = run[u],
         UNCHANGED <<head, other>>, work'[t] = Release(run[t].version),
         to = "commit" => index'[t] = Release(run[t].version),
         \A u \in Taps \ {t} : index'[u] = index[u] /\ work'[u] = work[u]
  PROVE  IInv'
  <1> DEFINE r == run[t]
             c == Checkout(t)
             c2 == Checkout(t)'
  <1>1. /\ r \in Runs /\ remote \in Commits /\ r.version \in Versions /\ r.remoteHead \in Commits
        /\ IsPrefix(r.remoteHead, remote) /\ Steady(r, c) /\ Local(t, c, remote) /\ c \in Checkouts
    BY ThisRun
  <1>2. c.head = head[t] /\ c.other = other[t] /\ c.head = r.remoteHead /\ c.other = "none"
    BY <1>1 DEF Steady, Writing, Checkout
  <1>3. /\ c2.head = c.head /\ c2.other = "none" /\ c2.work = Release(r.version) /\ head'[t] = c.head
        /\ to = "commit" => c2.index = Release(r.version)
    BY <1>2 DEF Checkout
  <1>4. run'[t].pc = to /\ run'[t].remoteHead = r.remoteHead /\ run'[t].version = r.version
    BY <1>1 DEF Runs
  <1>5. c2 \in Checkouts
    BY DEF BaseInv, Typed, Checkout, Checkouts
  <1> HIDE DEF c, c2
  <1>6. IsPrefix(remote, remote)
    BY <1>1, PrefixOrder DEF Commits
  <1>7. Local(t, c2, remote)
    BY <1>1, <1>3, <1>5, <1>6, LocalGrows
  <1>8. IsPrefix(remote, c2.head) => Written(r.version, c2, remote)
    <2>1. IsPrefix(remote, c2.head) => c2.head = remote
      BY <1>1, <1>2, <1>3, PrefixOrder DEF Commits
    <2> QED
      BY <1>3, <2>1 DEF Written
  <1>9. Own(t, c2, remote')
    BY <1>1, <1>3, <1>7, <1>8, ThisTap DEF c2, IInv
  <1>10. Steady(run'[t], c2) /\ Sealed(t, run'[t], remote') /\ Resumable(run'[t], c2)
    BY <1>2, <1>3, <1>4 DEF Steady, Sealed, Resumable, Looked, Writing, Sealing
  <1>11. \A u \in Taps \ {t} : TapInv(u)'
    BY <1>6, OtherTaps
  <1> QED
    BY <1>9, <1>10, <1>11 DEF IInv, TapInv, c2

LEMMA CopyStep ==
  ASSUME IInv, NEW t \in Taps, Copy(t)
  PROVE  IInv'
  <1>1. /\ BaseInv' /\ remote' = remote /\ Track(t, run[t].version)
        /\ run'[t] = [run[t] EXCEPT !.pc = "add"] /\ \A u \in Taps \ {t} : run'[u] = run[u]
    BY CopyBase DEF IInv
  <1>2. /\ run[t].pc = "copy" /\ UNCHANGED <<head, other, index>> /\ work'[t] = Release(run[t].version)
        /\ \A u \in Taps \ {t} : index'[u] = index[u] /\ work'[u] = work[u]
    BY DEF Copy, IInv, BaseInv, Typed
  <1> QED
    BY <1>1, <1>2, WritingStep

LEMMA AddStep ==
  ASSUME IInv, NEW t \in Taps, Add(t)
  PROVE  IInv'
  <1>1. /\ BaseInv' /\ remote' = remote /\ Track(t, run[t].version)
        /\ run'[t] = [run[t] EXCEPT !.pc = "commit"] /\ \A u \in Taps \ {t} : run'[u] = run[u]
    BY AddBase DEF IInv
  <1>2. /\ run[t].pc = "add" /\ UNCHANGED <<head, other, work>> /\ index'[t] = work[t]
        /\ \A u \in Taps \ {t} : index'[u] = index[u] /\ work'[u] = work[u]
    BY DEF Add, IInv, BaseInv, Typed
  <1>3. work[t] = Release(run[t].version)
    BY <1>2, ThisRun DEF Steady, Checkout
  <1> QED
    BY <1>1, <1>2, <1>3, WritingStep

LEMMA LocalAppends ==
  ASSUME NEW t, NEW c \in Checkouts, NEW c2 \in Checkouts, NEW rem \in Commits, Local(t, c, rem),
         NEW x \in Changes, x.at = t, c2.head = Append(c.head, x)
  PROVE  Local(t, c2, rem)
  <1> DEFINE L == Len(c.head)
  <1>1. c.head \in Seq(Changes)
    BY DEF Checkouts, Commits
  <1>2. /\ L \in Nat /\ Len(c2.head) = L + 1 /\ c2.head[L + 1] = x
        /\ \A i \in 1..L : c2.head[i] = c.head[i]
    BY <1>1, AppendProperties, LenProperties
  <1>3. \A n \in 1..L :
          c.head[n].at # t => n <= Len(rem) /\ \A i \in 1..n : c.head[i] = rem[i]
    BY DEF Local
  <1> HIDE DEF L
  <1>4. ASSUME NEW n \in 1..Len(c2.head), c2.head[n].at # t
        PROVE  n <= Len(rem) /\ \A i \in 1..n : c2.head[i] = rem[i]
    <2>1. n \in 1..L
      BY <1>2, <1>4
    <2>2. c.head[n].at # t /\ \A i \in 1..n : i \in 1..L
      BY <1>2, <1>4, <2>1
    <2>3. n <= Len(rem) /\ \A i \in 1..n : c.head[i] = rem[i]
      BY <1>3, <2>1, <2>2
    <2> QED
      BY <1>2, <2>2, <2>3
  <1> QED
    BY <1>4 DEF Local

LEMMA CommitStep ==
  ASSUME IInv, NEW t \in Taps, Commit(t)
  PROVE  IInv'
  <1> DEFINE r == run[t]
             c == Checkout(t)
             c2 == Checkout(t)'
             h == Append(head[t], Made(t))
             v == run[t].version
  <1>1. /\ BaseInv' /\ remote' = remote /\ Track(t, v)
        /\ Made(t) \in Changes /\ head'[t] = h
        /\ run'[t] = [r EXCEPT !.pc = "race", !.prepared = head'[t]]
        /\ \A u \in Taps \ {t} : run'[u] = run[u]
    BY CommitBase DEF IInv
  <1>2. r.pc = "commit"
    BY DEF Commit
  <1>3. /\ r \in Runs /\ remote \in Commits /\ v \in Versions /\ v # Outsider
        /\ r.remoteHead \in Commits /\ IsPrefix(r.remoteHead, remote) /\ Steady(r, c)
        /\ Local(t, c, remote) /\ c \in Checkouts /\ head[t] \in Commits
    BY <1>2, ThisRun
  <1>4. /\ head[t] = r.remoteHead /\ other[t] = "none" /\ work[t] = Release(v)
        /\ index[t] = Release(v) /\ c.head = head[t]
    BY <1>2, <1>3 DEF Steady, Writing, Checkout
  <1>5. /\ c2.head = h /\ c2.index = Release(v) /\ c2.work = Release(v) /\ c2.other = "none"
    <2>1. other'[t] = "none" /\ index' = index /\ work' = work
      BY <1>4 DEF Commit, IInv, BaseInv, Typed
    <2> QED
      BY <1>1, <1>4, <2>1 DEF Checkout
  <1>6. /\ \A u \in Taps \ {t} : /\ head'[u] = head[u] /\ index'[u] = index[u] /\ work'[u] = work[u]
                                /\ other'[u] = other[u]
    BY DEF Commit, IInv, BaseInv, Typed
  <1>7. c2 \in Checkouts
    BY <1>1 DEF BaseInv, Typed, Checkout, Checkouts
  <1>8. /\ IsPromotion(Made(t), v) /\ Made(t).at = t /\ Made(t).formula = Release(v)
    BY <1>4 DEF Made, IsPromotion
  <1>9. h \in Commits /\ h # NoCommit /\ Front(h) = head[t] /\ Last(h) = Made(t)
    BY <1>1, <1>3, AppendEnds DEF Commits, NoCommit
  <1>10. Local(t, c2, remote)
    BY <1>1, <1>3, <1>4, <1>5, <1>7, <1>8, LocalAppends
  <1> HIDE DEF c, c2, h
  <1>11. State(c2) = "clean"
    BY <1>5, <1>8, <1>9 DEF State, FormulaOf
  <1>12. IsPrefix(remote, c2.head) /\ c2.head # remote => Written(v, c2, remote)
    <2> SUFFICES ASSUME IsPrefix(remote, h), h # remote PROVE Written(v, c2, remote)
      BY <1>5
    <2>1. Front(h) = remote
      BY <1>3, <1>4, <1>9, NothingBetween DEF Commits, NoCommit
    <2> QED
      BY <1>5, <1>8, <1>9, <1>11, <2>1 DEF Written
  <1>13. Own(t, c2, remote')
    <2>1. c2.head = head'[t]
      BY <1>1, <1>5
    <2>2. Local(t, Checkout(t)', remote')
      BY <1>1, <1>10 DEF c2
    <2>3. v # Outsider /\ writers[t] \subseteq {v} /\ IsPrefix(remote', head'[t])
             /\ ~(head'[t] = remote' /\ State(Checkout(t)') = "clean")
               => Written(v, Checkout(t)', remote')
      BY <1>1, <1>11, <1>12, <2>1 DEF c2
    <2> QED
      BY <1>1, <1>3, <2>2, <2>3, ThisTap DEF c2, IInv
  <1>14. /\ run'[t].pc = "race" /\ run'[t].prepared = h /\ run'[t].remoteHead = r.remoteHead
         /\ run'[t].version = v
    BY <1>1, <1>3 DEF Runs
  <1>15. Steady(run'[t], c2) /\ Sealed(t, run'[t], remote') /\ Resumable(run'[t], c2)
    <2>1. Sealed(t, run'[t], remote')
      BY <1>4, <1>8, <1>9, <1>14 DEF Sealed
    <2> QED
      BY <1>14, <2>1 DEF Steady, Resumable, Looked, Writing
  <1>16. IsPrefix(remote, remote')
    BY <1>1, <1>3, PrefixOrder DEF Commits
  <1>17. \A u \in Taps \ {t} : TapInv(u)'
    BY <1>1, <1>6, <1>16, OtherTaps
  <1> QED
    BY <1>1, <1>13, <1>15, <1>17 DEF IInv, TapInv, c2

\* A copy that is cut short leaves work of nobody.
LEMMA CopyCutStep ==
  ASSUME IInv, NEW t \in Taps, CopyCut(t)
  PROVE  IInv'
  <1> DEFINE c == Checkout(t)
             c2 == Checkout(t)'
  <1>1. /\ BaseInv' /\ remote' = remote /\ Track(t, Outsider)
        /\ run'[t] = Idle /\ \A u \in Taps \ {t} : run'[u] = run[u]
    BY CopyCutBase DEF IInv
  <1>2. /\ UNCHANGED <<head, index, other>> /\ \A u \in Taps \ {t} : work'[u] = work[u]
    BY DEF CopyCut, IInv, BaseInv, Typed
  <1>3. remote \in Commits /\ Local(t, c, remote) /\ c \in Checkouts
    BY CheckoutType DEF IInv, BaseInv, Typed, TapInv, Own
  <1>4. c2 \in Checkouts /\ c2.head = c.head
    BY <1>1, <1>2 DEF BaseInv, Typed, Checkout, Checkouts
  <1>5. IsPrefix(remote, remote)
    BY <1>3, PrefixOrder DEF Commits
  <1> HIDE DEF c, c2
  <1>6. Local(t, c2, remote')
    BY <1>1, <1>3, <1>4, <1>5, LocalGrows
  <1>7. Own(t, c2, remote')
    BY <1>1, <1>6, ThisTap DEF c2, IInv
  <1>8. Steady(Idle, c2) /\ Sealed(t, Idle, remote') /\ Resumable(Idle, c2)
    BY DEF Idle, Steady, Sealed, Resumable, Looked, Writing, Sealing
  <1>9. \A u \in Taps \ {t} : TapInv(u)'
    BY <1>1, <1>2, <1>5, OtherTaps
  <1> QED
    BY <1>1, <1>7, <1>8, <1>9 DEF IInv, TapInv, c2

\* What a push makes of main: nothing new, or one commit of the formula, of a
\* version above the one of main.
LEMMA PushedCommit ==
  ASSUME IInv, NEW t \in Taps, Push(t), remote' # remote
  PROVE  /\ Front(remote') = remote /\ IsPromotion(Last(remote'), run[t].version)
         /\ Last(remote').at = t /\ Last(remote') \in Changes
         /\ remote' = Append(remote, Last(remote'))
         /\ run[t].version > FormulaOf(remote).version
  <1> DEFINE r == run[t]
             new == run[t].prepared
  <1>1. r.pc = "push" /\ IsPrefix(remote, new) /\ remote' = new
    BY DEF Push
  <1>2. /\ remote \in Commits /\ r.remoteHead \in Commits /\ IsPrefix(r.remoteHead, remote)
        /\ Sealed(t, r, remote) /\ new \in Commits
    BY <1>1, ThisRun DEF Runs
  <1>3. /\ new # NoCommit /\ Front(new) = r.remoteHead /\ IsPromotion(Last(new), r.version)
        /\ Last(new).at = t \/ IsPrefix(new, remote)
    BY <1>1, <1>2 DEF Sealed, Sealing
  <1>4. ~IsPrefix(new, remote)
    BY <1>1, <1>2, PrefixOrder DEF Commits
  <1>5. remote = r.remoteHead
    BY <1>1, <1>2, <1>3, NothingBetween DEF Commits, NoCommit
  <1>6. r.version > FormulaOf(r.remoteHead).version
    BY <1>1 DEF IInv, BaseInv, Formed, Sealing
  <1>7. Last(new) \in Changes /\ new = Append(Front(new), Last(new))
    BY <1>2, <1>3, FrontAndLast DEF Commits, NoCommit
  <1> QED
    BY <1>1, <1>3, <1>4, <1>5, <1>6, <1>7

LEMMA PushStep ==
  ASSUME IInv, NEW t \in Taps, Push(t)
  PROVE  IInv'
  <1> DEFINE r == run[t]
             c == Checkout(t)
             c2 == Checkout(t)'
             v == run[t].version
  <1>1. /\ BaseInv' /\ remote' = r.prepared /\ IsPrefix(remote, remote') /\ UNCHANGED tap
        /\ Track(t, v) /\ run'[t] \in {[r EXCEPT !.pc = "published"], Idle}
        /\ \A u \in Taps \ {t} : run'[u] = run[u]
    BY PushBase DEF IInv
  <1>2. r.pc = "push"
    BY DEF Push
  <1>3. /\ r \in Runs /\ remote \in Commits /\ v \in Versions /\ v # Outsider
        /\ Sealed(t, r, remote) /\ Own(t, c, remote) /\ Local(t, c, remote) /\ c \in Checkouts
        /\ remote # NoCommit
    BY <1>2, ThisRun DEF IInv, BaseInv, Typed
  <1>4. remote' \in Commits /\ IsPrefix(remote', remote')
    BY <1>1, PrefixOrder DEF BaseInv, Typed, Commits
  <1>5. /\ c2 \in Checkouts /\ c2.head = c.head /\ c2.index = c.index /\ c2.work = c.work
        /\ c2.other = c.other /\ c.head = head[t] /\ head'[t] = head[t] /\ c.writers = writers[t]
    BY <1>1 DEF BaseInv, Typed, Checkout, Checkouts, tap
  <1> HIDE DEF c, c2
  <1>6. Lineage(remote')
    <2>1. CASE remote' # remote
      <3> DEFINE x == Last(remote')
      <3>1. /\ IsPromotion(x, v) /\ x \in Changes /\ remote' = Append(remote, x)
            /\ v > FormulaOf(remote).version
        BY <2>1, PushedCommit
      <3> HIDE DEF x
      <3>2. x.by = v /\ x.formula.version = v
        BY <3>1 DEF IsPromotion, Release
      <3>3. FormulaOf(remote).version \in Nat /\ v \in Nat
        <4>1. Versions \subseteq Nat \ {0}
          BY PromotionAssumption, Zenon
        <4>2. v \in Nat
          BY <1>3, <4>1
        <4> QED
          BY <1>3, <4>2, LastFormula
      <3>4. FormulaOf(remote).version < v
        BY <3>1, <3>3
      <3>5. Lineage(remote)
        BY DEF IInv
      <3> QED
        BY <1>3, <3>1, <3>2, <3>4, <3>5, LineageGrows
    <2> QED
      BY <2>1 DEF IInv
  <1>7. Local(t, c2, remote')
    BY <1>1, <1>3, <1>4, <1>5, LocalGrows
  <1>8. State(c2) = State(c)
    BY <1>5 DEF State
  <1>9. ASSUME c.writers \subseteq {v}, IsPrefix(remote', c.head),
               ~(c.head = remote' /\ State(c) = "clean")
        PROVE  Written(v, c2, remote')
    <2>1. c.head \in Commits
      BY <1>3 DEF Checkouts
    <2>2. IsPrefix(c.head, remote) => c.head = remote' /\ remote' = remote
      BY <1>1, <1>3, <1>4, <1>9, <2>1, PrefixOrder DEF Commits
    <2>3. c.writers = {v}
      BY <1>3, <1>9, <2>2 DEF Own
    <2>4. Written(v, c, remote)
      BY <1>3, <2>3 DEF Own
    <2>5. CASE remote' = remote
      BY <1>5, <1>8, <2>4, <2>5 DEF Written
    <2>6. CASE remote' # remote
      <3>1. c.head # remote
        BY <1>3, <2>2, <2>6, PrefixOrder DEF Commits
      <3>2. Front(c.head) = remote /\ State(c) = "clean"
        BY <2>4, <3>1 DEF Written
      <3>3. c.head # NoCommit
        BY <1>5 DEF IInv, BaseInv, Typed
      <3> QED
        BY <1>1, <1>3, <1>4, <1>9, <2>1, <2>6, <3>2, <3>3, NothingBetween DEF Commits, NoCommit
    <2> QED
      BY <2>5, <2>6
  <1>10. Own(t, c2, remote')
    BY <1>1, <1>3, <1>5, <1>7, <1>8, <1>9, ThisTap DEF c2, IInv
  <1>11. Steady(run'[t], c2) /\ Sealed(t, run'[t], remote') /\ Resumable(run'[t], c2)
    <2>1. CASE run'[t] = Idle
      BY <2>1 DEF Idle, Steady, Sealed, Resumable, Looked, Writing, Sealing
    <2>2. CASE run'[t] = [r EXCEPT !.pc = "published"]
      <3>1. /\ run'[t].pc = "published" /\ run'[t].prepared = r.prepared
            /\ run'[t].remoteHead = r.remoteHead /\ run'[t].version = v
        BY <1>3, <2>2 DEF Runs
      <3>2. Sealed(t, run'[t], remote')
        BY <1>1, <1>2, <1>3, <1>4, <3>1 DEF Sealed, Sealing
      <3> QED
        BY <3>1, <3>2 DEF Steady, Resumable, Looked, Writing
    <2> QED
      BY <1>1, <2>1, <2>2
  <1>12. \A u \in Taps \ {t} :
           /\ run'[u] = run[u] /\ head'[u] = head[u] /\ index'[u] = index[u]
           /\ work'[u] = work[u] /\ other'[u] = other[u]
           /\ remote' = remote \/ Last(remote').at # u
    BY <1>1, PushedCommit DEF tap
  <1>13. \A u \in Taps \ {t} : TapInv(u)'
    BY <1>1, <1>12, OtherTaps
  <1> QED
    BY <1>1, <1>6, <1>10, <1>11, <1>13 DEF IInv, TapInv, c2

-----------------------------------------------------------------------------
(* People, who do not disturb a promotion, and the whole.                  *)

LEMMA PeopleStep ==
  ASSUME Undisturbed, IInv, NEW t \in Taps,
         \/ EditOther(t) \/ CommitOther(t) \/ Tidy(t) \/ \E formula \in Foreign : EditFormula(t, formula)
  PROVE  IInv'
  <1> DEFINE r == run[t]
             c == Checkout(t)
             c2 == Checkout(t)'
  <1>1. BaseInv' /\ UNCHANGED <<remote, run>> /\ Track(t, Outsider) /\ r.pc \in EditPcs
    BY PeopleBase DEF IInv
  <1>2. r.pc \notin Looked \cup Writing
    BY <1>1 DEF Undisturbed, Looked, Writing
  <1>3. /\ remote \in Commits /\ Sealed(t, r, remote) /\ Local(t, c, remote) /\ c \in Checkouts
        /\ head[t] \in Commits
    BY CheckoutType DEF IInv, BaseInv, Typed, TapInv, Own
  <1>4. c2 \in Checkouts /\ c2.head = head'[t] /\ c.head = head[t]
    BY <1>1 DEF BaseInv, Typed, Checkout, Checkouts
  <1>5. IsPrefix(remote, remote)
    BY <1>3, PrefixOrder DEF Commits
  <1>6. \A u \in Taps \ {t} : /\ head'[u] = head[u] /\ index'[u] = index[u] /\ work'[u] = work[u]
                              /\ other'[u] = other[u]
    BY DEF EditOther, CommitOther, Tidy, EditFormula, IInv, BaseInv, Typed
  <1> HIDE DEF c, c2
  <1>7. Local(t, c2, remote)
    <2>1. CASE head' = head
      BY <1>3, <1>4, <1>5, <2>1, LocalGrows
    <2>2. CASE CommitOther(t)
      <3> DEFINE x == Outside(work[t], other[t] # "none", t)
      <3>1. head'[t] = Append(head[t], x)
        BY <2>2 DEF CommitOther, Outside, IInv, BaseInv, Typed
      <3>2. work[t] \in Formulas
        BY DEF IInv, BaseInv, Typed
      <3>3. x \in Changes /\ x.at = t
        BY <3>2 DEF Outside, Changes, Outsider
      <3> HIDE DEF x
      <3> QED
        BY <1>3, <1>4, <3>1, <3>3, LocalAppends
    <2>3. CASE Tidy(t)
      <3>1. c2.head = remote
        BY <1>4, <2>3 DEF Tidy, IInv, BaseInv, Typed
      <3>2. Len(remote) \in Nat
        BY <1>3, LenProperties DEF Commits
      <3> QED
        BY <3>1, <3>2 DEF Local
    <2> QED
      BY <2>1, <2>2, <2>3 DEF EditOther, EditFormula
  <1>8. Own(t, c2, remote')
    BY <1>1, <1>7, ThisTap DEF c2, IInv
  <1>9. run'[t] = r /\ remote' = remote
    BY <1>1
  <1>10. Steady(r, c2) /\ Resumable(r, c2)
    BY <1>2 DEF Steady, Resumable, Looked, Writing
  <1>11. TapInv(t)'
    BY <1>3, <1>8, <1>9, <1>10 DEF TapInv, c2
  <1>12. \A u \in Taps \ {t} : TapInv(u)'
    BY <1>1, <1>5, <1>6, OtherTaps
  <1> QED
    BY <1>1, <1>11, <1>12 DEF IInv

LEMMA OthersPushStep ==
  ASSUME IInv, NEW formula \in Foreign \cup {FormulaOf(remote)}, NEW others \in BOOLEAN,
         OthersPush(formula, others)
  PROVE  IInv'
  <1> DEFINE x == Outside(formula, others, "")
  <1>1. BaseInv' /\ UNCHANGED <<tap, run>> /\ x \in Changes /\ remote' = Append(remote, x)
    BY OthersPushBase DEF IInv
  <1>2. x.by = Outsider /\ x.at = ""
    BY DEF Outside
  <1> HIDE DEF x
  <1>3. remote \in Commits /\ remote # NoCommit
    BY DEF IInv, BaseInv, Typed
  <1>4. IsPrefix(remote, remote') /\ remote' # remote /\ Last(remote') = x
    BY <1>1, <1>3, AppendEnds DEF Commits
  <1>5. Lineage(remote')
    BY <1>1, <1>2, <1>3, LineageGrows DEF IInv
  <1>6. ASSUME NEW t \in Taps PROVE TapInv(t)'
    <2>1. /\ run'[t] = run[t] /\ head'[t] = head[t] /\ index'[t] = index[t] /\ work'[t] = work[t]
          /\ other'[t] = other[t]
      BY <1>1 DEF tap
    <2>2. "" \notin Taps
      BY PromotionAssumption, Zenon
    <2>3. Last(remote').at # t
      BY <1>2, <1>4, <2>2
    <2>4. writers'[t] = IF writers[t] = {} THEN {} ELSE writers[t] \cup {Outsider}
      BY DEF OthersPush
    <2>5. \/ writers'[t] = writers[t] /\ (remote' = remote \/ writers[t] = {})
          \/ Outsider \in writers'[t] /\ remote' # remote
      BY <1>4, <2>4
    <2>6. TapInv(t) /\ BaseInv
      BY DEF IInv
    <2> QED
      BY <1>1, <1>4, <2>1, <2>3, <2>5, <2>6, OtherTap
  <1> QED
    BY <1>1, <1>5, <1>6 DEF IInv

LEMMA NextIInv == Undisturbed /\ IInv /\ [Next]_vars => IInv'
  <1> SUFFICES ASSUME Undisturbed, IInv, [Next]_vars PROVE IInv'
    OBVIOUS
  <1>1. ASSUME NEW t \in Taps, Promotion(t) PROVE IInv'
    BY <1>1, ReadingStep, FastForwardStep, CopyStep, CopyCutStep, AddStep, CommitStep, PushStep
       DEF Promotion
  <1>2. ASSUME NEW t \in Taps,
               \/ EditOther(t) \/ CommitOther(t) \/ Tidy(t)
               \/ \E formula \in Foreign : EditFormula(t, formula)
        PROVE IInv'
    BY <1>2, PeopleStep
  <1>3. ASSUME NEW formula \in Foreign \cup {FormulaOf(remote)}, NEW others \in BOOLEAN,
               OthersPush(formula, others)
        PROVE IInv'
    BY <1>3, OthersPushStep
  <1>4. CASE UNCHANGED vars
    <2>1. UNCHANGED <<remote, run>> /\ \A t \in Taps : Checkout(t)' = Checkout(t)
      BY <1>4 DEF vars, tap, Checkout
    <2>2. BaseInv'
      BY <1>4, NextBase DEF IInv
    <2> QED
      BY <2>1, <2>2 DEF IInv, TapInv
  <1> QED
    BY <1>1, <1>2, <1>3, <1>4 DEF Next

LEMMA SpecIInv == Undisturbed => (Spec => []IInv)
  <1> SUFFICES ASSUME Undisturbed PROVE Spec => []IInv
    OBVIOUS
  <1>1. IInv /\ [Next]_vars => IInv'
    BY NextIInv
  <1> QED
    BY <1>1, InitIInv, PTL DEF Spec

-----------------------------------------------------------------------------
(* Theorems.                                                               *)

\* Undisturbed, every variable keeps its type, and what a promotion is about to
\* push is one change on top of the main branch that it has read.
THEOREM TypeCorrect == Undisturbed => (Spec => []TypeOK)
  <1> SUFFICES ASSUME Undisturbed PROVE Spec => []TypeOK
    OBVIOUS
  <1>1. IInv => TypeOK
    BY DEF IInv, BaseInv, Typed, TapInv, Sealed, Sealing, TypeOK
  <1> QED
    BY <1>1, SpecIInv, PTL

\* However promotions from all checkouts are interrupted, repeated and resumed,
\* those on main follow one another with rising versions: none is there twice.
THEOREM PromotionsRise == Undisturbed => (Spec => []VersionsRise)
  <1> SUFFICES ASSUME Undisturbed PROVE Spec => []VersionsRise
    OBVIOUS
  <1>1. IInv => VersionsRise
    BY DEF IInv, Lineage, VersionsRise
  <1> QED
    BY <1>1, SpecIInv, PTL

\* A push that moves main moves it by one commit, of the formula alone, to the
\* released formula of a version above the one that main had at that moment.
THEOREM PushesAreExact == Undisturbed => (Spec => PushIsExact)
  <1> SUFFICES ASSUME Undisturbed PROVE Spec => PushIsExact
    OBVIOUS
  <1> DEFINE Exact ==
        \A t \in Taps : Push(t) /\ remote' # remote =>
          /\ Front(remote') = remote /\ ~Last(remote').others
          /\ FormulaOf(remote') = Release(run[t].version)
          /\ run[t].version > FormulaOf(remote).version
  <1>1. IInv => Exact
    BY PushedCommit DEF IsPromotion, FormulaOf
  <1> QED
    BY <1>1, SpecIInv, PTL DEF PushIsExact

LEMMA VerdictOfGoes ==
  ASSUME IInv, NEW t \in Taps, NEW verdict, Finish(t, verdict)
  PROVE  run'[t].verdict = verdict
  <1>1. run'[t] = [run[t] EXCEPT !.pc = "idle", !.localHead = NoCommit, !.status = "clean",
                                 !.verdict = verdict]
    BY DEF Finish, Goes, IInv, BaseInv, Typed
  <1>2. run[t] \in Runs
    BY DEF IInv, BaseInv, Typed
  <1> QED
    BY <1>1, <1>2 DEF Runs

\* A step that gives up a checkout as conflicting finds writers of it that are not
\* the promotion, or the released formula on main.
LEMMA ConflictHasACause ==
  ASSUME IInv, [Next]_vars, NEW t \in Taps, run[t].pc # "idle",
         run'[t].verdict = "LOCAL_STATE_CONFLICT"
  PROVE  ~(writers[t] \subseteq {run[t].version}) \/ IsCurrent(t)
  <1>1. run[t].verdict = "none" /\ TapInv(t) /\ BaseInv
    BY DEF IInv, BaseInv, Formed
  <1>2. run'[t].pc = "idle"
    <2>1. BaseInv'
      BY NextBase DEF IInv
    <2> QED
      BY <2>1 DEF BaseInv, Formed
  <1>3. run'[t] # run[t] /\ run'[t] # Idle
    BY <1>1, <1>2 DEF Idle
  <1>4. Promotion(t)
    <2>1. ASSUME NEW u \in Taps \ {t}, Promotion(u) PROVE FALSE
      BY <1>1, <1>3, <2>1, ReadingBase, FastForwardBase, CopyBase, CopyCutBase, AddBase, CommitBase,
         PushBase DEF Promotion
    <2>2. ASSUME NEW u \in Taps,
                 \/ EditOther(u) \/ CommitOther(u) \/ Tidy(u)
                 \/ \E formula \in Foreign : EditFormula(u, formula)
          PROVE FALSE
      BY <1>1, <1>3, <2>2, PeopleBase
    <2>3. ASSUME NEW formula \in Foreign \cup {FormulaOf(remote)}, NEW others \in BOOLEAN,
                 OthersPush(formula, others)
          PROVE FALSE
      BY <1>3, <2>3 DEF OthersPush
    <2>4. CASE UNCHANGED vars
      BY <1>3, <2>4 DEF vars
    <2> QED
      BY <2>1, <2>2, <2>3, <2>4 DEF Next
  <1>5. Inspect(t) \/ Prepare(t)
    <2>1. run[t] \in Runs /\ run \in [Taps -> Runs]
      BY <1>1 DEF BaseInv, Typed
    <2>2. \A n : Goes(t, n) => run'[t] = n
      BY <2>1 DEF Goes
    <2>3. ASSUME NEW to \in Pcs \ {"idle"}, run'[t] = [run[t] EXCEPT !.pc = to] PROVE FALSE
      BY <1>2, <2>1, <2>3 DEF Runs
    <2>4. ~(Stop(t) \/ CopyCut(t))
      BY <1>1, <1>3, <2>2, CopyCutBase DEF Stop
    <2>5. ~(Fetch(t) \/ DryRun(t) \/ Race(t) \/ ReadPublished(t))
      BY <2>2, <2>3 DEF Fetch, DryRun, Race, ReadPublished, Pcs
    <2>6. ~(FastForward(t) \/ Copy(t) \/ Add(t))
      BY <1>1, <2>3, FastForwardBase, CopyBase, AddBase DEF Pcs
    <2>7. ~Push(t)
      BY <1>1, <1>3, <2>3, PushBase DEF Pcs
    <2>8. ~Commit(t)
      <3> SUFFICES ASSUME Commit(t) PROVE FALSE
        OBVIOUS
      <3>1. run'[t] = [run[t] EXCEPT !.pc = "race", !.prepared = head'[t]]
        BY <1>1, CommitBase
      <3> QED
        BY <1>2, <2>1, <3>1 DEF Runs
    <2>9. ~ReadRemote(t)
      <3> SUFFICES ASSUME ReadRemote(t) PROVE FALSE
        OBVIOUS
      <3>1. run'[t] = [run[t] EXCEPT !.pc = "fetch", !.remoteHead = remote]
        BY <2>2 DEF ReadRemote
      <3> QED
        BY <1>2, <2>1, <3>1 DEF Runs
    <2>10. ~VerifyPublished(t)
      BY VerdictOfGoes DEF VerifyPublished
    <2>11. \A v \in Versions : ~Start(t, v)
      BY DEF Start
    <2> QED
      BY <1>4, <2>4, <2>5, <2>6, <2>7, <2>8, <2>9, <2>10, <2>11 DEF Promotion
  <1>6. CASE Inspect(t)
    <2>1. CASE Goes(t, [run[t] EXCEPT !.pc = "dryRun", !.localHead = head[t], !.status = Status(t)])
      <3>1. run \in [Taps -> Runs] /\ run[t] \in Runs
        BY <1>1 DEF BaseInv, Typed
      <3>2. run'[t] = [run[t] EXCEPT !.pc = "dryRun", !.localHead = head[t], !.status = Status(t)]
        BY <2>1, <3>1 DEF Goes
      <3> QED
        BY <1>2, <3>1, <3>2 DEF Runs
    <2> QED
      BY <1>6, <2>1 DEF Inspect
  <1>7. CASE Prepare(t)
    <2>1. run \in [Taps -> Runs] /\ run[t] \in Runs
      BY <1>1 DEF BaseInv, Typed
    <2>2. \A n : Goes(t, n) => run'[t] = n
      BY <2>1 DEF Goes
    <2>3. ~Goes(t, [run[t] EXCEPT !.pc = "copy"]) /\ ~Goes(t, [run[t] EXCEPT !.pc = "add"])
      BY <1>2, <2>1, <2>2 DEF Runs
    <2>4. ~Goes(t, [run[t] EXCEPT !.pc = "race", !.prepared = run[t].localHead])
      BY <1>2, <2>1, <2>2 DEF Runs
    <2>5. ~Fresh(t) /\ ~Copied(t) /\ ~Committed(t) /\ ~Behind(t) /\ run[t].pc = "prepare"
      BY <1>7, <2>3, <2>4 DEF Prepare
    <2>6. Resumable(run[t], Checkout(t)) /\ Checkout(t).writers = writers[t] /\ Checkout(t).work = work[t]
      BY <1>1 DEF TapInv, Checkout
    <2> QED
      BY <2>5, <2>6 DEF Resumable, Fresh, Copied, Committed, Behind, AtMain, IsPromotion
  <1> QED
    BY <1>5, <1>6, <1>7

\* A promotion that was interrupted anywhere can be resumed: it gives a checkout
\* up as conflicting only for what somebody else did to it or to main, or
\* because main has the formula already.
THEOREM OwnWorkIsResumed == Undisturbed => (Spec => ResumesOwnWork)
  <1> SUFFICES ASSUME Undisturbed PROVE Spec => ResumesOwnWork
    OBVIOUS
  <1> DEFINE Resumes ==
        \A t \in Taps :
          run[t].pc # "idle" /\ run'[t].verdict = "LOCAL_STATE_CONFLICT" =>
            \/ ~(writers[t] \subseteq {run[t].version})
            \/ IsCurrent(t)
  <1>1. IInv /\ [Next]_vars => Resumes
    BY ConflictHasACause
  <1> QED
    BY <1>1, SpecIInv, PTL DEF Spec, ResumesOwnWork
=============================================================================
