-------------------------- MODULE RolloutScanProofs --------------------------
(***************************************************************************)
(* The safety of the history scan for every number of rollouts, records    *)
(* and worker threads, whatever fails, expires, panics or moves: no path   *)
(* is accounted for twice, a report with complete coverage has every use   *)
(* there is, and its signals are true.  The scan implements UsageReport.   *)
(***************************************************************************)
EXTENDS RolloutScan, SkillEvidenceProofs

\* Evidence is held by the workers, and merged by the main thread, 0.
Holders == 0..WorkerLimit
Part(v) == IF v = 0 THEN evidence ELSE partial[v]

Busy(w) == pc[w] \in {"open", "read"}
Size(p) == Len(content[Id(p)])
Kind(r, i) == content[r][i].kind

\* Before the scan there are no workers and no evidence; a joined worker has
\* ended; the report is the last thing to come.
PhaseInv ==
  /\ phase \in {"sessions", "archived_sessions", "start"} =>
       /\ \A w \in Workers : pc[w] = "unborn" /\ partial[w] = NoEvidence
       /\ unclaimed = {} /\ joined = 0 /\ evidence = NoEvidence
  /\ phase # "reported" => report = Nothing
  /\ phase = "reported" => joined = WorkerLimit
  /\ \A w \in 1..joined : pc[w] \in {"done", "panicked"}

\* A rollout that is missed, or moved past the listing, is counted as an error:
\* without errors each one was listed in one of the directories.
ListedInv ==
  discoveryErrors = 0 =>
    /\ phase = "archived_sessions" =>
         \A r \in Rollouts : location[r] = "sessions" => <<"sessions", r>> \in discovered
    /\ phase \in {"start", "scan", "reported"} =>
         \A r \in Rollouts : \E p \in discovered : Id(p) = r

\* Each path is unclaimed, read by one worker or accounted for by one, under one
\* heading; a path with the name of the current task is never claimed.
ClaimInv ==
  /\ unclaimed \subseteq discovered
  /\ \A p \in unclaimed : Id(p) \notin named
  /\ \A v \in Holders : Accounted(Part(v)) \subseteq discovered \ unclaimed
  /\ \A v, w \in Holders : v # w => Accounted(Part(v)) \cap Accounted(Part(w)) = {}
  /\ \A w \in Workers : Busy(w) =>
       /\ path[w] \in discovered \ unclaimed
       /\ Id(path[w]) \notin named
       /\ \A v \in Holders : path[w] \notin Accounted(Part(v))
  /\ \A v, w \in Workers : v # w /\ Busy(v) /\ Busy(w) => path[v] # path[w]

OneHeading(e) ==
  /\ e.scanned \cap e.unreadable = {}
  /\ e.scanned \cap e.excluded = {}
  /\ e.unreadable \cap e.excluded = {}

\* A worker in a file of the current task has not met its session_meta yet.
ReadInv ==
  \A w \in Workers :
    /\ pc[w] # "read" => pos[w] = 0
    /\ pc[w] = "read" =>
         /\ pos[w] \in 0..Size(path[w])
         /\ Id(path[w]) \in current =>
              \A i \in 1..pos[w] : Kind(Id(path[w]), i) # "meta"

\* All that a file with the contents `cont` gives.
AllUses(cont, r) ==
  {[rollout |-> r, pos |-> u.pos, skill |-> u.skill, turn |-> u.turn, epoch |-> u.epoch] :
     u \in PrefixEvidence[cont[r]][Len(cont[r])].uses}
AllBad(cont, p) == {p} \X PrefixEvidence[cont[Id(p)]][Len(cont[Id(p)])].bad

\* Evidence is of the rollouts: what is set aside belongs to the current task, a
\* scanned file has given all it has, and nothing else was taken unless the
\* scan was cut.  A file of the current task that was scanned has no uses or is
\* torn.
Sound(e, cont, cur) ==
  /\ OneHeading(e)
  /\ \A p \in e.excluded : Id(p) \in cur
  /\ \A p \in e.scanned :
       /\ AllUses(cont, Id(p)) \subseteq e.uses
       /\ AllBad(cont, p) \subseteq e.bad
       /\ Id(p) \in cur => AllUses(cont, Id(p)) = {} \/ AllBad(cont, p) # {}
  /\ e.uses \subseteq UNION {AllUses(cont, r) : r \in Rollouts}
  /\ ~e.truncated => e.uses \subseteq UNION {AllUses(cont, Id(p)) : p \in e.scanned}
  /\ IsFiniteSet(e.bad) /\ IsFiniteSet(e.uses)

EvidenceInv == \A v \in Holders : Sound(Part(v), content, current)

WorldInv == \A r \in current \ named : Marked(r)

\* The report of a catalog, as Report makes it.
ReportOf(catalogErrors) ==
  LET a == Assess(ObservedEpoch, Counters(catalogErrors), evidence.firsts, evidence.times,
                  Origin, evidence.uses)
  IN  [status |-> a.status, items |-> a.items, verdict |-> a.verdict,
       uses |-> evidence.uses]

ReportInv == phase = "reported" => \E n \in CatalogErrors : report = ReportOf(n)

IInv ==
  /\ TypeOK
  /\ PhaseInv
  /\ ListedInv
  /\ ClaimInv
  /\ ReadInv
  /\ EvidenceInv
  /\ WorldInv
  /\ ReportInv

-----------------------------------------------------------------------------
(* What the records read so far are evidence of.                           *)

\* A rollout holds records, with at most finitely many dates.
LEMMA ContentType ==
  ASSUME TypeOK, NEW r \in Rollouts
  PROVE  /\ content[r] \in Seq(Records)
         /\ \A i \in DOMAIN content[r] : IsFiniteSet(content[r][i].at)
         /\ Len(content[r]) \in Nat
         /\ PrefixEvidence[content[r]] = ReadPrefixes(content[r])
  <1>1. content[r] \in Contents
    BY DEF TypeOK
  <1> QED
    BY <1>1, ScanAssumption, LenProperties DEF PrefixEvidence

\* The uses in a part of a rollout are among all its uses.
LEMMA UsesInType ==
  ASSUME TypeOK, NEW r \in Rollouts, NEW n \in 0..Len(content[r])
  PROVE  /\ UsesIn(r, n) \subseteq Uses
         /\ UsesIn(r, n) \subseteq AllUses(content, r)
         /\ IsFiniteSet(UsesIn(r, n))
         /\ n = Len(content[r]) => UsesIn(r, n) = AllUses(content, r)
  <1> DEFINE P == ReadPrefixes(content[r])
             L == Len(content[r])
             stamped(u) == [rollout |-> r, pos |-> u.pos, skill |-> u.skill, turn |-> u.turn,
                            epoch |-> u.epoch]
             f == [u \in P[n].uses |-> stamped(u)]
  <1>1. /\ content[r] \in Seq(Records) /\ L \in Nat
        /\ \A i \in DOMAIN content[r] : IsFiniteSet(content[r][i].at)
        /\ PrefixEvidence[content[r]] = P
    BY ContentType
  <1>2. L \in 0..L /\ L \in n..L
    BY <1>1
  <1>3. P[n].uses \subseteq SeenUses /\ P[n].uses \subseteq P[L].uses /\ IsFiniteSet(P[n].uses)
    <2>1. P[n].uses \subseteq SeenUses
      BY <1>1, PrefixType DEF Known
    <2>2. P[n].uses \subseteq P[L].uses
      BY <1>1, <1>2, PrefixGrows
    <2>3. IsFiniteSet(P[n].uses)
      BY <1>1, UsesAreFinite, ScanAssumption
    <2> QED
      BY <2>1, <2>2, <2>3
  <1>4. UsesIn(r, n) = {stamped(u) : u \in P[n].uses} /\ AllUses(content, r) = {stamped(u) : u \in P[L].uses}
    BY <1>1 DEF UsesIn, AllUses
  <1>5. UsesIn(r, n) = {f[u] : u \in P[n].uses}
    BY <1>4
  <1> HIDE DEF P, f
  <1>6. IsFiniteSet(UsesIn(r, n))
    BY <1>3, <1>5, ImageIsFinite
  <1>7. UsesIn(r, n) \subseteq Uses
    BY <1>3, <1>4 DEF SeenUses, Uses, Turns
  <1> QED
    BY <1>3, <1>4, <1>6, <1>7

\* So are its torn records, and the dates are dates.
LEMMA BadInType ==
  ASSUME TypeOK, NEW p \in Paths, NEW n \in 0..Size(p)
  PROVE  /\ BadIn(p, n) \subseteq Paths \X Nat
         /\ IsFiniteSet(BadIn(p, n))
         /\ n = Size(p) => BadIn(p, n) = AllBad(content, p)
         /\ TimesIn(Id(p), n) \subseteq Int /\ FirstsIn(Id(p), n) \subseteq Int
  <1> DEFINE c == content[Id(p)]
             P == ReadPrefixes(c)
  <1>1. Id(p) \in Rollouts
    BY DEF Paths, Id
  <1>2. c \in Seq(Records) /\ PrefixEvidence[c] = P /\ n \in 0..Len(c)
    BY <1>1, ContentType DEF Size
  <1>3. P[n] \in Known /\ P[n].bad \subseteq 1..n
    BY <1>2, PrefixType
  <1>4. IsFiniteSet(P[n].bad)
    <2>1. IsFiniteSet(1..n)
      BY FS_Interval
    <2> QED
      BY <1>3, <2>1, FS_Subset
  <1>5. BadIn(p, n) = {p} \X P[n].bad
    BY <1>2 DEF BadIn
  <1>6. IsFiniteSet(BadIn(p, n))
    <2>1. IsFiniteSet({p})
      BY FS_Singleton
    <2> HIDE DEF P
    <2> QED
      BY <1>4, <1>5, <2>1, FS_Product
  <1>7. BadIn(p, n) \subseteq Paths \X Nat
    BY <1>3, <1>5 DEF Known
  <1>8. TimesIn(Id(p), n) \subseteq Int /\ FirstsIn(Id(p), n) \subseteq Int
    BY <1>2, <1>3 DEF TimesIn, FirstsIn, Known
  <1>9. n = Size(p) => BadIn(p, n) = AllBad(content, p)
    BY DEF BadIn, AllBad, Size
  <1> QED
    BY <1>6, <1>7, <1>8, <1>9

-----------------------------------------------------------------------------
(* Operations on evidence.                                                 *)

LEMMA MergeType ==
  ASSUME NEW e \in Evidence, NEW f \in Evidence
  PROVE  /\ Merge(e, f) \in Evidence
         /\ Accounted(Merge(e, f)) = Accounted(e) \cup Accounted(f)
  BY DEF Merge, Evidence, Accounted

\* Merged evidence is sound if the two parts account for different paths.
LEMMA MergeSound ==
  ASSUME NEW e \in Evidence, NEW f \in Evidence, NEW cont, NEW cur,
         Sound(e, cont, cur), Sound(f, cont, cur), Accounted(e) \cap Accounted(f) = {}
  PROVE  Sound(Merge(e, f), cont, cur)
  <1> DEFINE m == Merge(e, f)
  <1>1. /\ m.scanned = e.scanned \cup f.scanned /\ m.excluded = e.excluded \cup f.excluded
        /\ m.unreadable = e.unreadable \cup f.unreadable
        /\ m.bad = e.bad \cup f.bad /\ m.uses = e.uses \cup f.uses
        /\ m.truncated = (e.truncated \/ f.truncated)
    BY DEF Merge
  <1> HIDE DEF m
  <1>2. OneHeading(m)
    BY <1>1 DEF Sound, OneHeading, Accounted
  <1>3. IsFiniteSet(m.bad) /\ IsFiniteSet(m.uses)
    <2>1. /\ IsFiniteSet(e.bad) /\ IsFiniteSet(f.bad)
          /\ IsFiniteSet(e.uses) /\ IsFiniteSet(f.uses)
      BY DEF Sound
    <2>2. IsFiniteSet(e.bad \cup f.bad) /\ IsFiniteSet(e.uses \cup f.uses)
      BY <2>1, FS_Union
    <2> QED
      BY <1>1, <2>2
  <1>4. \A p \in m.excluded : Id(p) \in cur
    BY <1>1 DEF Sound
  <1>5. \A p \in m.scanned :
          /\ AllUses(cont, Id(p)) \subseteq m.uses
          /\ AllBad(cont, p) \subseteq m.bad
          /\ Id(p) \in cur => AllUses(cont, Id(p)) = {} \/ AllBad(cont, p) # {}
    BY <1>1 DEF Sound
  <1>6. m.uses \subseteq UNION {AllUses(cont, r) : r \in Rollouts}
    BY <1>1 DEF Sound
  <1>7. ~m.truncated => m.uses \subseteq UNION {AllUses(cont, Id(p)) : p \in m.scanned}
    <2> SUFFICES ASSUME ~m.truncated, NEW u \in m.uses
                 PROVE  \E p \in m.scanned : u \in AllUses(cont, Id(p))
      OBVIOUS
    <2>1. CASE u \in e.uses
      BY <1>1, <2>1 DEF Sound
    <2>2. CASE u \in f.uses
      BY <1>1, <2>2 DEF Sound
    <2> QED
      BY <1>1, <2>1, <2>2
  <1>8. Sound(m, cont, cur)
    BY <1>2, <1>3, <1>4, <1>5, <1>6, <1>7 DEF Sound
  <1> QED
    BY <1>8 DEF m

\* What record_scan adds of a path that was read up to its record n.
LEMMA RecordScanFields ==
  ASSUME TypeOK, NEW e \in Evidence, NEW p \in Paths, NEW n \in 0..Size(p)
  PROVE  /\ RecordScan(e, p, n, TRUE) \in Evidence
         /\ RecordScan(e, p, n, TRUE) =
              [scanned |-> e.scanned \cup {p}, excluded |-> e.excluded,
               unreadable |-> e.unreadable, bad |-> e.bad \cup BadIn(p, n),
               uses |-> e.uses \cup UsesIn(Id(p), n), firsts |-> e.firsts \cup FirstsIn(Id(p), n),
               times |-> e.times \cup TimesIn(Id(p), n), truncated |-> e.truncated]
         /\ RecordScan(e, p, n, FALSE) \in Evidence
         /\ RecordScan(e, p, n, FALSE) =
              [scanned |-> e.scanned, excluded |-> e.excluded,
               unreadable |-> e.unreadable, bad |-> e.bad \cup BadIn(p, n),
               uses |-> e.uses \cup UsesIn(Id(p), n), firsts |-> e.firsts \cup FirstsIn(Id(p), n),
               times |-> e.times \cup TimesIn(Id(p), n), truncated |-> TRUE]
  <1> DEFINE bad == e.bad \cup BadIn(p, n)
             uses == e.uses \cup UsesIn(Id(p), n)
             firsts == e.firsts \cup FirstsIn(Id(p), n)
             times == e.times \cup TimesIn(Id(p), n)
             whole == RecordScan(e, p, n, TRUE)
             cut == RecordScan(e, p, n, FALSE)
  <1>1. Id(p) \in Rollouts /\ n \in 0..Len(content[Id(p)])
    BY DEF Paths, Id, Size
  <1>2. /\ bad \subseteq Paths \X Nat /\ uses \subseteq Uses
        /\ firsts \subseteq Int /\ times \subseteq Int
    BY <1>1, UsesInType, BadInType DEF Evidence
  <1>3. (e.truncated \/ ~TRUE) = e.truncated /\ (e.truncated \/ ~FALSE) = TRUE
    BY Zenon DEF Evidence
  <1>4. whole = [e EXCEPT !.scanned = e.scanned \cup {p}, !.truncated = e.truncated \/ ~TRUE,
                          !.bad = bad, !.uses = uses, !.firsts = firsts, !.times = times]
    BY DEF RecordScan
  <1>5. cut = [e EXCEPT !.scanned = e.scanned, !.truncated = e.truncated \/ ~FALSE,
                        !.bad = bad, !.uses = uses, !.firsts = firsts, !.times = times]
    BY DEF RecordScan
  <1> HIDE DEF bad, uses, firsts, times, whole, cut
  <1>6. whole = [scanned |-> e.scanned \cup {p}, excluded |-> e.excluded,
                 unreadable |-> e.unreadable, bad |-> bad, uses |-> uses, firsts |-> firsts,
                 times |-> times, truncated |-> e.truncated]
    BY <1>3, <1>4 DEF Evidence
  <1>7. cut = [scanned |-> e.scanned, excluded |-> e.excluded,
               unreadable |-> e.unreadable, bad |-> bad, uses |-> uses, firsts |-> firsts,
               times |-> times, truncated |-> TRUE]
    BY <1>3, <1>5 DEF Evidence
  <1>8. whole \in Evidence /\ cut \in Evidence
    BY <1>2, <1>6, <1>7 DEF Evidence
  <1> QED
    BY <1>6, <1>7, <1>8 DEF bad, uses, firsts, times, whole, cut

\* Evidence with a file that was cut is sound: it only has no longer to be whole.
LEMMA CutIsSound ==
  ASSUME TypeOK, NEW e \in Evidence, Sound(e, content, current), NEW p \in Paths,
         NEW n \in 0..Size(p)
  PROVE  /\ Sound(RecordScan(e, p, n, FALSE), content, current)
         /\ Accounted(RecordScan(e, p, n, FALSE)) = Accounted(e)
  <1> DEFINE m == RecordScan(e, p, n, FALSE)
  <1>1. /\ m.scanned = e.scanned /\ m.excluded = e.excluded /\ m.unreadable = e.unreadable
        /\ m.bad = e.bad \cup BadIn(p, n)
        /\ m.uses = e.uses \cup UsesIn(Id(p), n)
        /\ m.truncated
    <2>1. m = [scanned |-> e.scanned, excluded |-> e.excluded,
               unreadable |-> e.unreadable, bad |-> e.bad \cup BadIn(p, n),
               uses |-> e.uses \cup UsesIn(Id(p), n), firsts |-> e.firsts \cup FirstsIn(Id(p), n),
               times |-> e.times \cup TimesIn(Id(p), n), truncated |-> TRUE]
      BY RecordScanFields, Zenon
    <2> HIDE DEF m
    <2> QED
      BY <2>1
  <1>2. Id(p) \in Rollouts /\ n \in 0..Len(content[Id(p)])
    BY DEF Paths, Id, Size
  <1>3. /\ UsesIn(Id(p), n) \subseteq AllUses(content, Id(p))
        /\ IsFiniteSet(UsesIn(Id(p), n)) /\ IsFiniteSet(BadIn(p, n))
    BY <1>2, UsesInType, BadInType
  <1> HIDE DEF m
  <1>4. IsFiniteSet(m.bad) /\ IsFiniteSet(m.uses)
    <2>1. IsFiniteSet(e.bad) /\ IsFiniteSet(e.uses)
      BY DEF Sound
    <2>2. IsFiniteSet(e.bad \cup BadIn(p, n)) /\ IsFiniteSet(e.uses \cup UsesIn(Id(p), n))
      BY <1>3, <2>1, FS_Union
    <2> QED
      BY <1>1, <2>2
  <1>5. m.uses \subseteq UNION {AllUses(content, r) : r \in Rollouts}
    BY <1>1, <1>2, <1>3 DEF Sound
  <1>6. Sound(m, content, current)
    BY <1>1, <1>4, <1>5 DEF Sound, OneHeading
  <1> QED
    BY <1>1, <1>6 DEF m, Accounted

\* Evidence with a whole file is sound, if the file was not accounted for before
\* and, being of the current task, is empty or torn.
LEMMA WholeIsSound ==
  ASSUME TypeOK, NEW e \in Evidence, Sound(e, content, current), NEW p \in Paths,
         p \notin Accounted(e),
         Id(p) \in current => AllUses(content, Id(p)) = {} \/ AllBad(content, p) # {}
  PROVE  /\ Sound(RecordScan(e, p, Size(p), TRUE), content, current)
         /\ Accounted(RecordScan(e, p, Size(p), TRUE)) = Accounted(e) \cup {p}
  <1> DEFINE m == RecordScan(e, p, Size(p), TRUE)
  <1>1. Id(p) \in Rollouts
    BY DEF Paths, Id
  <1>2. Size(p) = Len(content[Id(p)]) /\ Size(p) \in 0..Size(p)
    BY <1>1, ContentType DEF Size
  <1>3. /\ m.scanned = e.scanned \cup {p} /\ m.excluded = e.excluded /\ m.unreadable = e.unreadable
        /\ m.bad = e.bad \cup BadIn(p, Size(p))
        /\ m.uses = e.uses \cup UsesIn(Id(p), Size(p))
        /\ m.truncated = e.truncated
    <2>1. m = [scanned |-> e.scanned \cup {p}, excluded |-> e.excluded,
               unreadable |-> e.unreadable, bad |-> e.bad \cup BadIn(p, Size(p)),
               uses |-> e.uses \cup UsesIn(Id(p), Size(p)),
               firsts |-> e.firsts \cup FirstsIn(Id(p), Size(p)),
               times |-> e.times \cup TimesIn(Id(p), Size(p)), truncated |-> e.truncated]
      BY <1>2, RecordScanFields, Zenon
    <2> HIDE DEF m
    <2> QED
      BY <2>1
  <1>4. /\ UsesIn(Id(p), Size(p)) = AllUses(content, Id(p))
        /\ BadIn(p, Size(p)) = AllBad(content, p)
        /\ IsFiniteSet(UsesIn(Id(p), Size(p))) /\ IsFiniteSet(BadIn(p, Size(p)))
    BY <1>1, <1>2, UsesInType, BadInType
  <1> HIDE DEF m
  <1>5. IsFiniteSet(m.bad) /\ IsFiniteSet(m.uses)
    <2>1. IsFiniteSet(e.bad) /\ IsFiniteSet(e.uses)
      BY DEF Sound
    <2>2. IsFiniteSet(e.bad \cup BadIn(p, Size(p))) /\ IsFiniteSet(e.uses \cup UsesIn(Id(p), Size(p)))
      BY <1>4, <2>1, FS_Union
    <2> QED
      BY <1>3, <2>2
  <1>6. OneHeading(m)
    BY <1>3 DEF Sound, OneHeading, Accounted
  <1>7. \A q \in m.scanned :
          /\ AllUses(content, Id(q)) \subseteq m.uses
          /\ AllBad(content, q) \subseteq m.bad
          /\ Id(q) \in current => AllUses(content, Id(q)) = {} \/ AllBad(content, q) # {}
    BY <1>3, <1>4 DEF Sound
  <1>8. m.uses \subseteq UNION {AllUses(content, r) : r \in Rollouts}
    BY <1>1, <1>3, <1>4 DEF Sound
  <1>9. ~m.truncated => m.uses \subseteq UNION {AllUses(content, Id(q)) : q \in m.scanned}
    BY <1>3, <1>4 DEF Sound
  <1>10. Sound(m, content, current)
    BY <1>3, <1>5, <1>6, <1>7, <1>8, <1>9 DEF Sound
  <1> QED
    BY <1>3, <1>10 DEF m, Accounted

\* A file that cannot be read, or that is set aside, adds its path alone.
LEMMA SetAsideIsSound ==
  ASSUME NEW e \in Evidence, NEW cont, NEW cur, Sound(e, cont, cur), NEW p \in Paths,
         p \notin Accounted(e)
  PROVE  /\ [e EXCEPT !.unreadable = @ \cup {p}] \in Evidence
         /\ Sound([e EXCEPT !.unreadable = @ \cup {p}], cont, cur)
         /\ Accounted([e EXCEPT !.unreadable = @ \cup {p}]) = Accounted(e) \cup {p}
         /\ [e EXCEPT !.excluded = @ \cup {p}] \in Evidence
         /\ Id(p) \in cur => Sound([e EXCEPT !.excluded = @ \cup {p}], cont, cur)
         /\ Accounted([e EXCEPT !.excluded = @ \cup {p}]) = Accounted(e) \cup {p}
  <1> DEFINE m == [e EXCEPT !.unreadable = @ \cup {p}]
             x == [e EXCEPT !.excluded = @ \cup {p}]
  <1>1. /\ m \in Evidence
        /\ m.scanned = e.scanned /\ m.excluded = e.excluded /\ m.unreadable = e.unreadable \cup {p}
        /\ m.bad = e.bad /\ m.uses = e.uses /\ m.truncated = e.truncated
    BY DEF Evidence
  <1>2. /\ x \in Evidence
        /\ x.scanned = e.scanned /\ x.unreadable = e.unreadable /\ x.excluded = e.excluded \cup {p}
        /\ x.bad = e.bad /\ x.uses = e.uses /\ x.truncated = e.truncated
    BY DEF Evidence
  <1> HIDE DEF m, x
  <1>3. Sound(m, cont, cur) /\ Accounted(m) = Accounted(e) \cup {p}
    BY <1>1 DEF Sound, OneHeading, Accounted
  <1>4. (Id(p) \in cur => Sound(x, cont, cur)) /\ Accounted(x) = Accounted(e) \cup {p}
    BY <1>2 DEF Sound, OneHeading, Accounted
  <1> QED
    BY <1>1, <1>2, <1>3, <1>4 DEF m, x

LEMMA NoEvidenceIsSound ==
  ASSUME NEW cont, NEW cur
  PROVE  /\ NoEvidence \in Evidence /\ Accounted(NoEvidence) = {}
         /\ Sound(NoEvidence, cont, cur)
  BY FS_EmptySet DEF NoEvidence, Evidence, Accounted, Sound, OneHeading

-----------------------------------------------------------------------------
(* The invariant is inductive.                                             *)

\* There is a newest path among any paths: the latest rollout, in "sessions" if
\* it is there.
LEMMA NewestIsThere ==
  ASSUME NEW paths \in SUBSET Paths, paths # {}
  PROVE  Newest(paths) \in paths
  <1> DEFINE f == [p \in paths |-> Id(p)]
             ids == {f[p] : p \in paths}
  <1>1. ids \subseteq Rollouts /\ ids # {} /\ \A p \in paths : Id(p) \in ids
    BY DEF Paths, Id
  <1>2. ids \in SUBSET Int /\ IsFiniteSet(ids)
    BY <1>1, ScanAssumption, FS_Subset
  <1>3. PICK m \in ids : \A n \in ids : n <= m
    <2> HIDE DEF ids
    <2> QED
      BY <1>1, <1>2, GreatestOfFinite
  <1>4. PICK p \in paths : Id(p) = m
    OBVIOUS
  <1>5. \A q \in paths : Id(q) <= m /\ Id(q) \in Int /\ q = <<q[1], Id(q)>>
                         /\ q[1] \in {"sessions", "archived_sessions"}
    BY <1>1, <1>2, <1>3 DEF Paths, Roots, Id
  <1>6. PICK b \in paths : Id(b) = m /\ (b[1] = "sessions" \/ <<"sessions", m>> \notin paths)
    <2>1. CASE <<"sessions", m>> \in paths
      BY <2>1 DEF Id
    <2>2. CASE <<"sessions", m>> \notin paths
      BY <1>4, <2>2
    <2> QED
      BY <2>1, <2>2
  <1>7. ASSUME NEW q \in paths
        PROVE  Id(b) > Id(q) \/ (Id(b) = Id(q) /\ (b[1] = "sessions" \/ q[1] = b[1]))
    <2>1. CASE Id(q) = m
      <3>1. b[1] = "sessions" \/ (b[1] = "archived_sessions" /\ q[1] = "archived_sessions")
        BY <1>5, <1>6, <2>1
      <3> QED
        BY <1>6, <2>1, <3>1
    <2>2. CASE Id(q) # m
      BY <1>5, <1>6, <2>2
    <2> QED
      BY <2>1, <2>2
  <1> QED
    BY <1>7 DEF Newest

LEMMA InitIInv == Init => IInv
  <1> SUFFICES ASSUME Init PROVE IInv
    OBVIOUS
  <1>1. /\ \A w \in Workers : partial[w] = NoEvidence /\ pc[w] = "unborn" /\ pos[w] = 0
        /\ evidence = NoEvidence /\ joined = 0 /\ unclaimed = {} /\ phase = "sessions"
    BY DEF Init
  <1>2. \A v \in Holders : Part(v) = NoEvidence
    BY <1>1, ScanAssumption DEF Part, Holders, Workers
  <1>3. TypeOK
    <2>1. evidence \in Evidence /\ partial \in [Workers -> Evidence]
      BY NoEvidenceIsSound DEF Init
    <2>2. discovered \in SUBSET Paths /\ unclaimed \in SUBSET Paths /\ expired \in BOOLEAN
      BY DEF Init
    <2>5. 0 \in 0..WorkerLimit /\ 0 \in Nat
      BY ScanAssumption
    <2>3. /\ path \in [Workers -> Paths \cup {Nothing}]
          /\ pos \in [Workers -> Nat]
          /\ pc \in [Workers -> {"unborn", "check", "claim", "open", "read", "done", "panicked"}]
      BY DEF Init
    <2>4. /\ content \in [Rollouts -> Contents] /\ current \in SUBSET Rollouts
          /\ named \in SUBSET current /\ location \in [Rollouts -> Roots]
          /\ phase \in {"sessions", "archived_sessions", "start", "scan", "reported"}
      BY DEF Init
    <2> QED
      BY <1>1, <2>1, <2>2, <2>3, <2>4, <2>5 DEF Init, TypeOK
  <1>4. PhaseInv /\ ListedInv /\ ReadInv /\ WorldInv /\ ReportInv
    BY <1>1 DEF Init, PhaseInv, ListedInv, ReadInv, WorldInv, ReportInv
  <1>5. ClaimInv /\ EvidenceInv
    BY <1>1, <1>2, NoEvidenceIsSound DEF ClaimInv, EvidenceInv, Busy
  <1> QED
    BY <1>3, <1>4, <1>5 DEF IInv

\* A worker that is at work has not been joined, and the scan goes on.
LEMMA ActiveWorker ==
  ASSUME IInv, NEW w \in Workers, pc[w] \in {"check", "claim", "open", "read"}
  PROVE  /\ phase = "scan" /\ w \notin 1..joined
         /\ w \in Holders /\ w # 0 /\ Part(w) = partial[w] /\ partial[w] \in Evidence
         /\ Sound(partial[w], content, current)
  <1>1. w \in Nat \ {0} /\ w <= WorkerLimit /\ WorkerLimit \in Nat
    BY ScanAssumption DEF Workers
  <1>2. w \notin 1..joined
    BY DEF IInv, PhaseInv
  <1>3. phase = "scan"
    BY <1>1, <1>2 DEF IInv, TypeOK, PhaseInv
  <1> QED
    BY <1>1, <1>2, <1>3 DEF IInv, TypeOK, EvidenceInv, Holders, Part

LEMMA BusyWorker ==
  ASSUME IInv, NEW w \in Workers, Busy(w)
  PROVE  /\ path[w] \in Paths /\ Id(path[w]) \in Rollouts /\ pos[w] \in 0..Size(path[w])
         /\ path[w] \notin Accounted(partial[w])
         /\ Size(path[w]) = Len(content[Id(path[w])]) /\ Size(path[w]) \in Nat
  <1>1. path[w] \in Paths
    BY DEF IInv, TypeOK, ClaimInv
  <1>2. Id(path[w]) \in Rollouts
    BY <1>1 DEF Paths, Id
  <1>3. Size(path[w]) = Len(content[Id(path[w])]) /\ Size(path[w]) \in Nat
    BY <1>2, ContentType DEF IInv, Size
  <1>4. pos[w] \in 0..Size(path[w])
    BY <1>3 DEF IInv, ReadInv, Busy
  <1>5. path[w] \notin Accounted(partial[w])
    BY ActiveWorker DEF IInv, ClaimInv, Busy
  <1> QED
    BY <1>1, <1>2, <1>3, <1>4, <1>5

\* What stays as it was when only the workers' variables change.
LEMMA WorkersOnly ==
  ASSUME IInv, phase = "scan",
         UNCHANGED <<content, current, named, location, phase, discovered, discoveryErrors, expired,
                     joined, evidence, report>>
  PROVE  ListedInv' /\ WorldInv' /\ ReportInv'
  BY DEF IInv, ListedInv, WorldInv, ReportInv, Marked

\* A worker that ends a file keeps the invariant if its evidence is sound and
\* accounts for no other path.
LEMMA FinishStep ==
  ASSUME IInv, NEW w \in Workers, Busy(w), NEW e \in Evidence, Sound(e, content, current),
         Accounted(e) \subseteq Accounted(partial[w]) \cup {path[w]}, Finish(w, e)
  PROVE  IInv'
  <1>1. /\ partial' = [partial EXCEPT ![w] = e] /\ path' = [path EXCEPT ![w] = Nothing]
        /\ pos' = [pos EXCEPT ![w] = 0] /\ pc' = [pc EXCEPT ![w] = "check"]
        /\ UNCHANGED <<content, current, named, location, phase, discovered, discoveryErrors, expired,
                       unclaimed, joined, evidence, report>>
    BY DEF Finish, Advance, world, discovery, mergeVars
  <1>2. phase = "scan" /\ w \notin 1..joined /\ w \in Holders /\ w # 0 /\ Part(w) = partial[w]
    BY ActiveWorker DEF Busy
  <1>3. /\ \A v \in Holders \ {w} : Part(v)' = Part(v)
        /\ Part(w)' = e
    BY <1>1, <1>2 DEF IInv, TypeOK, Part, Holders, Workers
  <1>4. /\ pc'[w] = "check" /\ pos'[w] = 0
        /\ \A u \in Workers \ {w} : pc'[u] = pc[u] /\ pos'[u] = pos[u] /\ path'[u] = path[u]
    BY <1>1 DEF IInv, TypeOK
  <1>5. TypeOK'
    BY <1>1 DEF IInv, TypeOK
  <1>6. PhaseInv'
    BY <1>1, <1>2, <1>4 DEF IInv, PhaseInv, TypeOK, Workers
  <1>7. ListedInv' /\ WorldInv' /\ ReportInv'
    BY <1>1, <1>2, WorkersOnly
  <1>8. ReadInv'
    BY <1>1, <1>4 DEF IInv, ReadInv, Size, Kind
  <1>9. EvidenceInv'
    BY <1>1, <1>3 DEF IInv, EvidenceInv
  <1>10. ClaimInv'
    <2>1. \A v \in Holders : Accounted(Part(v)') \subseteq discovered \ unclaimed
      BY <1>2, <1>3 DEF IInv, ClaimInv
    <2>2. \A v \in Holders \ {w} : Accounted(Part(v)') \cap Accounted(Part(w)') = {}
      BY <1>2, <1>3 DEF IInv, ClaimInv
    <2>3. \A u, v \in Holders : u # v => Accounted(Part(u)') \cap Accounted(Part(v)') = {}
      BY <1>3, <2>2 DEF IInv, ClaimInv
    <2>4. \A u \in Workers : Busy(u)' => u # w /\ Busy(u) /\ path'[u] = path[u]
      BY <1>4 DEF Busy
    <2>5. \A u \in Workers : Busy(u)' => \A v \in Holders : path'[u] \notin Accounted(Part(v)')
      BY <1>2, <1>3, <2>4 DEF IInv, ClaimInv
    <2> QED
      BY <1>1, <2>1, <2>3, <2>4, <2>5 DEF IInv, ClaimInv
  <1> QED
    BY <1>5, <1>6, <1>7, <1>8, <1>9, <1>10 DEF IInv

\* What stays as it was when no evidence changes.
LEMMA SameEvidence ==
  ASSUME IInv, UNCHANGED <<content, current, partial, evidence>>
  PROVE  EvidenceInv' /\ \A v \in Holders : Part(v)' = Part(v)
  <1>1. \A v \in Holders : Part(v)' = Part(v)
    BY DEF Part
  <1> QED
    BY <1>1 DEF IInv, EvidenceInv

\* Listing: a rollout is listed, or counted as an error, unless it was listed in
\* the other directory.
LEMMA ListStep ==
  ASSUME IInv, NEW root, NEW next, List(root, next),
         \/ root = "sessions" /\ next = "archived_sessions"
         \/ root = "archived_sessions" /\ next = "start"
  PROVE  IInv'
  <1> DEFINE here == {r \in Rollouts : location[r] = root}
  <1>1. PICK missed \in SUBSET here :
          /\ discovered' = discovered \cup ({root} \X (here \ missed))
          /\ discoveryErrors' = discoveryErrors + Cardinality(missed)
    BY DEF List
  <1>2. /\ phase = root /\ phase' = next
        /\ UNCHANGED <<content, current, named, location, expired, unclaimed, pc, path, pos, partial,
                       joined, evidence, report>>
    BY DEF List, world, workerVars, mergeVars
  <1>3. IsFiniteSet(missed) /\ Cardinality(missed) \in Nat
    <2>1. missed \subseteq Rollouts
      OBVIOUS
    <2>2. IsFiniteSet(missed)
      BY <2>1, ScanAssumption, FS_Subset
    <2> QED
      BY <2>2, FS_CardinalityType
  <1>4. discovered' \subseteq Paths /\ discoveryErrors' \in Nat /\ discovered \subseteq discovered'
    <2>1. {root} \X (here \ missed) \subseteq Paths
      BY DEF Paths, Roots
    <2>2. discovered \in SUBSET Paths /\ discoveryErrors \in Nat
      BY DEF IInv, TypeOK
    <2> QED
      BY <1>1, <1>3, <2>1, <2>2
  <1>5. TypeOK'
    BY <1>2, <1>4 DEF IInv, TypeOK
  <1>6. /\ \A w \in Workers : pc[w] = "unborn" /\ partial[w] = NoEvidence
        /\ unclaimed = {} /\ joined = 0 /\ evidence = NoEvidence /\ report = Nothing
    BY <1>2 DEF IInv, PhaseInv
  <1>7. PhaseInv'
    BY <1>2, <1>6 DEF PhaseInv
  <1>8. ListedInv'
    <2> SUFFICES ASSUME discoveryErrors' = 0
                 PROVE  /\ phase' = "archived_sessions" =>
                             \A r \in Rollouts : location[r] = "sessions"
                                                   => <<"sessions", r>> \in discovered'
                        /\ phase' \in {"start", "scan", "reported"} =>
                             \A r \in Rollouts : \E p \in discovered' : Id(p) = r
      BY <1>2 DEF ListedInv
    <2>1. discoveryErrors = 0 /\ Cardinality(missed) = 0
      BY <1>1, <1>3 DEF IInv, TypeOK
    <2>2. missed = {}
      BY <1>3, <2>1, FS_EmptySet
    <2>3. \A r \in Rollouts : location[r] = root => <<root, r>> \in discovered'
      BY <1>1, <2>2
    <2>4. CASE root = "sessions"
      BY <1>2, <2>3, <2>4
    <2>5. CASE root = "archived_sessions"
      <3> SUFFICES ASSUME NEW r \in Rollouts PROVE \E p \in discovered' : Id(p) = r
        BY <1>2, <2>5
      <3>1. location[r] \in Roots
        BY DEF IInv, TypeOK
      <3>2. location[r] = "sessions" => <<"sessions", r>> \in discovered'
        BY <1>2, <1>4, <2>1, <2>5 DEF IInv, ListedInv
      <3>3. <<"sessions", r>> \in discovered' \/ <<"archived_sessions", r>> \in discovered'
        BY <2>3, <2>5, <3>1, <3>2 DEF Roots
      <3>4. Id(<<"sessions", r>>) = r /\ Id(<<"archived_sessions", r>>) = r
        BY DEF Id
      <3> QED
        BY <3>3, <3>4
    <2> QED
      BY <2>4, <2>5
  <1>9. EvidenceInv' /\ \A v \in Holders : Part(v)' = Part(v)
    BY <1>2, SameEvidence
  <1>10. \A v \in Holders : Accounted(Part(v)) = {}
    BY <1>6, NoEvidenceIsSound DEF Part, Holders, Workers
  <1>11. ClaimInv'
    BY <1>2, <1>6, <1>9, <1>10 DEF ClaimInv, Busy
  <1>12. ReadInv'
    BY <1>2 DEF IInv, ReadInv, Size, Kind
  <1>13. WorldInv' /\ ReportInv'
    BY <1>2 DEF IInv, WorldInv, Marked, ReportInv
  <1> QED
    BY <1>5, <1>7, <1>8, <1>9, <1>11, <1>12, <1>13 DEF IInv

\* The spawn: what is set aside is of the current task, and the rest is unclaimed.
LEMMA StartStep ==
  ASSUME IInv, StartScan
  PROVE  IInv'
  <1> DEFINE setAside == {p \in discovered : Id(p) \in named}
  <1>1. /\ phase = "start" /\ phase' = "scan"
        /\ evidence' = [evidence EXCEPT !.excluded = setAside]
        /\ unclaimed' = discovered \ setAside
        /\ \A w \in Workers : pc'[w] \in {"check", "done"}
        /\ pc' \in [Workers -> {"check", "done"}]
        /\ UNCHANGED <<content, current, named, location, discovered, discoveryErrors, expired,
                       path, pos, partial, joined, report>>
    BY DEF StartScan, world, discovery
  <1>2. /\ \A w \in Workers : pc[w] = "unborn" /\ partial[w] = NoEvidence
        /\ joined = 0 /\ evidence = NoEvidence /\ report = Nothing
    BY <1>1 DEF IInv, PhaseInv
  <1>3. discovered \subseteq Paths /\ setAside \subseteq Paths /\ \A p \in setAside : Id(p) \in current
    BY DEF IInv, TypeOK
  <1>4. evidence' = [scanned |-> {}, excluded |-> setAside, unreadable |-> {}, bad |-> {}, uses |-> {},
                     firsts |-> {}, times |-> {}, truncated |-> FALSE]
    BY <1>1, <1>2 DEF NoEvidence
  <1>5. /\ evidence' \in Evidence /\ Accounted(evidence') = setAside
        /\ Sound(evidence', content, current)
    <2>1. evidence' \in Evidence /\ Accounted(evidence') = setAside
      BY <1>3, <1>4 DEF Evidence, Accounted
    <2>2. Sound(evidence', content, current)
      BY <1>3, <1>4, FS_EmptySet DEF Sound, OneHeading
    <2> QED
      BY <2>1, <2>2
  <1>6. /\ \A w \in Workers : w # 0 /\ Part(w)' = NoEvidence
        /\ Part(0)' = evidence'
    BY <1>1, <1>2 DEF Part, Workers
  <1>7. \A v \in Holders : v = 0 \/ v \in Workers
    BY ScanAssumption DEF Holders, Workers
  <1>8. TypeOK'
    <2>1. pc' \in [Workers -> {"unborn", "check", "claim", "open", "read", "done", "panicked"}]
      BY <1>1
    <2> QED
      BY <1>1, <1>3, <1>5, <2>1 DEF IInv, TypeOK
  <1>9. PhaseInv'
    BY <1>1, <1>2 DEF PhaseInv
  <1>10. ListedInv' /\ WorldInv' /\ ReportInv'
    BY <1>1 DEF IInv, ListedInv, WorldInv, Marked, ReportInv
  <1>11. EvidenceInv'
    BY <1>1, <1>5, <1>6, <1>7, NoEvidenceIsSound DEF EvidenceInv
  <1>12. ClaimInv'
    <2>1. \A w \in Workers : ~Busy(w)'
      BY <1>1 DEF Busy
    <2>2. \A v \in Holders : Accounted(Part(v)') \subseteq setAside /\ (v # 0 => Accounted(Part(v)') = {})
      BY <1>5, <1>6, <1>7, NoEvidenceIsSound
    <2>3. \A v, w \in Holders : v # w => Accounted(Part(v)') \cap Accounted(Part(w)') = {}
      BY <2>2
    <2> HIDE DEF setAside
    <2>4. unclaimed' \subseteq discovered' /\ \A v \in Holders : Accounted(Part(v)') \subseteq discovered' \ unclaimed'
      <3>1. setAside \subseteq discovered
        BY DEF setAside
      <3> QED
        BY <1>1, <2>2, <3>1
    <2>5. \A p \in unclaimed' : Id(p) \notin named'
      BY <1>1 DEF setAside
    <2> QED
      BY <2>1, <2>3, <2>4, <2>5 DEF ClaimInv
  <1>13. ReadInv'
    BY <1>1, <1>2 DEF IInv, ReadInv
  <1> QED
    BY <1>8, <1>9, <1>10, <1>11, <1>12, <1>13 DEF IInv

\* What a step of one worker leaves alone.
Untouched ==
  <<content, current, named, location, phase, discovered, discoveryErrors, expired, joined, evidence,
    report>>

LEMMA CheckDeadlineStep ==
  ASSUME IInv, NEW w \in Workers, CheckDeadline(w)
  PROVE  IInv'
  <1>1. /\ pc[w] = "check" /\ pc' = [pc EXCEPT ![w] = IF expired THEN "done" ELSE "claim"]
        /\ UNCHANGED <<Untouched, unclaimed, path, pos, partial>>
    BY DEF CheckDeadline, Advance, world, discovery, mergeVars, Untouched
  <1>2. phase = "scan" /\ w \notin 1..joined
    BY <1>1, ActiveWorker
  <1>3. pc'[w] \in {"done", "claim"} /\ \A u \in Workers \ {w} : pc'[u] = pc[u]
    BY <1>1 DEF IInv, TypeOK
  <1>4. TypeOK'
    BY <1>1 DEF IInv, TypeOK, Untouched
  <1>5. PhaseInv'
    BY <1>1, <1>2, <1>3 DEF IInv, PhaseInv, TypeOK, Workers, Untouched
  <1>6. ListedInv' /\ WorldInv' /\ ReportInv'
    BY <1>1, <1>2, WorkersOnly DEF Untouched
  <1>7. EvidenceInv' /\ \A v \in Holders : Part(v)' = Part(v)
    BY <1>1, SameEvidence DEF Untouched
  <1>8. \A u \in Workers : Busy(u)' => Busy(u)
    BY <1>3 DEF Busy
  <1>9. ClaimInv'
    BY <1>1, <1>7, <1>8 DEF IInv, ClaimInv, Untouched
  <1>10. ReadInv'
    BY <1>1, <1>3 DEF IInv, ReadInv, Size, Kind, Untouched
  <1> QED
    BY <1>4, <1>5, <1>6, <1>7, <1>9, <1>10 DEF IInv

\* A claimed path leaves the unclaimed ones in the same step.
LEMMA ClaimStep ==
  ASSUME IInv, NEW w \in Workers, Claim(w)
  PROVE  IInv'
  <1>1. /\ pc[w] = "claim" /\ UNCHANGED <<Untouched, pos, partial>>
        /\ \/ pc' = [pc EXCEPT ![w] = "done"] /\ UNCHANGED <<unclaimed, path>>
           \/ /\ unclaimed # {} /\ pc' = [pc EXCEPT ![w] = "open"]
              /\ path' = [path EXCEPT ![w] = Newest(unclaimed)]
              /\ unclaimed' = unclaimed \ {Newest(unclaimed)}
    BY DEF Claim, Advance, world, discovery, mergeVars, Untouched
  <1>2. phase = "scan" /\ w \notin 1..joined
    BY <1>1, ActiveWorker
  <1>3. pc'[w] \in {"done", "open"} /\ \A u \in Workers \ {w} : pc'[u] = pc[u] /\ path'[u] = path[u]
    BY <1>1 DEF IInv, TypeOK
  <1>4. ListedInv' /\ WorldInv' /\ ReportInv'
    BY <1>1, <1>2, WorkersOnly DEF Untouched
  <1>5. EvidenceInv' /\ \A v \in Holders : Part(v)' = Part(v)
    BY <1>1, SameEvidence DEF Untouched
  <1>6. PhaseInv'
    <2>1. UNCHANGED <<phase, joined, report>>
      BY <1>1 DEF Untouched
    <2>2. \A u \in 1..joined : u \in Workers /\ u # w
      BY <1>2, ScanAssumption DEF IInv, TypeOK, Workers
    <2>3. \A u \in 1..joined : pc'[u] = pc[u]
      BY <1>3, <2>2
    <2> QED
      BY <1>2, <2>1, <2>3 DEF IInv, PhaseInv
  <1>7. ReadInv'
    BY <1>1, <1>3 DEF IInv, ReadInv, Size, Kind, Untouched
  <1>8. unclaimed \in SUBSET Paths
    BY DEF IInv, TypeOK
  <1>9. CASE pc' = [pc EXCEPT ![w] = "done"] /\ UNCHANGED <<unclaimed, path>>
    <2>1. TypeOK'
      BY <1>1, <1>9 DEF IInv, TypeOK, Untouched
    <2>2. \A u \in Workers : Busy(u)' => Busy(u)
      BY <1>3, <1>9 DEF Busy, IInv, TypeOK
    <2>3. ClaimInv'
      BY <1>1, <1>5, <1>9, <2>2 DEF IInv, ClaimInv, Untouched
    <2> QED
      BY <1>4, <1>5, <1>6, <1>7, <2>1, <2>3 DEF IInv
  <1>10. ASSUME unclaimed # {}, pc' = [pc EXCEPT ![w] = "open"],
                path' = [path EXCEPT ![w] = Newest(unclaimed)],
                unclaimed' = unclaimed \ {Newest(unclaimed)}
         PROVE  IInv'
    <2> DEFINE p == Newest(unclaimed)
    <2>1. p \in unclaimed /\ p \in Paths
      BY <1>8, <1>10, NewestIsThere
    <2>2. path'[w] = p /\ unclaimed' = unclaimed \ {p}
      BY <1>10 DEF IInv, TypeOK
    <2>3. TypeOK'
      BY <1>1, <1>10, <2>1 DEF IInv, TypeOK, Untouched
    <2> HIDE DEF p
    <2>4. \A u \in Workers \ {w} : Busy(u)' => Busy(u)
      BY <1>3 DEF Busy
    <2>5. p \in discovered \ unclaimed' /\ Id(p) \notin named
      BY <2>1, <2>2 DEF IInv, ClaimInv
    <2>6. \A v \in Holders : p \notin Accounted(Part(v))
      BY <2>1 DEF IInv, ClaimInv
    <2>7. \A u \in Workers \ {w} : Busy(u) => path[u] # p
      BY <2>1 DEF IInv, ClaimInv
    <2>8. \A u \in Workers : Busy(u)' => path'[u] \in discovered \ unclaimed' /\ Id(path'[u]) \notin named
      BY <1>3, <2>2, <2>4, <2>5 DEF IInv, ClaimInv
    <2>9. \A u \in Workers : Busy(u)' => \A v \in Holders : path'[u] \notin Accounted(Part(v))
      BY <1>3, <2>2, <2>4, <2>6 DEF IInv, ClaimInv
    <2>10. \A u, v \in Workers : u # v /\ Busy(u)' /\ Busy(v)' => path'[u] # path'[v]
      BY <1>3, <2>2, <2>4, <2>7 DEF IInv, ClaimInv
    <2>11. /\ unclaimed' \subseteq discovered /\ \A q \in unclaimed' : Id(q) \notin named
           /\ \A v \in Holders : Accounted(Part(v)) \subseteq discovered \ unclaimed'
           /\ \A u, v \in Holders : u # v => Accounted(Part(u)) \cap Accounted(Part(v)) = {}
      BY <2>2 DEF IInv, ClaimInv
    <2>12. ClaimInv'
      BY <1>1, <1>5, <2>8, <2>9, <2>10, <2>11 DEF ClaimInv, Untouched
    <2> QED
      BY <1>4, <1>5, <1>6, <1>7, <2>3, <2>12 DEF IInv
  <1> QED
    BY <1>1, <1>9, <1>10

LEMMA OpenStep ==
  ASSUME IInv, NEW w \in Workers, Open(w)
  PROVE  IInv'
  <1>1. /\ pc[w] = "open" /\ pc' = [pc EXCEPT ![w] = "read"]
        /\ UNCHANGED <<Untouched, unclaimed, path, pos, partial>>
    BY DEF Open, Advance, world, discovery, mergeVars, Untouched
  <1>2. phase = "scan" /\ w \notin 1..joined
    BY <1>1, ActiveWorker
  <1>3. pc'[w] = "read" /\ \A u \in Workers \ {w} : pc'[u] = pc[u]
    BY <1>1 DEF IInv, TypeOK
  <1>4. TypeOK'
    BY <1>1 DEF IInv, TypeOK, Untouched
  <1>5. PhaseInv'
    BY <1>1, <1>2, <1>3 DEF IInv, PhaseInv, TypeOK, Workers, Untouched
  <1>6. ListedInv' /\ WorldInv' /\ ReportInv'
    BY <1>1, <1>2, WorkersOnly DEF Untouched
  <1>7. EvidenceInv' /\ \A v \in Holders : Part(v)' = Part(v)
    BY <1>1, SameEvidence DEF Untouched
  <1>8. \A u \in Workers : Busy(u)' => Busy(u)
    BY <1>1, <1>3 DEF Busy
  <1>9. ClaimInv'
    BY <1>1, <1>7, <1>8 DEF IInv, ClaimInv, Untouched
  <1>10. ReadInv'
    <2>1. pos'[w] = 0 /\ 0 \in 0..Size(path[w])
      <3>1. Size(path[w]) \in Nat
        BY <1>1, BusyWorker DEF Busy
      <3>2. pos[w] = 0
        BY <1>1 DEF IInv, ReadInv
      <3> QED
        BY <1>1, <3>1, <3>2
    <2>2. \A i \in 1..pos'[w] : FALSE
      BY <2>1
    <2> QED
      BY <1>1, <1>3, <2>1, <2>2 DEF IInv, ReadInv, Size, Kind, Untouched
  <1> QED
    BY <1>4, <1>5, <1>6, <1>7, <1>9, <1>10 DEF IInv

\* A record that is not the session_meta of the current task is passed.
LEMMA ReadRecordStep ==
  ASSUME IInv, NEW w \in Workers, ReadRecord(w)
  PROVE  IInv'
  <1>1. /\ pc[w] = "read" /\ pos[w] < Len(content[Id(path[w])]) /\ ~NamesCurrent(w)
        /\ pos' = [pos EXCEPT ![w] = pos[w] + 1]
        /\ UNCHANGED <<Untouched, unclaimed, pc, path, partial>>
    BY DEF ReadRecord, world, discovery, mergeVars, Untouched
  <1>2. phase = "scan"
    BY <1>1, ActiveWorker
  <1>3. pos'[w] = pos[w] + 1 /\ \A u \in Workers \ {w} : pos'[u] = pos[u]
    BY <1>1 DEF IInv, TypeOK
  <1>4. TypeOK'
    <2>1. pos' \in [Workers -> Nat]
      BY <1>1 DEF IInv, TypeOK
    <2> QED
      BY <1>1, <2>1 DEF IInv, TypeOK, Untouched
  <1>5. PhaseInv'
    BY <1>1, <1>2 DEF IInv, PhaseInv, Untouched
  <1>6. ListedInv' /\ WorldInv' /\ ReportInv'
    BY <1>1, <1>2, WorkersOnly DEF Untouched
  <1>7. EvidenceInv' /\ \A v \in Holders : Part(v)' = Part(v)
    BY <1>1, SameEvidence DEF Untouched
  <1>8. ClaimInv'
    BY <1>1, <1>7 DEF IInv, ClaimInv, Busy, Untouched
  <1>9. ReadInv'
    <2>1. /\ Size(path[w]) = Len(content[Id(path[w])]) /\ Size(path[w]) \in Nat
          /\ pos[w] \in 0..Size(path[w])
      BY <1>1, BusyWorker DEF Busy
    <2>2. pos'[w] \in 0..Size(path[w])
      BY <1>1, <1>3, <2>1
    <2>3. Id(path[w]) \in current => Kind(Id(path[w]), pos[w] + 1) # "meta"
      BY <1>1 DEF NamesCurrent, Kind
    <2>4. \A i \in 1..pos'[w] : i \in 1..pos[w] \/ i = pos[w] + 1
      BY <1>3, <2>1
    <2>5. Id(path[w]) \in current => \A i \in 1..pos'[w] : Kind(Id(path[w]), i) # "meta"
      BY <1>1, <2>3, <2>4 DEF IInv, ReadInv
    <2> QED
      BY <1>1, <1>3, <2>2, <2>5 DEF IInv, ReadInv, Size, Kind, Untouched
  <1> QED
    BY <1>4, <1>5, <1>6, <1>7, <1>8, <1>9 DEF IInv

\* A worker that panics takes its evidence with it.
LEMMA PanicStep ==
  ASSUME IInv, NEW w \in Workers, Panic(w)
  PROVE  IInv'
  <1>1. /\ Busy(w) /\ pc' = [pc EXCEPT ![w] = "panicked"] /\ path' = [path EXCEPT ![w] = Nothing]
        /\ pos' = [pos EXCEPT ![w] = 0] /\ partial' = [partial EXCEPT ![w] = NoEvidence]
        /\ UNCHANGED <<Untouched, unclaimed>>
    BY DEF Panic, Advance, world, discovery, mergeVars, Untouched, Busy
  <1>2. phase = "scan" /\ w \notin 1..joined /\ w \in Holders /\ w # 0 /\ Part(w) = partial[w]
    BY <1>1, ActiveWorker DEF Busy
  <1>3. /\ \A v \in Holders \ {w} : Part(v)' = Part(v)
        /\ Part(w)' = NoEvidence
    BY <1>1, <1>2 DEF IInv, TypeOK, Part, Holders, Workers, Untouched
  <1>4. /\ pc'[w] = "panicked" /\ pos'[w] = 0
        /\ \A u \in Workers \ {w} : pc'[u] = pc[u] /\ pos'[u] = pos[u] /\ path'[u] = path[u]
    BY <1>1 DEF IInv, TypeOK
  <1>5. TypeOK'
    <2>1. /\ pc' \in [Workers -> {"unborn", "check", "claim", "open", "read", "done", "panicked"}]
          /\ path' \in [Workers -> Paths \cup {Nothing}] /\ pos' \in [Workers -> Nat]
          /\ partial' \in [Workers -> Evidence]
      BY <1>1, NoEvidenceIsSound DEF IInv, TypeOK
    <2> QED
      BY <1>1, <2>1 DEF IInv, TypeOK, Untouched
  <1>6. PhaseInv'
    BY <1>1, <1>2, <1>4 DEF IInv, PhaseInv, TypeOK, Workers, Untouched
  <1>7. ListedInv' /\ WorldInv' /\ ReportInv'
    BY <1>1, <1>2, WorkersOnly DEF Untouched
  <1>8. ReadInv'
    BY <1>1, <1>4 DEF IInv, ReadInv, Size, Kind, Untouched
  <1>9. EvidenceInv'
    BY <1>1, <1>3, NoEvidenceIsSound DEF IInv, EvidenceInv, Untouched
  <1>10. ClaimInv'
    <2>1. \A v \in Holders : Accounted(Part(v)') \subseteq Accounted(Part(v))
      BY <1>3, NoEvidenceIsSound
    <2>2. \A u \in Workers : Busy(u)' => Busy(u) /\ path'[u] = path[u]
      BY <1>4 DEF Busy
    <2> QED
      BY <1>1, <2>1, <2>2 DEF IInv, ClaimInv, Untouched
  <1> QED
    BY <1>5, <1>6, <1>7, <1>8, <1>9, <1>10 DEF IInv

-----------------------------------------------------------------------------
(* The ends of a file.                                                     *)

LEMMA ScanFailsStep ==
  ASSUME IInv, NEW w \in Workers, ScanFails(w)
  PROVE  IInv'
  <1> DEFINE e == [partial[w] EXCEPT !.unreadable = @ \cup {path[w]}]
  <1>1. Busy(w) /\ Finish(w, e)
    BY DEF ScanFails, Busy
  <1>2. partial[w] \in Evidence /\ Sound(partial[w], content, current)
    BY <1>1, ActiveWorker DEF Busy
  <1>3. path[w] \in Paths /\ path[w] \notin Accounted(partial[w])
    BY <1>1, BusyWorker
  <1>4. /\ e \in Evidence /\ Sound(e, content, current)
        /\ Accounted(e) = Accounted(partial[w]) \cup {path[w]}
    BY <1>2, <1>3, SetAsideIsSound
  <1> HIDE DEF e
  <1> QED
    BY <1>1, <1>4, FinishStep

LEMMA ReadCutStep ==
  ASSUME IInv, NEW w \in Workers, ReadCut(w)
  PROVE  IInv'
  <1> DEFINE e == RecordScan(partial[w], path[w], pos[w], FALSE)
  <1>1. Busy(w) /\ Finish(w, e)
    BY DEF ReadCut, Busy
  <1>2. partial[w] \in Evidence /\ Sound(partial[w], content, current)
    BY <1>1, ActiveWorker DEF Busy
  <1>3. TypeOK /\ path[w] \in Paths /\ pos[w] \in 0..Size(path[w])
    BY <1>1, BusyWorker DEF IInv
  <1>4. e \in Evidence
    BY <1>2, <1>3, RecordScanFields, Zenon
  <1>5. Sound(e, content, current) /\ Accounted(e) = Accounted(partial[w])
    BY <1>2, <1>3, CutIsSound, Zenon
  <1> HIDE DEF e
  <1> QED
    BY <1>1, <1>4, <1>5, FinishStep

\* A file of the current task that is read to its end without its session_meta
\* being met has no records, or a torn one.
LEMMA UnmarkedIsTorn ==
  ASSUME IInv, NEW w \in Workers, pc[w] = "read", pos[w] = Size(path[w]), Id(path[w]) \in current
  PROVE  AllUses(content, Id(path[w])) = {} \/ AllBad(content, path[w]) # {}
  <1> DEFINE p == path[w]
             r == Id(path[w])
             c == content[r]
  <1>1. /\ p \in Paths /\ r \in Rollouts /\ Size(p) = Len(c) /\ Len(c) \in Nat
        /\ r \notin named /\ \A i \in 1..Len(c) : c[i].kind # "meta"
    BY BusyWorker DEF IInv, ClaimInv, ReadInv, Busy, Kind
  <1>2. c \in Seq(Records) /\ PrefixEvidence[c] = ReadPrefixes(c) /\ DOMAIN c = 1..Len(c)
    BY <1>1, ContentType, LenProperties DEF IInv
  <1>3. Marked(r)
    BY <1>1 DEF IInv, WorldInv
  <1>4. CASE c = << >>
    <2>1. Len(c) = 0
      BY <1>4
    <2>2. ReadPrefixes(c)[Len(c)] = BeforeRecords
      BY <1>2, <2>1, PrefixStep
    <2>3. PrefixEvidence[c][Len(c)].uses = {}
      BY <1>2, <2>2 DEF BeforeRecords
    <2> QED
      BY <2>3 DEF AllUses
  <1>5. CASE c # << >>
    <2>1. PICK i \in 1..Len(c) : c[i].kind \in {"bad", "bad payload"}
      BY <1>1, <1>2, <1>3, <1>5 DEF Marked
    <2>2. PrefixEvidence[c][Len(c)].bad # {}
      BY <1>2, <2>1, TornIsRemembered
    <2>3. PICK k \in PrefixEvidence[c][Len(c)].bad : TRUE
      BY <2>2
    <2>4. <<p, k>> \in AllBad(content, p)
      BY <2>3 DEF AllBad
    <2> QED
      BY <2>4
  <1> QED
    BY <1>4, <1>5

LEMMA ReadEndStep ==
  ASSUME IInv, NEW w \in Workers, ReadEnd(w)
  PROVE  IInv'
  <1> DEFINE e == RecordScan(partial[w], path[w], Size(path[w]), TRUE)
  <1>1. pc[w] = "read" /\ Busy(w) /\ pos[w] = Size(path[w]) /\ Finish(w, e)
    BY BusyWorker DEF ReadEnd, Busy
  <1>2. partial[w] \in Evidence /\ Sound(partial[w], content, current)
    BY <1>1, ActiveWorker DEF Busy
  <1>3. /\ TypeOK /\ path[w] \in Paths /\ Size(path[w]) \in 0..Size(path[w])
        /\ path[w] \notin Accounted(partial[w])
    BY <1>1, BusyWorker DEF IInv
  <1>4. e \in Evidence
    BY <1>2, <1>3, RecordScanFields, Zenon
  <1>5. Id(path[w]) \in current => AllUses(content, Id(path[w])) = {} \/ AllBad(content, path[w]) # {}
    BY <1>1, UnmarkedIsTorn
  <1>6. Sound(e, content, current) /\ Accounted(e) = Accounted(partial[w]) \cup {path[w]}
    BY <1>2, <1>3, <1>5, WholeIsSound, Zenon
  <1> HIDE DEF e
  <1> QED
    BY <1>1, <1>4, <1>6, FinishStep

LEMMA ReadCurrentStep ==
  ASSUME IInv, NEW w \in Workers, ReadCurrent(w)
  PROVE  IInv'
  <1> DEFINE e == [partial[w] EXCEPT !.excluded = @ \cup {path[w]}]
  <1>1. Busy(w) /\ Finish(w, e) /\ Id(path[w]) \in current
    BY DEF ReadCurrent, NamesCurrent, Busy
  <1>2. partial[w] \in Evidence /\ Sound(partial[w], content, current)
    BY <1>1, ActiveWorker DEF Busy
  <1>3. path[w] \in Paths /\ path[w] \notin Accounted(partial[w])
    BY <1>1, BusyWorker
  <1>4. /\ e \in Evidence /\ Sound(e, content, current)
        /\ Accounted(e) = Accounted(partial[w]) \cup {path[w]}
    BY <1>1, <1>2, <1>3, SetAsideIsSound
  <1> HIDE DEF e
  <1> QED
    BY <1>1, <1>4, FinishStep

-----------------------------------------------------------------------------
(* Joining and reporting, and what is around them.                         *)

\* The evidence of a worker is moved to the merged evidence in one step.
LEMMA JoinStep ==
  ASSUME IInv, NEW w \in Workers, Join(w)
  PROVE  IInv'
  <1>1. /\ phase = "scan" /\ joined = w - 1 /\ pc[w] \in {"done", "panicked"} /\ joined' = w
        /\ evidence' = Merge(evidence, partial[w])
        /\ partial' = [partial EXCEPT ![w] = NoEvidence]
        /\ UNCHANGED <<content, current, named, location, phase, discovered, discoveryErrors, expired,
                       unclaimed, pc, path, pos, report>>
    BY DEF Join, world, discovery
  <1>2. /\ w \in Holders /\ w # 0 /\ 0 \in Holders /\ Part(w) = partial[w] /\ Part(0) = evidence
        /\ w \in Nat /\ w <= WorkerLimit /\ WorkerLimit \in Nat
    BY ScanAssumption DEF Holders, Workers, Part
  <1>3. /\ evidence \in Evidence /\ partial[w] \in Evidence
        /\ Sound(evidence, content, current) /\ Sound(partial[w], content, current)
        /\ Accounted(evidence) \cap Accounted(partial[w]) = {}
    BY <1>2 DEF IInv, TypeOK, EvidenceInv, ClaimInv
  <1>4. /\ evidence' \in Evidence /\ Sound(evidence', content, current)
        /\ Accounted(evidence') = Accounted(evidence) \cup Accounted(partial[w])
    BY <1>1, <1>3, MergeType, MergeSound
  <1>5. /\ \A v \in Holders \ {0, w} : Part(v)' = Part(v)
        /\ Part(w)' = NoEvidence /\ Part(0)' = evidence'
    <2>1. \A v \in Holders \ {0, w} : v \in Workers /\ partial'[v] = partial[v]
      BY <1>1 DEF IInv, TypeOK, Holders, Workers
    <2>2. partial'[w] = NoEvidence
      BY <1>1 DEF IInv, TypeOK
    <2> QED
      BY <1>2, <2>1, <2>2 DEF Part
  <1>6. TypeOK'
    <2>1. partial' \in [Workers -> Evidence]
      BY <1>1, NoEvidenceIsSound DEF IInv, TypeOK
    <2>2. joined' \in 0..WorkerLimit
      BY <1>1, <1>2
    <2> QED
      BY <1>1, <1>4, <2>1, <2>2 DEF IInv, TypeOK
  <1>7. PhaseInv'
    <2>1. \A v \in 1..w : v \in 1..(w - 1) \/ v = w
      BY <1>2
    <2>2. \A v \in 1..joined' : pc'[v] \in {"done", "panicked"}
      BY <1>1, <2>1 DEF IInv, PhaseInv
    <2>3. phase' = "scan" /\ report' = Nothing
      BY <1>1 DEF IInv, PhaseInv
    <2> QED
      BY <2>2, <2>3 DEF PhaseInv
  <1>8. ListedInv' /\ WorldInv' /\ ReportInv'
    BY <1>1 DEF IInv, ListedInv, WorldInv, Marked, ReportInv
  <1>9. ReadInv'
    BY <1>1 DEF IInv, ReadInv, Size, Kind
  <1>10. EvidenceInv'
    <2>1. \A v \in Holders : Sound(Part(v)', content, current)
      BY <1>4, <1>5, NoEvidenceIsSound DEF IInv, EvidenceInv
    <2> QED
      BY <1>1, <2>1 DEF EvidenceInv
  <1>11. ClaimInv'
    <2>1. \A v \in Holders : v = 0 \/ Accounted(Part(v)') \subseteq Accounted(Part(v))
      BY <1>5, NoEvidenceIsSound
    <2>2. /\ Accounted(Part(0)') = Accounted(Part(0)) \cup Accounted(Part(w))
          /\ Accounted(Part(w)') = {}
      BY <1>2, <1>4, <1>5, NoEvidenceIsSound
    <2>3. \A v \in Holders : Accounted(Part(v)') \subseteq discovered \ unclaimed
      BY <1>2, <2>1, <2>2 DEF IInv, ClaimInv
    <2>4. \A v \in Holders \ {0} : Accounted(Part(0)') \cap Accounted(Part(v)') = {}
      <3> SUFFICES ASSUME NEW v \in Holders \ {0}
                   PROVE  Accounted(Part(0)') \cap Accounted(Part(v)') = {}
        OBVIOUS
      <3>1. CASE v = w
        BY <2>2, <3>1
      <3>2. CASE v # w
        BY <1>2, <2>1, <2>2, <3>2 DEF IInv, ClaimInv
      <3> QED
        BY <3>1, <3>2
    <2>5. \A u, v \in Holders : u # v => Accounted(Part(u)') \cap Accounted(Part(v)') = {}
      BY <2>1, <2>4 DEF IInv, ClaimInv
    <2>6. \A u \in Workers : Busy(u) => \A v \in Holders : path[u] \notin Accounted(Part(v)')
      BY <1>2, <2>1, <2>2 DEF IInv, ClaimInv
    <2>7. \A u \in Workers : Busy(u)' = Busy(u)
      BY <1>1 DEF Busy
    <2> QED
      BY <1>1, <2>3, <2>5, <2>6, <2>7 DEF IInv, ClaimInv
  <1> QED
    BY <1>6, <1>7, <1>8, <1>9, <1>10, <1>11 DEF IInv

LEMMA ReportStep ==
  ASSUME IInv, Report
  PROVE  IInv'
  <1>1. /\ phase = "scan" /\ joined = WorkerLimit /\ phase' = "reported"
        /\ UNCHANGED <<content, current, named, location, discovered, discoveryErrors, expired,
                       unclaimed, pc, path, pos, partial, joined, evidence>>
    BY DEF Report, world, discovery, workerVars, mergeVars
  <1>2. PICK n \in CatalogErrors : report' = ReportOf(n)
    BY DEF Report, ReportOf
  <1>3. ReportOf(n)' = ReportOf(n)
    BY <1>1 DEF ReportOf, Counters
  <1>4. ReportInv'
    BY <1>2, <1>3 DEF ReportInv
  <1>5. TypeOK'
    BY <1>1 DEF IInv, TypeOK
  <1>6. PhaseInv' /\ ListedInv' /\ WorldInv'
    BY <1>1 DEF IInv, PhaseInv, ListedInv, WorldInv, Marked
  <1>7. EvidenceInv' /\ \A v \in Holders : Part(v)' = Part(v)
    BY <1>1, SameEvidence
  <1>8. ClaimInv' /\ ReadInv'
    BY <1>1, <1>7 DEF IInv, ClaimInv, ReadInv, Size, Kind, Busy
  <1> QED
    BY <1>4, <1>5, <1>6, <1>7, <1>8 DEF IInv

\* What is around the scan: the deadline passes, a rollout is archived.
LEMMA EnvironmentStep ==
  ASSUME IInv, Expire \/ (\E r \in Rollouts : Archive(r)) \/ UNCHANGED vars
  PROVE  IInv'
  <1>1. /\ UNCHANGED <<content, current, named, phase, discovered, discoveryErrors, unclaimed, pc, path,
                       pos, partial, joined, evidence, report>>
        /\ expired' \in {expired, TRUE}
    BY DEF Expire, Archive, vars, world, discovery, workerVars, mergeVars
  <1>2. /\ location' \in [Rollouts -> Roots]
        /\ \A r \in Rollouts : location'[r] = "sessions" => location[r] = "sessions"
    <2>1. CASE UNCHANGED location
      BY <2>1 DEF IInv, TypeOK
    <2>2. ASSUME NEW r \in Rollouts, location' = [location EXCEPT ![r] = "archived_sessions"]
          PROVE  <1>2
      BY <2>2 DEF IInv, TypeOK, Roots
    <2>3. UNCHANGED location \/ \E r \in Rollouts : location' = [location EXCEPT ![r] = "archived_sessions"]
      BY DEF Expire, Archive, vars
    <2> QED
      BY <2>1, <2>2, <2>3
  <1>3. TypeOK'
    BY <1>1, <1>2 DEF IInv, TypeOK
  <1>4. PhaseInv' /\ WorldInv'
    BY <1>1 DEF IInv, PhaseInv, WorldInv, Marked
  <1>5. ListedInv'
    BY <1>1, <1>2 DEF IInv, ListedInv
  <1>6. EvidenceInv' /\ \A v \in Holders : Part(v)' = Part(v)
    BY <1>1, SameEvidence
  <1>7. ClaimInv' /\ ReadInv'
    BY <1>1, <1>6 DEF IInv, ClaimInv, ReadInv, Size, Kind, Busy
  <1>8. ReportInv'
    <2>1. \A n \in CatalogErrors : ReportOf(n)' = ReportOf(n)
      BY <1>1 DEF ReportOf, Counters
    <2> QED
      BY <1>1, <2>1 DEF IInv, ReportInv
  <1> QED
    BY <1>3, <1>4, <1>5, <1>6, <1>7, <1>8 DEF IInv

LEMMA NextIInv == IInv /\ [Next]_vars => IInv'
  <1> SUFFICES ASSUME IInv, [Next]_vars PROVE IInv'
    OBVIOUS
  <1>1. CASE ListSessions \/ ListArchived
    BY <1>1, ListStep DEF ListSessions, ListArchived
  <1>2. CASE StartScan
    BY <1>2, StartStep
  <1>3. CASE \E w \in Workers : Join(w)
    BY <1>3, JoinStep
  <1>4. CASE Report
    BY <1>4, ReportStep
  <1>5. ASSUME NEW w \in Workers, Worker(w) PROVE IInv'
    BY <1>5, CheckDeadlineStep, ClaimStep, OpenStep, ScanFailsStep, ReadCutStep, ReadEndStep,
       ReadCurrentStep, ReadRecordStep DEF Worker
  <1>6. CASE \E w \in Workers : Panic(w)
    BY <1>6, PanicStep
  <1>7. CASE Expire \/ (\E r \in Rollouts : Archive(r)) \/ UNCHANGED vars
    BY <1>7, EnvironmentStep
  <1> QED
    BY <1>1, <1>2, <1>3, <1>4, <1>5, <1>6, <1>7 DEF Next, Main

LEMMA SpecIInv == Spec => []IInv
  BY InitIInv, NextIInv, PTL DEF Spec

-----------------------------------------------------------------------------
(* What a report says.                                                     *)

\* The bookkeeping of the scan is of its type.
THEOREM TypeCorrect == Spec => []TypeOK
  <1>1. IInv => TypeOK
    BY DEF IInv
  <1> QED
    BY <1>1, SpecIInv, PTL

\* No path is accounted for twice, by two workers or under two headings:
\* merge_partial may add the counters of the workers.
THEOREM NothingCountedTwice == Spec => []PartialsDisjoint
  <1>1. ASSUME IInv PROVE PartialsDisjoint
    <2> DEFINE e == [w \in 0..WorkerLimit |-> IF w = 0 THEN evidence ELSE partial[w]]
               live == {0} \cup {w \in Workers : w > joined}
    <2>1. \A v \in live : v \in Holders /\ e[v] = Part(v)
      BY ScanAssumption DEF Holders, Part, Workers
    <2>2. \A v, w \in live : v # w => Accounted(e[v]) \cap Accounted(e[w]) = {}
      BY <1>1, <2>1 DEF IInv, ClaimInv
    <2>3. \A v \in live : OneHeading(e[v])
      BY <1>1, <2>1 DEF IInv, EvidenceInv, Sound
    <2> HIDE DEF e, live
    <2>4. \A w \in live, i, j \in 1..3 : i # j => Headings(e[w])[i] \cap Headings(e[w])[j] = {}
      <3> SUFFICES ASSUME NEW w \in live, NEW i \in 1..3, NEW j \in 1..3, i # j
                   PROVE  Headings(e[w])[i] \cap Headings(e[w])[j] = {}
        OBVIOUS
      <3>1. /\ Headings(e[w])[1] = e[w].scanned /\ Headings(e[w])[2] = e[w].unreadable
            /\ Headings(e[w])[3] = e[w].excluded
        BY DEF Headings
      <3>2. i \in {1, 2, 3} /\ j \in {1, 2, 3}
        OBVIOUS
      <3> QED
        BY <2>3, <3>1, <3>2 DEF OneHeading
    <2> QED
      BY <2>2, <2>4 DEF e, live, PartialsDisjoint
  <1> QED
    BY <1>1, SpecIInv, PTL

\* Counters that give complete coverage leave nothing out: every listed path was
\* scanned whole or set aside, and no record was torn.
LEMMA CompleteCounters ==
  ASSUME IInv, joined = WorkerLimit, NEW n \in CatalogErrors,
         CoverageStatus(Counters(n)) = "complete"
  PROVE  /\ discoveryErrors = 0 /\ evidence.bad = {} /\ ~evidence.truncated
         /\ discovered = evidence.scanned \cup evidence.excluded
  <1> DEFINE ev == evidence
             c == Counters(n)
  <1>1. /\ ev \in Evidence /\ OneHeading(ev) /\ IsFiniteSet(ev.bad)
        /\ Accounted(ev) \subseteq discovered /\ discoveryErrors \in Nat /\ n \in Nat
    <2>1. 0 \in Holders /\ Part(0) = ev
      BY ScanAssumption DEF Holders, Part
    <2> QED
      BY <2>1, ScanAssumption DEF IInv, TypeOK, EvidenceInv, Sound, ClaimInv
  <1>2. IsFiniteSet(Paths)
    <2>1. IsFiniteSet(Roots)
      <3>1. IsFiniteSet({"sessions"}) /\ IsFiniteSet({"archived_sessions"})
        BY FS_Singleton
      <3>2. IsFiniteSet({"sessions"} \cup {"archived_sessions"})
        BY <3>1, FS_Union
      <3>3. {"sessions"} \cup {"archived_sessions"} = Roots
        BY DEF Roots
      <3> QED
        BY <3>2, <3>3
    <2> QED
      BY <2>1, ScanAssumption, FS_Product DEF Paths
  <1>3. /\ IsFiniteSet(discovered) /\ IsFiniteSet(ev.scanned) /\ IsFiniteSet(ev.excluded)
        /\ IsFiniteSet(ev.unreadable)
    <2>1. /\ discovered \subseteq Paths /\ ev.scanned \subseteq Paths /\ ev.excluded \subseteq Paths
          /\ ev.unreadable \subseteq Paths
      BY <1>1 DEF IInv, TypeOK, Evidence
    <2> QED
      BY <1>2, <2>1, FS_Subset
  <1>4. /\ Cardinality(discovered) \in Nat /\ Cardinality(ev.scanned) \in Nat
        /\ Cardinality(ev.excluded) \in Nat /\ Cardinality(ev.unreadable) \in Nat
        /\ Cardinality(ev.bad) \in Nat
    BY <1>1, <1>3, FS_CardinalityType
  <1>5. /\ c.discovered = Cardinality(discovered) /\ c.excluded = Cardinality(ev.excluded)
        /\ c.unreadable = Cardinality(ev.unreadable) /\ c.discoveryErrors = discoveryErrors
        /\ c.badRecords = Cardinality(ev.bad) /\ c.scanned = Cardinality(ev.scanned)
        /\ ev.truncated => c.truncated
    BY DEF Counters
  <1> HIDE DEF c
  <1>6. /\ ~(c.unreadable > 0) /\ ~(c.discoveryErrors > 0) /\ ~(c.badRecords > 0) /\ ~c.truncated
        /\ c.scanned = IF c.discovered >= c.excluded THEN c.discovered - c.excluded ELSE 0
    BY DEF CoverageStatus, c
  <1>7. /\ Cardinality(ev.unreadable) = 0 /\ discoveryErrors = 0 /\ Cardinality(ev.bad) = 0
        /\ ~ev.truncated
    BY <1>1, <1>4, <1>5, <1>6
  <1>8. ev.bad = {}
    BY <1>1, <1>7, FS_EmptySet
  <1>9. ev.excluded \subseteq discovered /\ ev.scanned \subseteq discovered
        /\ ev.scanned \cap ev.excluded = {}
    BY <1>1 DEF Accounted, OneHeading
  <1>10. Cardinality(ev.excluded) <= Cardinality(discovered)
    BY <1>3, <1>9, FS_Subset
  <1>11. Cardinality(ev.scanned) + Cardinality(ev.excluded) = Cardinality(discovered)
    BY <1>4, <1>5, <1>6, <1>10
  <1>12. Cardinality(ev.scanned \cup ev.excluded) = Cardinality(discovered)
    <2>1. /\ Cardinality(ev.scanned \cup ev.excluded)
                = Cardinality(ev.scanned) + Cardinality(ev.excluded)
                    - Cardinality(ev.scanned \cap ev.excluded)
      BY <1>3, FS_Union
    <2>2. Cardinality(ev.scanned \cap ev.excluded) = 0
      BY <1>9, FS_EmptySet
    <2> QED
      BY <1>4, <1>11, <2>1, <2>2
  <1>13. discovered = ev.scanned \cup ev.excluded
    BY <1>3, <1>9, <1>12, FS_Subset
  <1> QED
    BY <1>7, <1>8, <1>13

\* A report with complete coverage rests on every use of the other tasks and on
\* nothing else.
LEMMA CompleteEvidence ==
  ASSUME IInv, phase \in {"scan", "reported"}, joined = WorkerLimit, NEW n \in CatalogErrors,
         CoverageStatus(Counters(n)) = "complete"
  PROVE  evidence.uses = TrueUses
  <1>1. /\ discoveryErrors = 0 /\ evidence.bad = {} /\ ~evidence.truncated
        /\ discovered = evidence.scanned \cup evidence.excluded
    BY CompleteCounters
  <1>2. Sound(evidence, content, current) /\ evidence \in Evidence
    <2>1. 0 \in Holders /\ Part(0) = evidence
      BY ScanAssumption DEF Holders, Part
    <2> QED
      BY <2>1 DEF IInv, TypeOK, EvidenceInv
  <1>3. TrueUses = UNION {AllUses(content, r) : r \in Rollouts \ current}
    BY DEF TrueUses, UsesIn, AllUses
  <1>4. ASSUME NEW r \in Rollouts \ current PROVE AllUses(content, r) \subseteq evidence.uses
    <2>1. PICK p \in discovered : Id(p) = r
      BY <1>1 DEF IInv, ListedInv
    <2>2. p \in evidence.scanned
      BY <1>1, <1>2, <2>1 DEF Sound
    <2> QED
      BY <1>2, <2>1, <2>2 DEF Sound
  <1>5. ASSUME NEW u \in evidence.uses PROVE u \in TrueUses
    <2>1. PICK p \in evidence.scanned : u \in AllUses(content, Id(p))
      BY <1>1, <1>2 DEF Sound
    <2>2. AllUses(content, Id(p)) # {} /\ AllBad(content, p) = {}
      BY <1>1, <1>2, <2>1 DEF Sound
    <2>3. Id(p) \notin current
      BY <1>2, <2>2 DEF Sound
    <2>4. Id(p) \in Rollouts
      BY <1>2 DEF Evidence, Paths, Id
    <2> QED
      BY <1>3, <2>1, <2>3, <2>4
  <1> QED
    BY <1>3, <1>4, <1>5

\* What a report there is says of one skill, and of its coverage.
LEMMA ReportedItem ==
  ASSUME IInv, report # Nothing, NEW s \in Skills
  PROVE  /\ \/ report.items[s].signal # "unobserved"
            \/ report.status = "complete" /\ Retained({u \in report.uses : u.skill = s}) = {}
         /\ \/ report.verdict # "baseline_ok"
            \/ /\ report.status = "complete"
               /\ Origin[s] \in {"personal", "project"} =>
                    LET kept == Retained({u \in report.uses : u.skill = s})
                    IN  kept # {} /\ AgeDays(ObservedEpoch, LastEpoch(kept)) <= RecentDays
         /\ report.uses = evidence.uses
         /\ report.status = "complete" => report.uses = TrueUses
  <1>1. phase = "reported" /\ joined = WorkerLimit
    BY DEF IInv, PhaseInv
  <1>2. PICK n \in CatalogErrors : report = ReportOf(n)
    BY <1>1 DEF IInv, ReportInv
  <1> DEFINE status == CoverageStatus(Counters(n))
             sufficient == status = "complete"
                             /\ HistoryIsSufficient(ObservedEpoch, evidence.firsts, evidence.times)
             of(x) == {u \in evidence.uses : u.skill = x}
             items == [x \in Skills |-> Item(ObservedEpoch, Origin[x], of(x), sufficient)]
             kept == Retained(of(s))
             signal == Signal(ObservedEpoch, kept, sufficient)
  <1>3. DOMAIN Origin = Skills
    BY ScanAssumption
  <1>4. /\ report.status = status /\ report.items = items /\ report.uses = evidence.uses
        /\ report.verdict = AssessmentVerdict(status, items)
    BY <1>2, <1>3 DEF ReportOf, Assess
  <1>5. /\ report.items[s].signal = signal
        /\ items[s].disposition = CleanupDisposition(Origin[s], signal)
    BY <1>4 DEF Item
  <1>6. of(s) = {u \in report.uses : u.skill = s}
    BY <1>4
  <1> HIDE DEF kept
  <1>7. signal = "unobserved" => kept = {} /\ sufficient
    BY DEF Signal
  <1>8. signal \in Signals /\ (signal = "recent" =>
           kept # {} /\ AgeDays(ObservedEpoch, LastEpoch(kept)) <= RecentDays)
    BY DEF Signal, Signals
  <1>9. status = "complete" => evidence.uses = TrueUses
    BY <1>1, CompleteEvidence
  <1> HIDE DEF signal, sufficient, items, status
  <1>10. report.verdict = "baseline_ok" =>
           status = "complete" /\ \A x \in DOMAIN items : ~IsActionable(items[x].disposition)
    BY <1>4 DEF AssessmentVerdict
  <1>11. s \in DOMAIN items
    BY DEF items
  <1>12. CASE Origin[s] \in {"personal", "project"} /\ report.verdict = "baseline_ok"
    <2>1. ~IsActionable(CleanupDisposition(Origin[s], signal))
      BY <1>5, <1>10, <1>11, <1>12
    <2>2. signal = "recent"
      BY <1>8, <1>12, <2>1 DEF CleanupDisposition, IsActionable, Signals
    <2>3. kept # {} /\ AgeDays(ObservedEpoch, LastEpoch(kept)) <= RecentDays
      BY <1>8, <2>2
    <2> QED
      BY <1>4, <1>5, <1>6, <1>7, <1>9, <1>10, <2>3 DEF kept, sufficient
  <1>13. CASE ~(Origin[s] \in {"personal", "project"} /\ report.verdict = "baseline_ok")
    BY <1>4, <1>5, <1>6, <1>7, <1>9, <1>10, <1>13 DEF kept, sufficient
  <1> QED
    BY <1>12, <1>13

LEMMA EvidenceUses ==
  ASSUME IInv, NEW u \in evidence.uses
  PROVE  u.pos \in Nat /\ u.epoch \in Int
  <1>1. evidence \in Evidence
    BY DEF IInv, TypeOK
  <1>2. evidence.uses \subseteq Uses
    BY <1>1 DEF Evidence
  <1> QED
    BY <1>2 DEF Uses

\* A skill that is reported as unobserved has no use in the retained rollouts of
\* other tasks.
THEOREM CleanupCandidateIsUnused == Spec => []UnobservedIsTrue
  <1>1. ASSUME IInv PROVE UnobservedIsTrue
    <2> SUFFICES ASSUME report # Nothing, NEW s \in Skills, report.items[s].signal = "unobserved",
                        NEW u \in TrueUses, u.skill = s
                 PROVE  FALSE
      BY DEF UnobservedIsTrue
    <2> DEFINE uses == {v \in report.uses : v.skill = s}
    <2>1. report.uses = evidence.uses /\ report.uses = TrueUses /\ Retained(uses) = {}
      BY <1>1, ReportedItem
    <2>2. \A v \in uses : v.pos \in Nat
      BY <1>1, <2>1, EvidenceUses
    <2>3. u \in uses
      BY <2>1
    <2> HIDE DEF uses
    <2>4. uses = {}
      BY <2>1, <2>2, NothingRetained
    <2> QED
      BY <2>3, <2>4
  <1> QED
    BY <1>1, SpecIInv, PTL

\* An age of at most RecentDays whole days is less than one day more in seconds.
LEMMA AgeInSeconds ==
  ASSUME NEW now \in Int, NEW epoch \in Int, AgeDays(now, epoch) <= RecentDays
  PROVE  now - epoch < (RecentDays + 1) * SecondsPerDay
  <1> DEFINE age == IF now > epoch THEN now - epoch ELSE 0
             days == age \div SecondsPerDay
  <1>1. age \in Nat /\ now - epoch <= age /\ SecondsPerDay \in Nat /\ SecondsPerDay > 0
        /\ RecentDays \in Nat
    BY PolicyAssumption
  <1>2. days <= RecentDays
    BY DEF AgeDays
  <1> HIDE DEF age
  <1>3. days \in Int /\ age < (days + 1) * SecondsPerDay
    <2>1. days \in Int /\ age = SecondsPerDay * days + (age % SecondsPerDay)
          /\ age % SecondsPerDay < SecondsPerDay /\ age % SecondsPerDay \in Int
      BY <1>1
    <2> QED
      BY <1>1, <2>1
  <1> HIDE DEF days
  <1>4. (days + 1) * SecondsPerDay <= (RecentDays + 1) * SecondsPerDay
    <2>1. (RecentDays - days) * SecondsPerDay >= 0
      BY <1>1, <1>2, <1>3
    <2> QED
      BY <1>1, <1>3, <2>1
  <1>5. (days + 1) * SecondsPerDay \in Int /\ (RecentDays + 1) * SecondsPerDay \in Int
    BY <1>1, <1>3
  <1> QED
    BY <1>1, <1>3, <1>4, <1>5

\* BASELINE_OK says of each owner-managed skill that it was used recently.
THEOREM BaselineIsRecent == Spec => []BaselineMeansRecentUse
  <1>1. ASSUME IInv PROVE BaselineMeansRecentUse
    <2> SUFFICES ASSUME report # Nothing, report.verdict = "baseline_ok", NEW s \in Skills,
                        Origin[s] \in {"personal", "project"}
                 PROVE  \E u \in TrueUses :
                          /\ u.skill = s
                          /\ ObservedEpoch - u.epoch < (RecentDays + 1) * SecondsPerDay
      BY DEF BaselineMeansRecentUse
    <2> DEFINE uses == {u \in report.uses : u.skill = s}
               kept == Retained(uses)
    <2>1. /\ report.uses = evidence.uses /\ report.uses = TrueUses
          /\ kept # {} /\ AgeDays(ObservedEpoch, LastEpoch(kept)) <= RecentDays
      BY <1>1, ReportedItem
    <2>2. IsFiniteSet(evidence.uses)
      <3>1. 0 \in Holders /\ Part(0) = evidence
        BY ScanAssumption DEF Holders, Part
      <3> QED
        BY <1>1, <3>1 DEF IInv, EvidenceInv, Sound
    <2>3. \A u \in uses : u.epoch \in Int
      BY <1>1, <2>1, EvidenceUses
    <2>4. uses \subseteq evidence.uses /\ \A u \in uses : u \in TrueUses /\ u.skill = s
      BY <2>1
    <2> HIDE DEF uses
    <2>5. kept \subseteq uses
      BY RetainedIsSubset
    <2> HIDE DEF kept
    <2>6. IsFiniteSet(kept) /\ \A u \in kept : u.epoch \in Int
      BY <2>2, <2>3, <2>4, <2>5, FS_Subset
    <2>7. PICK u \in kept : LastEpoch(kept) = u.epoch
      BY <2>1, <2>6, LatestIsAUse
    <2>8. u.epoch \in Int /\ ObservedEpoch \in Int
      BY <2>6, ScanAssumption
    <2>9. ObservedEpoch - u.epoch < (RecentDays + 1) * SecondsPerDay
      BY <2>1, <2>7, <2>8, AgeInSeconds
    <2> QED
      BY <2>1, <2>4, <2>5, <2>7, <2>9
  <1> QED
    BY <1>1, SpecIInv, PTL

\* The scan implements UsageReport: one report, of uses there are, and of all
\* those of other tasks when its coverage is complete.
THEOREM ScanKeepsContract == Spec => KeepsContract
  <1> DEFINE own == UNION {UsesIn(r, Len(content[r])) : r \in current}
             published == IF report = Nothing THEN Nothing
                          ELSE [complete |-> report.status = "complete", uses |-> report.uses]
  <1>1. Init => Contract!Init
    BY DEF Init, Contract!Init
  <1>2. ASSUME IInv, IInv', [Next]_vars PROVE [Contract!Publish]_(Contract!vars)
    <2>1. ASSUME UNCHANGED <<content, current, report>> PROVE UNCHANGED Contract!vars
      BY <2>1 DEF Contract!vars, TrueUses, UsesIn
    <2>2. CASE Report
      <3>1. report = Nothing /\ UNCHANGED <<content, current, evidence>>
        BY <1>2, <2>2 DEF Report, IInv, PhaseInv, world, mergeVars
      <3>2. CASE report' = Nothing
        BY <2>1, <3>1, <3>2
      <3>3. CASE report' # Nothing
        <4>1. /\ report'.uses = evidence.uses
              /\ report'.status = "complete" => report'.uses = TrueUses
          <5>1. PICK n \in CatalogErrors : report' = ReportOf(n)
            BY <2>2 DEF Report, ReportOf
          <5>2. report'.uses = evidence.uses /\ report'.status = CoverageStatus(Counters(n))
            BY <5>1 DEF ReportOf, Assess
          <5>3. phase = "scan" /\ joined = WorkerLimit
            BY <2>2 DEF Report
          <5> QED
            BY <1>2, <5>2, <5>3, CompleteEvidence
        <4>2. evidence.uses \subseteq TrueUses \cup own
          <5>1. 0 \in Holders /\ Part(0) = evidence
            BY ScanAssumption DEF Holders, Part
          <5>2. evidence.uses \subseteq UNION {AllUses(content, r) : r \in Rollouts}
            BY <1>2, <5>1 DEF IInv, EvidenceInv, Sound
          <5>3. \A r \in Rollouts : AllUses(content, r) \subseteq TrueUses \cup own
            BY DEF AllUses, UsesIn, TrueUses
          <5> QED
            BY <5>2, <5>3
        <4>3. TrueUses' = TrueUses /\ own' = own
          BY <3>1 DEF TrueUses, UsesIn
        <4>4. published = Nothing
              /\ published' = [complete |-> report'.status = "complete", uses |-> report'.uses]
          BY <3>1, <3>3
        <4>5. (report'.status = "complete") \in BOOLEAN
          OBVIOUS
        <4>6. Contract!Publish
          BY <4>1, <4>2, <4>3, <4>4, <4>5 DEF Contract!Publish
        <4> QED
          BY <4>6
      <3> QED
        BY <3>2, <3>3
    <2>3. CASE ~Report
      <3>1. UNCHANGED <<content, current, report>>
        BY <1>2, <2>3 DEF Next, Main, ListSessions, ListArchived, List, StartScan, Join, Worker,
           CheckDeadline, Claim, Open, ScanFails, ReadCut, ReadEnd, ReadCurrent, ReadRecord, Finish,
           Panic, Expire, Archive, vars, world
      <3> QED
        BY <2>1, <3>1
    <2> QED
      BY <2>2, <2>3
  <1> QED
    BY <1>1, <1>2, SpecIInv, PTL DEF Spec, KeepsContract, Contract!Spec
=============================================================================
