----------------------- MODULE MaintenanceRows_proofs -----------------------
(***************************************************************************)
(* The calls of Maintenance implement one table of rows (RowTable): for    *)
(* any number of backends, calls, versions, files and rows.                *)
(*                                                                         *)
(* The argument.  A row is in one fragment of a version, and a row that    *)
(* has left the dataset never comes back: appended rows are new, and a     *)
(* rewritten file holds the rows of fragments that Lance finds unchanged   *)
(* when it commits.  So a delete that is prepared against a later version  *)
(* than the one it opened still finds every row it owes that is there.     *)
(*                                                                         *)
(* The second part: what the calls answer is true.  The counts of a report *)
(* are of one version, rows that are marked deleted are the difference of  *)
(* what files hold and what the version shows, and a delete counts the     *)
(* fragments it emptied.                                                   *)
(***************************************************************************)
EXTENDS Maintenance_proofs, MaintenanceRefinement, FiniteSetTheorems

\* The rows that version ver shows.
Shows(ver, f, r) == f \in ver.frags /\ r \in stored[f] /\ <<f, r>> \notin ver.dead
RowsOf(ver) == UNION { {r \in stored[f] : <<f, r>> \notin ver.dead} : f \in ver.frags }

\* Deletion files mark rows of fragments of the version, and no row is in two
\* of its fragments.
Sound(ver) ==
    /\ \A p \in ver.dead : p[1] \in ver.frags /\ p[2] \in stored[p[1]]
    /\ \A f, g \in ver.frags : f # g => stored[f] \intersect stored[g] = {}
VersionsAreSound == \A v \in 1 .. Latest : Sound(log[v])

Appends(b) == pc[b] \in {"open", "run"} /\ call[b].op = "append"

\* What is being appended is in no file but the backend's own, and is not
\* appended by another one.
NewRows(b, R, m) ==
    /\ \A f \in 1 .. Len(stored) : f # m => stored[f] \intersect R = {}
    /\ m # 0 => stored[m] = R
    /\ \A c \in Backend : c # b /\ Appends(c) => call[c].rows \intersect R = {}
AppendsAreNew == \A b \in Backend : Appends(b) => NewRows(b, call[b].rows, mine[b])

\* A rewritten file holds the rows of the fragments it is to replace.
Rewrote(m, v, W) ==
    W \subseteq Frags(v) /\ stored[m] = UNION { Live(v, f) : f \in W }
RewritesKeepRows ==
    \A b \in Backend : mine[b] # 0 /\ call[b].op = "optimize" =>
        Rewrote(mine[b], base[b], work[b])

\* A row that is gone does not come back.
GoneIsGone ==
    \A w \in 1 .. Latest : \A v \in 1 .. w : \A u \in 1 .. v :
        RowsAt(u) \intersect RowsAt(w) \subseteq RowsAt(v)

SeenLater  == \A b \in Backend : base[b] <= seen[b]
Unanswered == \A b \in Backend : pc[b] # "idle" => reply[b] = NoReply

RowsInv ==
    /\ Writing
    /\ VersionsAreSound /\ AppendsAreNew /\ RewritesKeepRows /\ GoneIsGone
    /\ SeenLater /\ Unanswered

-----------------------------------------------------------------------------
(* The log and the files only grow.                                        *)

Grown ==
    /\ Latest' \in Nat /\ Latest <= Latest'
    /\ \A v \in 1 .. Latest : log'[v] = log[v]
    /\ Len(stored') \in Nat /\ Len(stored) <= Len(stored')
    /\ \A f \in 1 .. Len(stored) : stored'[f] = stored[f]

LEMMA SameLogGrown == ASSUME IInv, UNCHANGED <<log, stored>> PROVE Grown
<1>1. Latest \in Nat /\ Len(stored) \in Nat
  BY LogIsThere, LenProperties DEF IInv, Shape
<1> QED
  BY <1>1 DEF Grown, Latest

LEMMA CommitGrown ==
    ASSUME IInv, NEW ver, Commit(ver), UNCHANGED stored
    PROVE  Grown
<1>1. Latest \in Nat /\ Len(stored) \in Nat
  BY LogIsThere, LenProperties DEF IInv, Shape
<1>2. Latest' = Latest + 1 /\ \A v \in 1 .. Latest : log'[v] = log[v]
  BY AppendedVersion DEF IInv, Commit
<1> QED
  BY <1>1, <1>2 DEF Grown

LEMMA WriteGrown ==
    ASSUME IInv, NEW b \in Backend, NEW R \in SUBSET Row, WriteFile(b, R)
    PROVE  /\ Grown
           /\ Len(stored) \in Nat /\ Len(stored') = Len(stored) + 1
           /\ stored'[Len(stored) + 1] = R
<1>1. stored \in Seq(SUBSET Row) /\ stored' = Append(stored, R) /\ log' = log
  BY DEF IInv, Shape, WriteFile
<1>2. Latest \in Nat /\ Len(stored) \in Nat
  BY <1>1, LogIsThere, LenProperties DEF IInv
<1>3. /\ Len(stored') = Len(stored) + 1
      /\ stored'[Len(stored) + 1] = R
      /\ \A f \in 1 .. Len(stored) : stored'[f] = stored[f]
  BY <1>1, AppendProperties
<1> QED
  BY <1>1, <1>2, <1>3 DEF Grown, Latest

\* What a version shows is never changed.
LEMMA OldVersions ==
    ASSUME IInv, Grown, NEW v \in 1 .. Latest
    PROVE  /\ v \in 1 .. Latest' /\ log'[v] = log[v] /\ Frags(v)' = Frags(v)
           /\ RowsAt(v)' = RowsAt(v)
           /\ \A f \in Frags(v) : /\ stored'[f] = stored[f] /\ f \in 1 .. Len(stored)
                                  /\ Live(v, f)' = Live(v, f)
<1>1. /\ log'[v] = log[v] /\ Latest <= Latest' /\ Frags(v) \subseteq 1 .. Len(stored)
      /\ \A f \in 1 .. Len(stored) : stored'[f] = stored[f]
  BY DEF Grown, IInv, NamesWritten
<1>2. v \in 1 .. Latest'
  BY LogIsThere DEF Grown, IInv
<1>3. Frags(v)' = Frags(v) /\ \A f \in Frags(v) : stored'[f] = stored[f]
  BY <1>1 DEF Frags
<1>4. \A f \in Frags(v) : Live(v, f)' = Live(v, f)
  BY <1>1, <1>3 DEF Live
<1>5. RowsAt(v)' = RowsAt(v)
  BY <1>3, <1>4 DEF RowsAt
<1> QED
  BY <1>1, <1>2, <1>3, <1>4, <1>5

-----------------------------------------------------------------------------
(* What a commit makes of the rows.                                        *)

LEMMA RowsAreShown ==
    /\ \A ver, r : r \in RowsOf(ver) <=> \E f : Shows(ver, f, r)
    /\ \A v : RowsAt(v) = RowsOf(log[v])
    /\ \A v, f, r : Shows(log[v], f, r) <=> f \in Frags(v) /\ r \in Live(v, f)
<1>1. \A ver, r : r \in RowsOf(ver) <=> \E f : Shows(ver, f, r)
  BY DEF RowsOf, Shows
<1>2. \A v : RowsAt(v) = RowsOf(log[v])
  BY DEF RowsAt, RowsOf, Frags, Live
<1>3. \A v, f, r : Shows(log[v], f, r) <=> f \in Frags(v) /\ r \in Live(v, f)
  BY DEF Shows, Frags, Live
<1> QED
  BY <1>1, <1>2, <1>3

\* In a sound version, a row is in one fragment, and a mark is of a fragment
\* of the version.
LEMMA SoundRows ==
    ASSUME NEW ver \in Version, Sound(ver)
    PROVE  /\ \A f, r : <<f, r>> \in ver.dead => f \in ver.frags /\ r \in stored[f]
           /\ \A f, g, r : Shows(ver, f, r) /\ Shows(ver, g, r) => f = g
BY DEF Sound, Shows

\* The shape of every commit.
Commits(b, ver, answer) ==
    /\ Commit(ver) /\ Returns(b, answer)
    /\ UNCHANGED <<stored, files, tags, history, now, calls>>

LEMMA AppendedRows ==
    ASSUME IInv, RowsInv, NEW b \in Backend, AppendCommit(b)
    PROVE  \E ver \in Version :
              /\ Commits(b, ver, [op |-> "append", at |-> Latest + 1])
              /\ Sound(ver)
              /\ RowsOf(ver) = RowsAt(Latest) \union call[b].rows
              /\ \A v \in 1 .. Latest : RowsAt(v) \intersect call[b].rows = {}
<1> USE DEF IInv, RowsInv
<1> DEFINE ver == [Current EXCEPT !.op = "append", !.read = seen[b], !.at = now,
                                  !.frags = @ \union {mine[b]}]
           R == call[b].rows
           m == mine[b]
<1>1. Commits(b, ver, [op |-> "append", at |-> Latest + 1]) /\ m # 0
  BY DEF AppendCommit, Commits
<1>2. /\ Current \in Version /\ Current.frags = Frags(Latest) /\ Current = log[Latest]
      /\ Latest \in 1 .. Latest /\ Sound(Current)
  BY CurrentIsVersion, LogIsThere DEF Current, VersionsAreSound
<1>3. /\ ver \in Version /\ ver.dead = Current.dead
      /\ ver.frags = Current.frags \union {m}
  <2>1. seen[b] \in Nat /\ mine[b] \in Nat /\ now \in Nat
    BY DEF Shape
  <2> QED
    BY <1>2, <2>1 DEF Version
<1> HIDE DEF ver
<1>4. NewRows(b, R, m)
  BY DEF AppendCommit, Runs, Appends, AppendsAreNew
<1>5. /\ stored[m] = R
      /\ \A v \in 1 .. Latest : \A f \in Frags(v) : stored[f] \intersect R = {}
      /\ m \notin Current.frags
  BY <1>1, <1>2, <1>4 DEF NewRows, MineIsNew, NamesWritten
<1>6. Sound(ver)
  BY <1>2, <1>3, <1>5 DEF Sound
<1>7. \A f, r : <<f, r>> \in Current.dead => f \in Current.frags
  BY <1>2, SoundRows
<1>8. \A f, r : Shows(ver, f, r) <=> Shows(Current, f, r) \/ (f = m /\ r \in R)
  BY <1>3, <1>5, <1>7 DEF Shows
<1>9. RowsOf(ver) = RowsAt(Latest) \union R
  <2>1. \A r : r \in RowsOf(ver) <=> r \in RowsAt(Latest) \/ r \in R
    BY <1>2, <1>8, RowsAreShown
  <2> QED
    BY <2>1
<1>10. \A v \in 1 .. Latest : RowsAt(v) \intersect R = {}
  BY <1>5, RowsAreShown DEF Live
<1> QED
  BY <1>1, <1>3, <1>6, <1>9, <1>10

\* A delete takes the rows its predicate matches in the version it was
\* prepared against.
LEMMA DeletedRows ==
    ASSUME IInv, RowsInv, NEW b \in Backend, DeleteCommit(b)
    PROVE  \E ver \in Version :
              /\ Commits(b, ver, [op |-> "delete", read |-> base[b], at |-> Latest + 1,
                                  removed |-> FragmentsRemoved(b, ver.frags)])
              /\ Sound(ver) /\ ver.frags \subseteq Frags(Latest)
              /\ RowsOf(ver) = RowsAt(Latest) \ (call[b].rows \intersect RowsAt(seen[b]))
<1> USE DEF IInv, RowsInv
<1> DEFINE P    == call[b].rows
           left == Current.frags \ Emptied(seen[b], P)
           ver  == [Current EXCEPT !.op = "delete", !.read = seen[b], !.at = now,
                                   !.frags = left,
                                   !.dead  = Within(@ \union Hits(seen[b], P), left),
                                   !.cover = Covering(@, left)]
<1>1. /\ Commits(b, ver, [op |-> "delete", read |-> base[b], at |-> Latest + 1,
                          removed |-> FragmentsRemoved(b, left)])
      /\ Unchanged(Touched(seen[b], P), seen[b], Latest)
  BY DEF DeleteCommit, Commits
<1>2. /\ Current \in Version /\ Current.frags = Frags(Latest) /\ Current = log[Latest]
      /\ Latest \in 1 .. Latest /\ Sound(Current)
  BY CurrentIsVersion, LogIsThere DEF Current, VersionsAreSound
<1>3. P \subseteq Row
  <2>1. call[b] \in Request /\ call[b].op = "delete"
    BY RequestAssumption DEF DeleteCommit, Runs, Shape, NoCall
  <2> QED
    BY <2>1 DEF Request
<1>4. PICK s \in 1 .. Latest : s = seen[b]
  BY DEF HasOpened
<1>5. log[s] \in Version /\ Sound(log[s]) /\ Frags(s) \subseteq Nat
  BY LogIsThere DEF VersionsAreSound, Frags, Version
<1>6. /\ ver \in Version /\ ver.frags = left
      /\ ver.dead = Within(Current.dead \union Hits(s, P), left)
  <2>1. Hits(s, P) \in SUBSET (Nat \X Row)
    BY <1>3, <1>5 DEF Hits
  <2>2. Within(Current.dead \union Hits(s, P), left) \in SUBSET (Nat \X Row)
    BY <1>2, <2>1 DEF Version, Within
  <2>3. Covering(Current.cover, left) \in SUBSET (Index \X Nat) /\ left \in SUBSET Nat
    BY <1>2 DEF Version, Covering
  <2> QED
    BY <1>2, <1>4, <2>2, <2>3 DEF Version, Shape
<1> HIDE DEF ver
<1>7. \A f, r : <<f, r>> \in Hits(s, P) <=> Shows(log[s], f, r) /\ r \in P
  BY RowsAreShown DEF Hits
<1>8. \A f : f \in Touched(s, P) <=> \E r \in P : Shows(log[s], f, r)
  <2>1. \A f : f \in Touched(s, P) <=> \E p \in Hits(s, P) : p[1] = f
    BY DEF Touched
  <2>2. \A p \in Hits(s, P) : p = <<p[1], p[2]>>
    BY DEF Hits
  <2>3. ASSUME NEW f, f \in Touched(s, P) PROVE \E r \in P : Shows(log[s], f, r)
    <3>1. PICK p \in Hits(s, P) : p[1] = f
      BY <2>1, <2>3
    <3>2. <<f, p[2]>> \in Hits(s, P)
      BY <2>2, <3>1
    <3> QED
      BY <1>7, <3>2
  <2>4. ASSUME NEW f, NEW r \in P, Shows(log[s], f, r) PROVE f \in Touched(s, P)
    <3>1. <<f, r>> \in Hits(s, P) /\ <<f, r>>[1] = f
      BY <1>7, <2>4
    <3> QED
      BY <2>1, <3>1
  <2> QED
    BY <2>3, <2>4
\* What the delete touches is in the latest version as it was.
<1>9. \A f \in Touched(s, P) : \A r : Shows(log[s], f, r) <=> Shows(Current, f, r)
  <2> SUFFICES ASSUME NEW f \in Touched(s, P), NEW r
               PROVE  Shows(log[s], f, r) <=> Shows(Current, f, r)
    OBVIOUS
  <2>1. f \in Frags(Latest) /\ f \in Frags(s)
    BY <1>1, <1>4, <1>8, RowsAreShown DEF Unchanged
  <2>2. <<f, r>> \in DeadIn(Latest, Touched(s, P)) <=> <<f, r>> \in DeadIn(s, Touched(s, P))
    BY <1>1, <1>4 DEF Unchanged
  <2>3. <<f, r>> \in log[Latest].dead <=> <<f, r>> \in log[s].dead
    BY <2>2 DEF DeadIn, Within
  <2> QED
    BY <1>2, <2>1, <2>3 DEF Shows, Frags
<1>10. \A f : f \in left <=> /\ f \in Current.frags
                             /\ ~ (/\ f \in Touched(s, P)
                                   /\ \A r : Shows(log[s], f, r) => r \in P)
  BY <1>4, <1>8, RowsAreShown DEF Emptied
<1>11. \A f, r : Shows(ver, f, r) <=> /\ f \in left /\ Shows(Current, f, r)
                                      /\ ~ (r \in P /\ Shows(log[s], f, r))
  BY <1>6, <1>7, <1>2 DEF Shows, Within
<1>12. Sound(ver)
  <2>1. \A p \in ver.dead : p[1] \in ver.frags /\ p[2] \in stored[p[1]]
    <3> SUFFICES ASSUME NEW p \in ver.dead
                 PROVE  p[1] \in ver.frags /\ p[2] \in stored[p[1]]
      OBVIOUS
    <3>1. p[1] \in left /\ (p \in Current.dead \/ p \in Hits(s, P))
      BY <1>6 DEF Within
    <3>2. p \in Hits(s, P) => p[2] \in stored[p[1]]
      BY DEF Hits, Live
    <3> QED
      BY <1>2, <1>6, <3>1, <3>2 DEF Sound
  <2> QED
    BY <1>2, <1>6, <2>1 DEF Sound
<1>13. RowsOf(ver) = RowsAt(Latest) \ (P \intersect RowsAt(seen[b]))
  <2>1. ASSUME NEW r, r \in RowsOf(ver)
        PROVE  r \in RowsAt(Latest) /\ ~ (r \in P /\ r \in RowsAt(s))
    <3>1. PICK f : Shows(ver, f, r)
      BY <2>1, RowsAreShown
    <3>2. Shows(Current, f, r)
      BY <1>11, <3>1
    <3>3. ASSUME r \in P, NEW g, Shows(log[s], g, r) PROVE FALSE
      <4>1. Shows(Current, g, r)
        BY <1>8, <1>9, <3>3
      <4>2. g = f
        BY <1>2, <3>2, <4>1, SoundRows
      <4> QED
        BY <1>11, <3>1, <3>3, <4>2
    <3> QED
      BY <1>2, <3>2, <3>3, RowsAreShown
  <2>2. ASSUME NEW r, r \in RowsAt(Latest), ~ (r \in P /\ r \in RowsAt(s))
        PROVE  r \in RowsOf(ver)
    <3>1. PICK f : Shows(Current, f, r)
      BY <1>2, <2>2, RowsAreShown
    <3>2. ~ (r \in P /\ Shows(log[s], f, r))
      BY <2>2, RowsAreShown
    <3>3. f \in left
      BY <1>9, <1>10, <3>1, <3>2 DEF Shows
    <3> QED
      BY <1>11, <3>1, <3>2, <3>3, RowsAreShown
  <2> QED
    BY <1>4, <2>1, <2>2
<1>14. ver.frags \subseteq Frags(Latest)
  BY <1>2, <1>6
<1> QED
  BY <1>1, <1>6, <1>12, <1>13, <1>14

\* A rewrite changes no row.
LEMMA RewrittenRows ==
    ASSUME IInv, RowsInv, NEW b \in Backend, OptimizeCommit(b)
    PROVE  \E ver \in Version :
              /\ Commits(b, ver, [op |-> "optimize", at |-> Latest + 1,
                                  removed |-> Cardinality(work[b]), added |-> 1])
              /\ Sound(ver)
              /\ RowsOf(ver) = RowsAt(Latest)
<1> USE DEF IInv, RowsInv
<1> DEFINE W == work[b]
           m == mine[b]
           ver == [Current EXCEPT !.op = "optimize", !.read = base[b], !.at = now,
                                  !.frags = (@ \ work[b]) \union {mine[b]},
                                  !.dead  = @ \ DeadIn(Latest, work[b]),
                                  !.cover = Remapped(@, work[b], mine[b])]
<1>1. /\ Commits(b, ver, [op |-> "optimize", at |-> Latest + 1,
                          removed |-> Cardinality(work[b]), added |-> 1])
      /\ m # 0 /\ Unchanged(W, base[b], Latest)
  BY DEF OptimizeCommit, Commits, ReadVersion
<1>2. /\ Current \in Version /\ Current.frags = Frags(Latest) /\ Current = log[Latest]
      /\ Latest \in 1 .. Latest /\ Sound(Current)
  BY CurrentIsVersion, LogIsThere DEF Current, VersionsAreSound
<1>3. /\ ver \in Version /\ ver.frags = (Current.frags \ W) \union {m}
      /\ ver.dead = Current.dead \ DeadIn(Latest, W)
  <2>1. base[b] \in Nat /\ mine[b] \in Nat /\ now \in Nat
    BY DEF Shape
  <2>2. /\ Remapped(Current.cover, W, m) \in SUBSET (Index \X Nat)
        /\ (Current.frags \ W) \union {m} \in SUBSET Nat
    BY <1>2, <2>1 DEF Version, Remapped
  <2> QED
    BY <1>2, <2>1, <2>2 DEF Version
<1> HIDE DEF ver
<1>4. Rewrote(m, base[b], W)
  BY <1>1 DEF OptimizeCommit, Runs, RewritesKeepRows
<1>5. m \notin Current.frags /\ W \subseteq Current.frags
  BY <1>1, <1>2 DEF MineIsNew, Unchanged
\* The new file holds what the latest version shows of the old fragments.
<1>6. \A f \in W : \A r : r \in Live(base[b], f) <=> Shows(Current, f, r)
  <2> SUFFICES ASSUME NEW f \in W, NEW r
               PROVE  r \in Live(base[b], f) <=> Shows(Current, f, r)
    OBVIOUS
  <2>1. <<f, r>> \in DeadIn(Latest, W) <=> <<f, r>> \in DeadIn(base[b], W)
    BY <1>1 DEF Unchanged
  <2>2. <<f, r>> \in log[Latest].dead <=> <<f, r>> \in log[base[b]].dead
    BY <2>1 DEF DeadIn, Within
  <2> QED
    BY <1>2, <1>5, <2>2 DEF Shows, Live
<1>7. \A r : r \in stored[m] <=> \E f \in W : Shows(Current, f, r)
  BY <1>4, <1>6 DEF Rewrote
<1>8. \A f, r : <<f, r>> \in Current.dead => f \in Current.frags
  BY <1>2, SoundRows
<1>9. \A f, r : <<f, r>> \in ver.dead <=> <<f, r>> \in Current.dead /\ f \notin W
  BY <1>2, <1>3 DEF DeadIn, Within
<1>10. \A f, r : Shows(ver, f, r) <=> \/ f \notin W /\ Shows(Current, f, r)
                                      \/ f = m /\ r \in stored[m]
  BY <1>3, <1>5, <1>8, <1>9 DEF Shows
<1>11. RowsOf(ver) = RowsAt(Latest)
  <2>1. \A r : r \in RowsOf(ver) <=> \E f : Shows(Current, f, r)
    BY <1>7, <1>10, RowsAreShown
  <2> QED
    BY <1>2, <2>1, RowsAreShown
<1>12. Sound(ver)
  <2>1. \A p \in ver.dead : p[1] \in ver.frags /\ p[2] \in stored[p[1]]
    <3>1. \A p \in ver.dead : p \in Current.dead /\ p[1] \notin W
      BY <1>2, <1>3 DEF DeadIn, Within
    <3> QED
      BY <1>2, <1>3, <3>1 DEF Sound
  <2>2. ASSUME NEW g \in Current.frags \ W PROVE stored[g] \intersect stored[m] = {}
    <3>1. \A f \in W : stored[f] \intersect stored[g] = {}
      BY <1>2, <1>5 DEF Sound
    <3> QED
      BY <1>7, <3>1 DEF Shows
  <2>3. \A f, g \in ver.frags : f # g => stored[f] \intersect stored[g] = {}
    BY <1>2, <1>3, <2>2 DEF Sound
  <2> QED
    BY <2>1, <2>3 DEF Sound
<1> QED
  BY <1>1, <1>3, <1>11, <1>12

\* An index leaves the rows alone.
LEMMA IndexedRows ==
    ASSUME IInv, RowsInv, NEW b \in Backend,
           CreateIndex(b) \/ DropIndex(b) \/ OptimizeIndices(b)
    PROVE  \E ver, answer :
              /\ Commits(b, ver, answer)
              /\ answer.op \in {"create_index", "drop_index", "optimize_indices"}
              /\ ver.frags = Frags(Latest) /\ ver.dead = Current.dead
              /\ Sound(ver)
              /\ RowsOf(ver) = RowsAt(Latest)
<1> USE DEF IInv, RowsInv
<1>1. /\ Current \in Version /\ Current.frags = Frags(Latest) /\ Current = log[Latest]
      /\ Latest \in 1 .. Latest /\ Sound(Current)
  BY CurrentIsVersion, LogIsThere DEF Current, VersionsAreSound
<1>2. ASSUME NEW idx, NEW cover, NEW answer, IndexCommit(b, idx, cover, answer)
      PROVE  \E ver : /\ Commits(b, ver, answer)
                      /\ ver.frags = Frags(Latest) /\ ver.dead = Current.dead
                      /\ Sound(ver) /\ RowsOf(ver) = RowsAt(Latest)
  <2> DEFINE ver == [Current EXCEPT !.op = call[b].op, !.read = base[b], !.at = now,
                                    !.idx = idx, !.cover = cover]
  <2>1. Commits(b, ver, answer)
    BY <1>2 DEF IndexCommit, Commits
  <2>2. ver.frags = Current.frags /\ ver.dead = Current.dead
    BY <1>1 DEF Version
  <2> HIDE DEF ver
  <2>3. Sound(ver) /\ RowsOf(ver) = RowsOf(Current)
    <3>1. Sound(ver)
      BY <1>1, <2>2 DEF Sound
    <3>2. \A f, r : Shows(ver, f, r) <=> Shows(Current, f, r)
      BY <2>2 DEF Shows
    <3>3. \A r : r \in RowsOf(ver) <=> r \in RowsOf(Current)
      BY <3>2, RowsAreShown
    <3>4. RowsOf(ver) = RowsOf(Current)
      BY <3>3 DEF RowsOf
    <3> QED
      BY <3>1, <3>4
  <2> QED
    BY <1>1, <2>1, <2>2, <2>3, RowsAreShown
<1>3. CASE CreateIndex(b)
  <2>1. [op |-> "create_index", at |-> Latest + 1].op = "create_index"
    OBVIOUS
  <2> QED
    BY <1>2, <1>3, <2>1 DEF CreateIndex
<1>4. CASE DropIndex(b)
  <2>1. [op |-> "drop_index", at |-> Latest + 1].op = "drop_index"
    OBVIOUS
  <2> QED
    BY <1>2, <1>4, <2>1 DEF DropIndex
<1>5. CASE OptimizeIndices(b)
  <2>1. PICK answer : /\ answer.op = "optimize_indices"
                      /\ \E idx, cover : IndexCommit(b, idx, cover, answer)
    BY <1>5 DEF OptimizeIndices
  <2> QED
    BY <1>2, <2>1
<1> QED
  BY <1>3, <1>4, <1>5

-----------------------------------------------------------------------------
(* The invariant of the versions.                                          *)

LEMMA VersionsKept ==
    ASSUME IInv, RowsInv, Grown, UNCHANGED log
    PROVE  VersionsAreSound' /\ GoneIsGone'
<1> USE DEF IInv, RowsInv
<1>1. Latest' = Latest
  BY DEF Latest
<1>2. ASSUME NEW v \in 1 .. Latest PROVE Sound(log[v])'
  <2>1. Sound(log[v]) /\ log'[v] = log[v] /\ Frags(v) = log[v].frags
    BY DEF VersionsAreSound, Frags
  <2>2. \A f \in log[v].frags : stored'[f] = stored[f]
    BY <2>1, OldVersions
  <2> QED
    BY <2>1, <2>2 DEF Sound
<1>3. VersionsAreSound'
  BY <1>1, <1>2 DEF VersionsAreSound
<1>4. \A v \in 1 .. Latest : RowsAt(v)' = RowsAt(v)
  BY OldVersions
<1>5. ASSUME NEW w \in 1 .. Latest, NEW v \in 1 .. w, NEW u \in 1 .. v
      PROVE  (RowsAt(u) \intersect RowsAt(w) \subseteq RowsAt(v))'
  <2>1. v \in 1 .. Latest /\ u \in 1 .. Latest
    BY LogIsThere
  <2> QED
    BY <1>4, <2>1 DEF GoneIsGone
<1>6. GoneIsGone'
  BY <1>1, <1>5 DEF GoneIsGone
<1> QED
  BY <1>3, <1>6

\* A commit brings no row that was there before and is gone.
LEMMA CommittedVersions ==
    ASSUME IInv, RowsInv, NEW ver, Commit(ver), UNCHANGED stored, Sound(ver),
           NEW R, RowsOf(ver) \subseteq RowsAt(Latest) \union R,
           \A v \in 1 .. Latest : RowsAt(v) \intersect R = {}
    PROVE  /\ VersionsAreSound' /\ GoneIsGone'
           /\ RowsAt(Latest)' = RowsOf(ver)
<1> USE DEF IInv, RowsInv
<1>1. PICK n \in Nat \ {0} : n = Latest
  BY LogIsThere
<1>2. /\ Latest' = n + 1 /\ log'[n + 1] = ver
      /\ \A v \in 1 .. n : log'[v] = log[v]
  BY <1>1, AppendedVersion DEF Commit
<1>3. Grown
  BY CommitGrown
<1>4. VersionsAreSound'
  <2>1. ASSUME NEW v \in 1 .. n + 1 PROVE Sound(log[v])'
    <3>1. PICK u : u = log'[v]
      OBVIOUS
    <3>2. Sound(u)
      BY <1>1, <1>2, <3>1 DEF VersionsAreSound
    <3>3. Sound(u)'
      BY <3>2 DEF Sound
    <3> QED
      BY <3>1, <3>3 DEF Sound
  <2> QED
    BY <1>2, <2>1 DEF VersionsAreSound
<1>5. \A v \in 1 .. n : RowsAt(v)' = RowsAt(v)
  BY <1>1, <1>3, OldVersions
<1>6. ASSUME NEW k, k = n + 1 PROVE RowsAt(k)' = RowsOf(ver)
  <2>1. RowsAt(k)' = RowsOf(log[k])'
    BY DEF RowsAt, RowsOf, Frags, Live
  <2>2. log'[k] = ver
    BY <1>2, <1>6
  <2>3. RowsOf(log[k])' = RowsOf(ver)
    BY <2>2 DEF RowsOf
  <2> QED
    BY <2>1, <2>3
<1>7. GoneIsGone'
  <2> SUFFICES ASSUME NEW w \in 1 .. n + 1, NEW v \in 1 .. w, NEW u \in 1 .. v
               PROVE  (RowsAt(u) \intersect RowsAt(w) \subseteq RowsAt(v))'
    BY <1>2 DEF GoneIsGone
  <2>1. CASE w \in 1 .. n
    BY <1>1, <1>5, <2>1 DEF GoneIsGone
  <2>2. CASE w = n + 1 /\ v \in 1 .. n
    <3>1. u \in 1 .. n /\ n \in 1 .. n
      BY <2>2
    <3>2. RowsAt(u) \intersect RowsAt(n) \subseteq RowsAt(v)
      BY <1>1, <2>2, <3>1 DEF GoneIsGone
    <3>3. RowsAt(w)' \subseteq RowsAt(n) \union R /\ RowsAt(u) \intersect R = {}
      BY <1>1, <1>6, <2>2, <3>1
    <3> QED
      BY <1>5, <2>2, <3>1, <3>2, <3>3
  <2>3. CASE v = n + 1
    <3>1. v = w
      BY <2>3
    <3> QED
      BY <3>1
  <2> QED
    BY <2>1, <2>2, <2>3
<1>8. RowsAt(Latest)' = RowsOf(ver)
  <2>1. PICK k : k = n + 1
    OBVIOUS
  <2>2. Latest' = k /\ RowsAt(k)' = RowsOf(ver)
    BY <1>2, <1>6, <2>1
  <2> QED
    BY <2>2 DEF RowsAt, Frags, Live
<1> QED
  BY <1>4, <1>7, <1>8

-----------------------------------------------------------------------------
(* The invariant of the calls.                                             *)

\* A call that is appending goes on with it, or is over.
LEMMA AppendsKept ==
    ASSUME AppendsAreNew, UNCHANGED stored,
           \A c \in Backend : Appends(c)' =>
              Appends(c) /\ call'[c] = call[c] /\ mine'[c] = mine[c]
    PROVE  AppendsAreNew'
BY DEF AppendsAreNew, NewRows

LEMMA RewritesKept ==
    ASSUME IInv, RewritesKeepRows, Grown,
           \A c \in Backend : mine'[c] # 0 =>
              /\ mine'[c] = mine[c] /\ call'[c] = call[c]
              /\ base'[c] = base[c] /\ work'[c] = work[c]
    PROVE  RewritesKeepRows'
<1> SUFFICES ASSUME NEW c \in Backend, mine'[c] # 0, call'[c].op = "optimize"
             PROVE  Rewrote(mine[c], base[c], work[c])'
  BY DEF RewritesKeepRows
<1>0. PICK v \in 1 .. Latest : v = base[c]
  BY DEF IInv, HasOpened
<1>1. PICK m, W : m = mine[c] /\ W = work[c]
  OBVIOUS
<1>2. Rewrote(m, v, W) /\ m \in 1 .. Len(stored)
  BY <1>0, <1>1 DEF RewritesKeepRows, IInv, MineIsNew
<1>3. stored'[m] = stored[m]
  BY <1>2 DEF Grown
<1>4. Frags(v)' = Frags(v) /\ \A f \in Frags(v) : Live(v, f)' = Live(v, f)
  BY OldVersions
<1>5. Rewrote(m, v, W)'
  BY <1>2, <1>3, <1>4 DEF Rewrote
<1>6. mine'[c] = m /\ base'[c] = v /\ work'[c] = W
  BY <1>0, <1>1
<1> QED
  BY <1>5, <1>6 DEF Rewrote, Frags, Live

LEMMA ReturnedKept ==
    ASSUME IInv, RowsInv, Grown, UNCHANGED stored,
           NEW b \in Backend, NEW answer, Returns(b, answer)
    PROVE  AppendsAreNew' /\ RewritesKeepRows' /\ SeenLater' /\ Unanswered'
<1> USE DEF IInv, RowsInv
<1>1. AppendsAreNew'
  <2>1. ASSUME NEW c \in Backend, Appends(c)'
        PROVE  Appends(c) /\ call'[c] = call[c] /\ mine'[c] = mine[c]
    BY <2>1, Returned DEF Appends
  <2> QED
    BY <2>1, AppendsKept
<1>2. RewritesKeepRows'
  BY Returned, RewritesKept
<1>3. SeenLater' /\ Unanswered'
  BY Returned DEF SeenLater, Unanswered
<1> QED
  BY <1>1, <1>2, <1>3

LEMMA StartedKept ==
    ASSUME IInv, RowsInv, NEW b \in Backend, NEW r \in Requests, Start(b, r)
    PROVE  AppendsAreNew' /\ RewritesKeepRows' /\ SeenLater' /\ Unanswered'
<1> USE DEF IInv, RowsInv
<1>1. /\ UNCHANGED <<log, stored, base, seen, mine, work>>
      /\ call' = [call EXCEPT ![b] = r] /\ pc' = [pc EXCEPT ![b] = "open"]
      /\ reply' = [reply EXCEPT ![b] = NoReply]
      /\ r.op = "append" => Fresh(r.rows)
  BY DEF Start, storage
<1>2. mine[b] = 0
  BY DEF Start, Writing
<1>3. /\ call'[b] = r /\ pc'[b] = "open" /\ reply'[b] = NoReply
      /\ \A c \in Backend \ {b} : /\ call'[c] = call[c] /\ pc'[c] = pc[c]
                                  /\ reply'[c] = reply[c]
  BY <1>1 DEF Shape
<1>4. AppendsAreNew'
  <2> SUFFICES ASSUME NEW c \in Backend, Appends(c)'
               PROVE  NewRows(c, call[c].rows, mine[c])'
    BY DEF AppendsAreNew
  <2>1. \A d \in Backend \ {b} : Appends(d)' <=> Appends(d)
    BY <1>3 DEF Appends
  <2>2. Appends(b)' => Fresh(r.rows)
    BY <1>1, <1>3 DEF Appends
  <2>3. CASE c = b
    <3>1. \A f \in 1 .. Len(stored) : stored[f] \intersect r.rows = {}
      BY <2>2, <2>3, LenProperties DEF Fresh, Shape
    <3>2. \A d \in Backend : d # b /\ Appends(d)' => call'[d].rows \intersect r.rows = {}
      BY <1>3, <2>1, <2>2, <2>3 DEF Fresh, Appends
    <3> QED
      BY <1>1, <1>2, <1>3, <2>3, <3>1, <3>2 DEF NewRows
  <2>4. CASE c # b
    <3>1. NewRows(c, call[c].rows, mine[c])
      BY <2>1, <2>4 DEF AppendsAreNew
    <3>2. Appends(b)' => r.rows \intersect call[c].rows = {}
      BY <2>1, <2>2, <2>4 DEF Fresh, Appends
    <3>3. \A d \in Backend : d # c /\ Appends(d)' =>
             call'[d].rows \intersect call'[c].rows = {}
      BY <1>3, <2>1, <2>4, <3>1, <3>2 DEF NewRows
    <3> QED
      BY <1>1, <1>3, <2>4, <3>1, <3>3 DEF NewRows
  <2> QED
    BY <2>3, <2>4
<1>5. RewritesKeepRows'
  <2>1. \A c \in Backend : mine'[c] # 0 => call'[c] = call[c]
    BY <1>1, <1>2, <1>3
  <2> QED
    BY <1>1, <2>1, SameLogGrown, RewritesKept
<1>6. SeenLater' /\ Unanswered'
  BY <1>1, <1>3 DEF SeenLater, Unanswered
<1> QED
  BY <1>4, <1>5, <1>6

LEMMA MovedKept ==
    ASSUME IInv, RowsInv, NEW b \in Backend,
           \/ Open(b) \/ CountRows(b) \/ ReadFragment(b) \/ DeleteAgain(b) \/ Survey(b)
    PROVE  AppendsAreNew' /\ RewritesKeepRows' /\ SeenLater' /\ Unanswered'
<1> USE DEF IInv, RowsInv
<1>1. UNCHANGED <<log, stored, call, mine, reply>>
  BY DEF Open, CountRows, ReadFragment, DeleteAgain, Survey, storage
<1>2. mine[b] = 0
  BY DEF Open, CountRows, ReadFragment, DeleteAgain, Survey, Runs, Writing
<1>3. \A c \in Backend \ {b} : /\ pc'[c] = pc[c] /\ base'[c] = base[c]
                               /\ seen'[c] = seen[c] /\ work'[c] = work[c]
  BY DEF Open, CountRows, ReadFragment, DeleteAgain, Survey, Shape
<1>4. pc[b] # "idle" /\ (Appends(b)' => Appends(b))
  BY <1>1 DEF Open, CountRows, ReadFragment, DeleteAgain, Survey, Runs, Appends
<1>5. base'[b] <= seen'[b]
  <2>1. base[b] \in Nat /\ seen[b] \in Nat /\ base[b] \in 1 .. Latest /\ Latest \in Nat
    BY LogIsThere DEF Shape, HasOpened
  <2>2. CASE Open(b)
    BY <2>1, <2>2 DEF Open, Shape
  <2>3. CASE DeleteAgain(b)
    BY <2>1, <2>3 DEF DeleteAgain, Shape
  <2>4. CASE CountRows(b) \/ ReadFragment(b) \/ Survey(b)
    BY <2>4 DEF CountRows, ReadFragment, Survey, SeenLater
  <2> QED
    BY <2>2, <2>3, <2>4
<1>6. AppendsAreNew'
  <2>1. ASSUME NEW c \in Backend, Appends(c)' PROVE Appends(c)
    BY <1>1, <1>3, <1>4, <2>1 DEF Appends
  <2> QED
    BY <1>1, <2>1, AppendsKept
<1>7. RewritesKeepRows'
  BY <1>1, <1>2, <1>3, SameLogGrown, RewritesKept
<1>8. SeenLater' /\ Unanswered'
  BY <1>1, <1>3, <1>4, <1>5 DEF SeenLater, Unanswered
<1> QED
  BY <1>6, <1>7, <1>8

LEMMA WrittenKept ==
    ASSUME IInv, RowsInv, NEW b \in Backend, AppendFile(b) \/ RewriteFragments(b)
    PROVE  Grown /\ AppendsAreNew' /\ RewritesKeepRows' /\ SeenLater' /\ Unanswered'
<1> USE DEF IInv, RowsInv
<1>1. PICK R, W :
        /\ R \in SUBSET Row
        /\ WriteFile(b, R) /\ work' = [work EXCEPT ![b] = W]
        /\ pc[b] = "run" /\ mine[b] = 0
        /\ call[b].op = "append" => R = call[b].rows
        /\ call[b].op # "append" =>
             /\ call[b].op = "optimize" /\ W \subseteq Frags(base[b])
             /\ R = UNION { Live(base[b], f) : f \in W }
  <2>1. CASE AppendFile(b)
    <3>1. call[b] \in Request /\ call[b].op = "append"
      BY <2>1, RequestAssumption DEF AppendFile, Runs, Shape, NoCall
    <3>2. call[b].rows \in SUBSET Row
      BY <3>1 DEF Request
    <3>3. work' = [work EXCEPT ![b] = work[b]]
      BY <2>1 DEF AppendFile, Shape
    <3> QED
      BY <2>1, <3>1, <3>2, <3>3 DEF AppendFile, Runs
  <2>2. CASE RewriteFragments(b)
    <3>1. PICK S \in Planned(b) :
            /\ work' = [work EXCEPT ![b] = S]
            /\ WriteFile(b, UNION { Live(base[b], f) : f \in S })
            /\ pc[b] = "run" /\ mine[b] = 0 /\ call[b].op = "optimize"
      BY <2>2 DEF RewriteFragments, Runs
    <3>2. S \subseteq Frags(base[b]) /\ Frags(base[b]) \subseteq 1 .. Len(stored)
      BY DEF Planned, NamesWritten, HasOpened
    <3>3. \A f \in S : Live(base[b], f) \subseteq Row
      BY <3>2, ElementOfSeq DEF Shape, Live
    <3>4. UNION { Live(base[b], f) : f \in S } \in SUBSET Row
      BY <3>3
    <3> QED
      BY <3>1, <3>2, <3>4
  <2> QED
    BY <2>1, <2>2
<1>2. PICK m \in Nat : m = Len(stored)
  BY LenProperties DEF Shape
<1>3. /\ Grown /\ Len(stored') = m + 1 /\ stored'[m + 1] = R
      /\ \A f \in 1 .. m : stored'[f] = stored[f]
  BY <1>1, <1>2, WriteGrown DEF Grown
<1>4. /\ UNCHANGED <<log, call, pc, base, seen, reply>>
      /\ mine'[b] = m + 1 /\ work'[b] = W
      /\ \A c \in Backend \ {b} : mine'[c] = mine[c] /\ work'[c] = work[c]
  BY <1>1, <1>2 DEF WriteFile, Shape
<1>5. \A c \in Backend : mine[c] \in 0 .. m
  BY <1>2 DEF MineIsNew, Shape
<1>6. AppendsAreNew'
  <2> SUFFICES ASSUME NEW c \in Backend, Appends(c)
               PROVE  NewRows(c, call[c].rows, mine[c])'
    BY <1>4 DEF AppendsAreNew, Appends
  <2>1. NewRows(c, call[c].rows, mine[c])
    BY DEF AppendsAreNew
  <2>2. \A d \in Backend : Appends(d)' <=> Appends(d)
    BY <1>4 DEF Appends
  <2>3. CASE c = b
    <3>1. R = call[b].rows
      BY <1>1, <2>3 DEF Appends
    <3>2. \A f \in 1 .. m : stored[f] \intersect call[b].rows = {}
      BY <1>1, <1>2, <2>1, <2>3 DEF NewRows
    <3>3. \A f \in 1 .. m + 1 : f # m + 1 => stored'[f] \intersect call[b].rows = {}
      BY <1>3, <3>2
    <3> QED
      BY <1>3, <1>4, <2>1, <2>2, <2>3, <3>1, <3>3 DEF NewRows
  <2>4. CASE c # b
    <3>1. \A f \in 1 .. m : f # mine[c] => stored[f] \intersect call[c].rows = {}
      BY <1>2, <2>1 DEF NewRows
    <3>2. R \intersect call[c].rows = {}
      <4>1. CASE call[b].op = "append"
        BY <1>1, <2>1, <2>4, <4>1 DEF NewRows, Appends
      <4>2. CASE call[b].op # "append"
        <5>1. PICK v \in 1 .. Latest : v = base[b]
          BY DEF HasOpened
        <5>2. \A f \in Frags(v) : f \in 1 .. m /\ f # mine[c]
          BY <1>2, <1>5, <5>1 DEF NamesWritten, MineIsNew
        <5>3. \A f \in W : Live(v, f) \intersect call[c].rows = {}
          BY <1>1, <3>1, <4>2, <5>1, <5>2 DEF Live
        <5> QED
          BY <1>1, <4>2, <5>1, <5>3
      <4> QED
        BY <4>1, <4>2
    <3>3. \A f \in 1 .. m + 1 : f # mine[c] => stored'[f] \intersect call[c].rows = {}
      BY <1>3, <3>1, <3>2
    <3>4. mine[c] # 0 => stored'[mine[c]] = call[c].rows
      BY <1>3, <1>5, <2>1 DEF NewRows
    <3> QED
      BY <1>3, <1>4, <2>1, <2>2, <2>4, <3>3, <3>4 DEF NewRows
  <2> QED
    BY <2>3, <2>4
<1>7. RewritesKeepRows'
  <2> SUFFICES ASSUME NEW c \in Backend, mine'[c] # 0, call[c].op = "optimize"
               PROVE  Rewrote(mine[c], base[c], work[c])'
    BY <1>4 DEF RewritesKeepRows
  <2>1. PICK v \in 1 .. Latest : v = base[c]
    BY DEF HasOpened
  <2>2. Frags(v)' = Frags(v) /\ \A f \in Frags(v) : Live(v, f)' = Live(v, f)
    BY <1>3, OldVersions
  <2>3. PICK k, U : k = mine'[c] /\ U = work'[c]
    OBVIOUS
  <2>4. U \subseteq Frags(v) /\ stored'[k] = UNION { Live(v, f) : f \in U }
    <3>1. CASE c = b
      BY <1>1, <1>3, <1>4, <2>1, <2>3, <3>1
    <3>2. CASE c # b
      <4>1. Rewrote(mine[c], v, U) /\ mine[c] = k
        BY <1>4, <2>1, <2>3, <3>2 DEF RewritesKeepRows
      <4>2. k \in 1 .. m
        BY <1>5, <2>3, <4>1
      <4> QED
        BY <1>3, <4>1, <4>2 DEF Rewrote
    <3> QED
      BY <3>1, <3>2
  <2>5. Rewrote(k, v, U)'
    BY <2>2, <2>4 DEF Rewrote
  <2> QED
    BY <2>1, <2>3, <2>5, <1>4 DEF Rewrote, Frags, Live
<1>8. SeenLater' /\ Unanswered'
  BY <1>4 DEF SeenLater, Unanswered
<1> QED
  BY <1>3, <1>6, <1>7, <1>8

-----------------------------------------------------------------------------
(* Every step.                                                             *)

\* A call that answers without having changed a version or a file.
Answers(b, answer) ==
    /\ Returns(b, answer)
    /\ UNCHANGED <<log, stored>>
    /\ answer.op \notin {"append", "delete"}

LEMMA AnswersOnly ==
    ASSUME NEW b \in Backend,
           \/ \E r \in Requests : Refuse(b, r)
           \/ Fail(b) \/ NothingToOptimize(b) \/ Sweep(b) \/ SweepFails(b) \/ Explain(b)
           \/ TableInfo(b) \/ FragmentStats(b) \/ ListFragments(b) \/ ListVersions(b)
           \/ ListIndices(b) \/ ScanDone(b)
    PROVE  \E answer : Answers(b, answer)
<1>1. CASE (\E r \in Requests : Refuse(b, r)) \/ Fail(b)
  BY <1>1 DEF Answers, Refuse, Fail, Error, storage
<1>2. CASE NothingToOptimize(b)
  BY <1>2 DEF Answers, NothingToOptimize, storage
<1>3. CASE Sweep(b) \/ SweepFails(b)
  BY <1>3 DEF Answers, Sweep, SweepFails, Remove, Error
<1>4. CASE Explain(b)
  BY <1>4 DEF Answers, Explain, storage
<1>5. CASE TableInfo(b)
  BY <1>5 DEF Answers, TableInfo, storage
<1>6. CASE FragmentStats(b)
  BY <1>6 DEF Answers, FragmentStats, storage
<1>7. CASE ListFragments(b)
  BY <1>7 DEF Answers, ListFragments, storage
<1>8. CASE ListVersions(b)
  BY <1>8 DEF Answers, ListVersions, storage
<1>9. CASE ListIndices(b)
  BY <1>9 DEF Answers, ListIndices, storage
<1>10. CASE ScanDone(b)
  BY <1>10 DEF Answers, ScanDone, storage
<1> QED
  BY <1>1, <1>2, <1>3, <1>4, <1>5, <1>6, <1>7, <1>8, <1>9, <1>10

\* The commits, and what each does to the rows.
LEMMA CommitRows ==
    ASSUME IInv, RowsInv, NEW b \in Backend,
           \/ AppendCommit(b) \/ DeleteCommit(b) \/ OptimizeCommit(b)
           \/ CreateIndex(b) \/ DropIndex(b) \/ OptimizeIndices(b)
    PROVE  \E ver, answer :
             /\ Commits(b, ver, answer) /\ Grown
             /\ VersionsAreSound' /\ GoneIsGone'
             /\ \/ /\ AppendCommit(b) /\ answer.op = "append"
                   /\ RowsAt(Latest)' = RowsAt(Latest) \union call[b].rows
                \/ /\ DeleteCommit(b) /\ answer.op = "delete"
                   /\ RowsAt(Latest)' =
                        RowsAt(Latest) \ (call[b].rows \intersect RowsAt(seen[b]))
                \/ /\ call[b].op \notin {"append", "delete"}
                   /\ answer.op \notin {"append", "delete"}
                   /\ RowsAt(Latest)' = RowsAt(Latest)
<1>1. ASSUME NEW ver, NEW answer, Commits(b, ver, answer), Sound(ver),
             NEW R, RowsOf(ver) \subseteq RowsAt(Latest) \union R,
             \A v \in 1 .. Latest : RowsAt(v) \intersect R = {}
      PROVE  Grown /\ VersionsAreSound' /\ GoneIsGone' /\ RowsAt(Latest)' = RowsOf(ver)
  BY <1>1, CommitGrown, CommittedVersions DEF Commits
<1>2. CASE AppendCommit(b)
  <2>1. PICK ver \in Version :
          /\ Commits(b, ver, [op |-> "append", at |-> Latest + 1]) /\ Sound(ver)
          /\ RowsOf(ver) = RowsAt(Latest) \union call[b].rows
          /\ \A v \in 1 .. Latest : RowsAt(v) \intersect call[b].rows = {}
    BY <1>2, AppendedRows
  <2> DEFINE answer == [op |-> "append", at |-> Latest + 1]
  <2>2. Commits(b, ver, answer) /\ answer.op = "append"
    BY <2>1
  <2> HIDE DEF answer
  <2>3. Grown /\ VersionsAreSound' /\ GoneIsGone' /\ RowsAt(Latest)' = RowsOf(ver)
    BY <1>1, <2>1
  <2> QED
    BY <1>2, <2>1, <2>2, <2>3
<1>3. CASE DeleteCommit(b)
  <2>1. PICK ver \in Version :
          /\ Commits(b, ver, [op |-> "delete", read |-> base[b], at |-> Latest + 1,
                              removed |-> FragmentsRemoved(b, ver.frags)])
          /\ Sound(ver)
          /\ RowsOf(ver) = RowsAt(Latest) \ (call[b].rows \intersect RowsAt(seen[b]))
    BY <1>3, DeletedRows
  <2> DEFINE answer == [op |-> "delete", read |-> base[b], at |-> Latest + 1,
                        removed |-> FragmentsRemoved(b, ver.frags)]
  <2>2. Commits(b, ver, answer) /\ answer.op = "delete"
    BY <2>1
  <2> HIDE DEF answer
  <2>3. /\ RowsOf(ver) \subseteq RowsAt(Latest) \union {}
        /\ \A v \in 1 .. Latest : RowsAt(v) \intersect {} = {}
    BY <2>1
  <2>4. Grown /\ VersionsAreSound' /\ GoneIsGone' /\ RowsAt(Latest)' = RowsOf(ver)
    BY <1>1, <2>1, <2>2, <2>3
  <2> QED
    BY <1>3, <2>1, <2>2, <2>4
<1>4. ASSUME NEW ver, NEW answer, Commits(b, ver, answer), Sound(ver),
             answer.op \notin {"append", "delete"}, call[b].op \notin {"append", "delete"},
             RowsOf(ver) = RowsAt(Latest)
      PROVE  Grown /\ VersionsAreSound' /\ GoneIsGone' /\ RowsAt(Latest)' = RowsAt(Latest)
  <2>1. /\ RowsOf(ver) \subseteq RowsAt(Latest) \union {}
        /\ \A v \in 1 .. Latest : RowsAt(v) \intersect {} = {}
    BY <1>4
  <2> QED
    BY <1>1, <1>4, <2>1
<1>5. CASE OptimizeCommit(b)
  <2>1. PICK ver, answer :
          /\ ver \in Version
          /\ Commits(b, ver, answer) /\ answer.op = "optimize"
          /\ Sound(ver) /\ RowsOf(ver) = RowsAt(Latest)
    BY <1>5, RewrittenRows
  <2>2. call[b].op = "optimize"
    BY <1>5 DEF OptimizeCommit, Runs
  <2> QED
    BY <1>4, <2>1, <2>2
<1>6. CASE CreateIndex(b) \/ DropIndex(b) \/ OptimizeIndices(b)
  <2>1. PICK ver, answer :
          /\ Commits(b, ver, answer)
          /\ answer.op \in {"create_index", "drop_index", "optimize_indices"}
          /\ Sound(ver) /\ RowsOf(ver) = RowsAt(Latest)
    BY <1>6, IndexedRows
  <2>2. call[b].op \in {"create_index", "drop_index", "optimize_indices"}
    BY <1>6 DEF CreateIndex, DropIndex, OptimizeIndices, Runs
  <2> QED
    BY <1>4, <2>1, <2>2
<1> QED
  BY <1>2, <1>3, <1>5, <1>6

LEMMA RowsKept == ASSUME IInv, RowsInv, [Next]_vars PROVE Grown /\ RowsInv'
<1> USE DEF IInv
<1>1. Writing'
  BY WritingKept DEF RowsInv
<1>2. CASE UNCHANGED vars \/ Tag \/ TimePasses
  <2>1. UNCHANGED <<log, stored, call, pc, base, seen, mine, work, reply>>
    BY <1>2 DEF vars, storage, local, Tag, TimePasses
  <2>2. Grown
    BY <2>1, SameLogGrown
  <2>3. AppendsAreNew'
    BY <2>1, AppendsKept DEF RowsInv, Appends
  <2>4. RewritesKeepRows'
    BY <2>1, <2>2, RewritesKept DEF RowsInv
  <2> QED
    BY <1>1, <2>1, <2>2, <2>3, <2>4, VersionsKept DEF RowsInv, SeenLater, Unanswered
<1>3. ASSUME NEW b \in Backend, NEW answer, Answers(b, answer) PROVE Grown /\ RowsInv'
  <2>1. UNCHANGED <<log, stored>> /\ Returns(b, answer)
    BY <1>3 DEF Answers
  <2>2. Grown
    BY <2>1, SameLogGrown
  <2> QED
    BY <1>1, <2>1, <2>2, ReturnedKept, VersionsKept DEF RowsInv
<1>4. ASSUME NEW b \in Backend, NEW r \in Requests, Start(b, r) \/ Refuse(b, r)
      PROVE  Grown /\ RowsInv'
  <2>1. CASE Start(b, r)
    <3>1. UNCHANGED <<log, stored>>
      BY <2>1 DEF Start, storage
    <3> QED
      BY <1>1, <2>1, <3>1, SameLogGrown, StartedKept, VersionsKept DEF RowsInv
  <2>2. CASE Refuse(b, r)
    BY <1>3, <2>2, AnswersOnly
  <2> QED
    BY <1>4, <2>1, <2>2
<1>5. ASSUME NEW b \in Backend, Step(b) PROVE Grown /\ RowsInv'
  <2>1. CASE Open(b) \/ CountRows(b) \/ ReadFragment(b) \/ DeleteAgain(b) \/ Survey(b)
    <3>1. UNCHANGED <<log, stored>>
      BY <2>1 DEF Open, CountRows, ReadFragment, DeleteAgain, Survey, storage
    <3> QED
      BY <1>1, <2>1, <3>1, SameLogGrown, MovedKept, VersionsKept DEF RowsInv
  <2>2. CASE AppendFile(b) \/ RewriteFragments(b)
    <3>1. UNCHANGED log
      BY <2>2 DEF AppendFile, RewriteFragments, WriteFile
    <3> QED
      BY <1>1, <2>2, <3>1, WrittenKept, VersionsKept DEF RowsInv
  <2>3. CASE \/ AppendCommit(b) \/ DeleteCommit(b) \/ OptimizeCommit(b)
             \/ CreateIndex(b) \/ DropIndex(b) \/ OptimizeIndices(b)
    <3>1. PICK ver, answer : /\ Commits(b, ver, answer) /\ Grown
                             /\ VersionsAreSound' /\ GoneIsGone'
      BY <2>3, CommitRows
    <3> QED
      BY <1>1, <3>1, ReturnedKept DEF RowsInv, Commits
  <2>4. CASE \/ Fail(b) \/ NothingToOptimize(b) \/ Sweep(b) \/ SweepFails(b) \/ Explain(b)
             \/ TableInfo(b) \/ FragmentStats(b) \/ ListFragments(b) \/ ListVersions(b)
             \/ ListIndices(b) \/ ScanDone(b)
    BY <1>3, <2>4, AnswersOnly
  <2> QED
    BY <1>5, <2>1, <2>2, <2>3, <2>4 DEF Step
<1> QED
  BY <1>2, <1>4, <1>5 DEF Next

LEMMA InitRowsInv == Init => RowsInv
<1> SUFFICES ASSUME Init PROVE RowsInv
  OBVIOUS
<1>1. /\ log = <<Version1>> /\ Latest = 1 /\ log[1] = Version1 /\ stored = Seed
  BY DEF Init, Latest
<1>2. VersionsAreSound
  <2>1. Sound(Version1)
    BY <1>1, ApartAssumption DEF Sound, Version1
  <2> QED
    BY <1>1, <2>1 DEF VersionsAreSound
<1>3. GoneIsGone
  BY <1>1 DEF GoneIsGone
<1>4. /\ Writing /\ AppendsAreNew /\ RewritesKeepRows /\ SeenLater /\ Unanswered
  BY DEF Init, Writing, AppendsAreNew, Appends, RewritesKeepRows, SeenLater, Unanswered
<1> QED
  BY <1>2, <1>3, <1>4 DEF RowsInv

(***************************************************************************)
(* The inductive invariant of the rows: a row is in one fragment of a      *)
(* version, what is appended is new, what is rewritten is kept, and what   *)
(* is gone stays gone, whatever commits, fails or is retried in between.   *)
(***************************************************************************)
THEOREM RowsInvariant == Spec => []RowsInv
<1>1. IInv /\ RowsInv /\ [Next]_vars => RowsInv'
  BY RowsKept
<1> QED
  BY <1>1, InitRowsInv, MaintenanceInvariant, PTL DEF Spec

-----------------------------------------------------------------------------
(* The steps of the table.                                                 *)

\* A backend owes the table what it owed, if its call stands where it stood.
LEMMA OwesTheSame ==
    ASSUME IInv, Grown, NEW c \in Backend,
           pc'[c] = pc[c], call'[c] = call[c], base'[c] = base[c], reply'[c] = reply[c]
    PROVE  Todo'[c] = Todo[c]
<1>1. PICK v \in 1 .. Latest : v = base[c]
  BY DEF IInv, HasOpened
<1>2. RowsAt(v)' = RowsAt(v)
  BY OldVersions
<1>3. base'[c] = v
  BY <1>1
<1>4. RowsAt(base[c])' = RowsAt(v)'
  BY <1>3 DEF RowsAt, Frags, Live
<1>5. Must(c)' = Must(c)
  BY <1>1, <1>2, <1>4 DEF Must
<1> QED
  BY <1>5 DEF Todo

\* What a backend owes while it runs, and what when it does not.
LEMMA Owed ==
    ASSUME NEW b \in Backend, pc[b] = "run", call[b].op \in {"append", "delete"},
           reply[b] = NoReply
    PROVE  Todo[b] = <<call[b].op, call[b].rows, Must(b)>>
BY DEF Todo, NoReply

LEMMA OwedNext ==
    ASSUME NEW b \in Backend, pc'[b] = "run", call'[b].op \in {"append", "delete"},
           reply'[b] = NoReply
    PROVE  Todo'[b] = <<call'[b].op, call'[b].rows, Must(b)'>>
BY DEF Todo, NoReply

LEMMA OwesNothing ==
    ASSUME NEW b \in Backend, ~ (pc[b] = "run" /\ call[b].op \in {"append", "delete"})
    PROVE  Todo[b] = IF reply[b].op \in {"append", "delete"} THEN Done ELSE Idle
BY DEF Todo

LEMMA OwesNothingNext ==
    ASSUME NEW b \in Backend, ~ (pc'[b] = "run" /\ call'[b].op \in {"append", "delete"})
    PROVE  Todo'[b] = IF reply'[b].op \in {"append", "delete"} THEN Done ELSE Idle
BY DEF Todo

\* Only backend b moves, and the rows stay: it owes nothing more, or what it
\* owed before.
LEMMA GivesUp ==
    ASSUME NEW b \in Backend, RowsAt(Latest)' = RowsAt(Latest),
           \A c \in Backend \ {b} : Todo'[c] = Todo[c],
           Todo'[b] \in {Idle, Todo[b]}
    PROVE  [Table!Next]_<<RowsAt(Latest), Todo>>
<1>1. Todo = [c \in Backend |-> Todo[c]] /\ Todo' = [c \in Backend |-> Todo'[c]]
  BY DEF Todo
<1>2. Todo' = [Todo EXCEPT ![b] = Todo'[b]]
  BY <1>1
<1>3. CASE Todo'[b] = Todo[b]
  <2>1. Todo' = Todo
    BY <1>1, <1>3
  <2> QED
    BY <2>1
<1>4. CASE Todo'[b] = Idle /\ Todo[b] # Idle
  BY <1>2, <1>4 DEF Table!Next, Table!GiveUp
<1> QED
  BY <1>3, <1>4

\* The steps of one backend leave alone what the others owe.
LEMMA OthersOweTheSame ==
    ASSUME IInv, Grown, NEW b \in Backend,
           \A c \in Backend \ {b} : /\ pc'[c] = pc[c] /\ call'[c] = call[c]
                                    /\ base'[c] = base[c] /\ reply'[c] = reply[c]
    PROVE  \A c \in Backend \ {b} : Todo'[c] = Todo[c]
BY OwesTheSame

LEMMA AnswersGiveUp ==
    ASSUME IInv, RowsInv, Grown, NEW b \in Backend, NEW answer, Returns(b, answer),
           answer.op \notin {"append", "delete"}, RowsAt(Latest)' = RowsAt(Latest)
    PROVE  [Table!Next]_<<RowsAt(Latest), Todo>>
<1> USE DEF IInv
<1>1. \A c \in Backend \ {b} : Todo'[c] = Todo[c]
  BY Returned, OthersOweTheSame
<1>2. pc'[b] = "idle" /\ reply'[b] = answer
  BY Returned
<1>3. Todo'[b] = Idle
  BY <1>2, OwesNothingNext
<1> QED
  BY <1>1, <1>3, GivesUp

LEMMA SameRows ==
    ASSUME IInv, UNCHANGED log, Grown
    PROVE  RowsAt(Latest)' = RowsAt(Latest)
<1>1. PICK n \in 1 .. Latest : n = Latest
  BY LogIsThere DEF IInv
<1>2. Latest' = n /\ RowsAt(n)' = RowsAt(n)
  BY <1>1, OldVersions DEF Latest
<1>3. RowsAt(Latest)' = RowsAt(n)'
  BY <1>2 DEF RowsAt, Frags, Live
<1> QED
  BY <1>1, <1>2, <1>3

LEMMA OpenIssues ==
    ASSUME IInv, RowsInv, NEW b \in Backend, Open(b)
    PROVE  [Table!Next]_<<RowsAt(Latest), Todo>>
<1> USE DEF IInv, RowsInv
<1>1. /\ UNCHANGED <<log, stored, call, reply>> /\ reply[b] = NoReply
      /\ pc[b] = "open" /\ pc'[b] = "run" /\ base'[b] = Latest
      /\ \A c \in Backend \ {b} : pc'[c] = pc[c] /\ base'[c] = base[c]
  BY DEF Open, storage, Shape, Unanswered
<1>2. Grown /\ RowsAt(Latest)' = RowsAt(Latest)
  BY <1>1, SameLogGrown, SameRows
<1>3. \A c \in Backend \ {b} : Todo'[c] = Todo[c]
  BY <1>1, <1>2, OthersOweTheSame
<1>4. Todo[b] = Idle
  BY <1>1, OwesNothing DEF NoReply
<1>5. CASE call[b].op \notin {"append", "delete"}
  <2>1. Todo'[b] = Idle
    BY <1>1, <1>5, OwesNothingNext DEF NoReply
  <2> QED
    BY <1>2, <1>3, <2>1, GivesUp
<1>6. CASE call[b].op \in {"append", "delete"}
  <2> DEFINE R == call[b].rows
  <2>1. RowsAt(base[b])' = RowsAt(Latest)
    <3>1. RowsAt(base[b])' = RowsAt(Latest)'
      BY <1>1 DEF RowsAt, Frags, Live, Latest
    <3> QED
      BY <1>2, <3>1
  <2>2. Must(b)' = IF call[b].op = "append" THEN R ELSE R \intersect RowsAt(Latest)
    BY <1>1, <2>1 DEF Must
  <2>3. Todo'[b] = <<call[b].op, R, Must(b)'>>
    BY <1>1, <1>6, OwedNext
  <2>4. Todo' = [Todo EXCEPT ![b] = Todo'[b]]
    <3>1. Todo = [c \in Backend |-> Todo[c]] /\ Todo' = [c \in Backend |-> Todo'[c]]
      BY DEF Todo
    <3> QED
      BY <1>3, <3>1
  <2>5. R \in Change
    <3>1. call[b] \in Requests
      BY <1>6 DEF Shape, NoCall
    <3> QED
      BY <1>6, <3>1 DEF Change
  <2>6. CASE call[b].op = "append"
    <3>1. Table!IssueAppend(b, R)
      BY <1>2, <1>4, <2>2, <2>3, <2>4, <2>6 DEF Table!IssueAppend
    <3> QED
      BY <2>5, <3>1 DEF Table!Next
  <2>7. CASE call[b].op = "delete"
    <3>1. Table!IssueDelete(b, R)
      BY <1>2, <1>4, <2>2, <2>3, <2>4, <2>7 DEF Table!IssueDelete
    <3> QED
      BY <2>5, <3>1 DEF Table!Next
  <2> QED
    BY <1>6, <2>6, <2>7
<1> QED
  BY <1>5, <1>6

LEMMA CommitApplies ==
    ASSUME IInv, RowsInv, NEW b \in Backend,
           \/ AppendCommit(b) \/ DeleteCommit(b) \/ OptimizeCommit(b)
           \/ CreateIndex(b) \/ DropIndex(b) \/ OptimizeIndices(b)
    PROVE  [Table!Next]_<<RowsAt(Latest), Todo>>
<1> USE DEF IInv, RowsInv
<1>1. PICK ver, answer :
        /\ Commits(b, ver, answer) /\ Grown
        /\ \/ /\ AppendCommit(b) /\ answer.op = "append"
              /\ RowsAt(Latest)' = RowsAt(Latest) \union call[b].rows
           \/ /\ DeleteCommit(b) /\ answer.op = "delete"
              /\ RowsAt(Latest)' =
                   RowsAt(Latest) \ (call[b].rows \intersect RowsAt(seen[b]))
           \/ /\ call[b].op \notin {"append", "delete"}
              /\ answer.op \notin {"append", "delete"}
              /\ RowsAt(Latest)' = RowsAt(Latest)
  BY CommitRows
<1>2. Returns(b, answer)
  BY <1>1 DEF Commits
<1>3. \A c \in Backend \ {b} : Todo'[c] = Todo[c]
  BY <1>1, <1>2, Returned, OthersOweTheSame
<1>4. pc'[b] = "idle" /\ reply'[b] = answer
  BY <1>2, Returned
<1>5. Todo' = [Todo EXCEPT ![b] = Todo'[b]]
  <2>1. Todo = [c \in Backend |-> Todo[c]] /\ Todo' = [c \in Backend |-> Todo'[c]]
    BY DEF Todo
  <2> QED
    BY <1>3, <2>1
<1>6. CASE answer.op \notin {"append", "delete"}
  BY <1>1, <1>2, <1>6, AnswersGiveUp
<1>7. ASSUME answer.op \in {"append", "delete"}
      PROVE  Todo'[b] = Done
  BY <1>4, <1>7, OwesNothingNext
<1>8. CASE answer.op = "append"
  <2>1. /\ pc[b] = "run" /\ call[b].op = "append" /\ reply[b] = NoReply
        /\ RowsAt(Latest)' = RowsAt(Latest) \union call[b].rows
    BY <1>1, <1>8 DEF AppendCommit, Runs, Unanswered
  <2>2. Todo[b] = <<"append", call[b].rows, call[b].rows>>
    BY <2>1, Owed DEF Must
  <2>3. Todo[b] \notin {Idle, Done} /\ Todo[b][1] = "append" /\ Todo[b][2] = call[b].rows
    <3>1. Todo[b][1] = "append" /\ Todo[b][2] = call[b].rows
      BY <2>2
    <3>2. Idle[1] = "idle" /\ Done[1] = "done"
      BY DEF Idle, Done
    <3> QED
      BY <3>1, <3>2
  <2>4. Table!ApplyAppend(b)
    BY <1>5, <1>7, <1>8, <2>1, <2>3 DEF Table!ApplyAppend, Table!Applied
  <2> QED
    BY <2>4 DEF Table!Next
<1>9. CASE answer.op = "delete"
  <2> DEFINE P == call[b].rows
             D == P \intersect RowsAt(seen[b]) \intersect RowsAt(Latest)
  <2>1. /\ pc[b] = "run" /\ call[b].op = "delete" /\ reply[b] = NoReply
        /\ RowsAt(Latest)' = RowsAt(Latest) \ (P \intersect RowsAt(seen[b]))
    BY <1>1, <1>9 DEF DeleteCommit, Runs, Unanswered
  <2>2. Todo[b] = <<"delete", P, P \intersect RowsAt(base[b])>>
    BY <2>1, Owed DEF Must
  <2>3. /\ Todo[b] \notin {Idle, Done} /\ Todo[b][1] = "delete" /\ Todo[b][2] = P
        /\ Todo[b][3] = P \intersect RowsAt(base[b])
    <3>1. /\ Todo[b][1] = "delete" /\ Todo[b][2] = P
          /\ Todo[b][3] = P \intersect RowsAt(base[b])
      BY <2>2
    <3>2. Idle[1] = "idle" /\ Done[1] = "done"
      BY DEF Idle, Done
    <3> QED
      BY <3>1, <3>2
  <2>4. PICK n \in Nat : n = Latest
    BY LogIsThere
  <2>5. /\ n \in 1 .. n /\ seen[b] \in 1 .. n /\ base[b] \in 1 .. seen[b]
    BY <2>4, LogIsThere DEF HasOpened, SeenLater
  <2>6. RowsAt(base[b]) \intersect RowsAt(n) \subseteq RowsAt(seen[b])
    BY <2>4, <2>5 DEF GoneIsGone
  <2>7. /\ D \in SUBSET (Todo[b][2] \intersect RowsAt(Latest))
        /\ Todo[b][3] \intersect RowsAt(Latest) \subseteq D
        /\ RowsAt(Latest)' = RowsAt(Latest) \ D
    BY <2>1, <2>3, <2>4, <2>6
  <2> HIDE DEF D
  <2>8. Table!ApplyDelete(b)
    BY <1>5, <1>7, <1>9, <2>3, <2>7 DEF Table!ApplyDelete, Table!Applied
  <2> QED
    BY <2>8 DEF Table!Next
<1> QED
  BY <1>1, <1>6, <1>8, <1>9

LEMMA TableStep ==
    ASSUME IInv, RowsInv, [Next]_vars
    PROVE  [Table!Next]_<<RowsAt(Latest), Todo>>
<1> USE DEF IInv, RowsInv
<1>1. Grown
  BY RowsKept
<1>2. CASE UNCHANGED vars \/ Tag \/ TimePasses
  <2>1. UNCHANGED <<log, call, pc, base, reply>>
    BY <1>2 DEF vars, storage, local, Tag, TimePasses
  <2>2. RowsAt(Latest)' = RowsAt(Latest) /\ \A c \in Backend : Todo'[c] = Todo[c]
    BY <1>1, <2>1, SameRows, OwesTheSame
  <2>3. Todo = [c \in Backend |-> Todo[c]] /\ Todo' = [c \in Backend |-> Todo'[c]]
    BY DEF Todo
  <2> QED
    BY <2>2, <2>3
<1>3. ASSUME NEW b \in Backend, NEW answer, Answers(b, answer)
      PROVE  [Table!Next]_<<RowsAt(Latest), Todo>>
  BY <1>1, <1>3, SameRows, AnswersGiveUp DEF Answers
<1>4. ASSUME NEW b \in Backend, UNCHANGED log,
             pc'[b] # "run" \/ call'[b].op \notin {"append", "delete"},
             reply'[b] = NoReply,
             \A c \in Backend \ {b} : /\ pc'[c] = pc[c] /\ call'[c] = call[c]
                                      /\ base'[c] = base[c] /\ reply'[c] = reply[c]
      PROVE  [Table!Next]_<<RowsAt(Latest), Todo>>
  <2>1. Todo'[b] = Idle
    BY <1>4, OwesNothingNext DEF NoReply
  <2> QED
    BY <1>1, <1>4, <2>1, SameRows, OthersOweTheSame, GivesUp
<1>5. ASSUME NEW b \in Backend, NEW r \in Requests, Start(b, r) \/ Refuse(b, r)
      PROVE  [Table!Next]_<<RowsAt(Latest), Todo>>
  <2>1. CASE Start(b, r)
    BY <1>4, <2>1 DEF Start, Shape, storage
  <2>2. CASE Refuse(b, r)
    BY <1>3, <2>2, AnswersOnly
  <2> QED
    BY <1>5, <2>1, <2>2
<1>6. ASSUME NEW b \in Backend, Step(b) PROVE [Table!Next]_<<RowsAt(Latest), Todo>>
  <2>1. CASE Open(b)
    BY <2>1, OpenIssues
  <2>2. CASE CountRows(b) \/ Survey(b)
    <3>1. pc[b] = "run" /\ pc'[b] # "run" /\ UNCHANGED <<log, call, base, reply>>
      BY <2>2 DEF CountRows, Survey, Runs, Shape, storage
    <3>2. \A c \in Backend \ {b} : pc'[c] = pc[c]
      BY <2>2 DEF CountRows, Survey, Shape
    <3> QED
      BY <1>4, <3>1, <3>2 DEF Unanswered
  <2>3. CASE \/ AppendCommit(b) \/ DeleteCommit(b) \/ OptimizeCommit(b)
             \/ CreateIndex(b) \/ DropIndex(b) \/ OptimizeIndices(b)
    BY <2>3, CommitApplies
  <2>4. CASE ReadFragment(b) \/ DeleteAgain(b) \/ AppendFile(b) \/ RewriteFragments(b)
    <3>1. UNCHANGED <<log, call, pc, base, reply>>
      BY <2>4 DEF ReadFragment, DeleteAgain, AppendFile, RewriteFragments, WriteFile,
                  storage
    <3>2. RowsAt(Latest)' = RowsAt(Latest) /\ \A c \in Backend : Todo'[c] = Todo[c]
      BY <1>1, <3>1, SameRows, OwesTheSame
    <3> QED
      BY <3>2, GivesUp
  <2>5. CASE \/ Fail(b) \/ NothingToOptimize(b) \/ Sweep(b) \/ SweepFails(b) \/ Explain(b)
             \/ TableInfo(b) \/ FragmentStats(b) \/ ListFragments(b) \/ ListVersions(b)
             \/ ListIndices(b) \/ ScanDone(b)
    BY <1>3, <2>5, AnswersOnly
  <2> QED
    BY <1>6, <2>1, <2>2, <2>3, <2>4, <2>5 DEF Step
<1> QED
  BY <1>2, <1>5, <1>6 DEF Next

(***************************************************************************)
(* lance_delete, lance_optimize, the index functions and vacuum, running   *)
(* beside appends and beside one another, implement one table of rows:     *)
(* each append and each delete takes effect once and as a whole, a delete  *)
(* takes every row it found that is still there, and nothing else changes  *)
(* a row.                                                                  *)
(***************************************************************************)
THEOREM MaintenanceImplementsTable == Spec => ImplementsTable
<1>1. Init => Table!Init
  <2> SUFFICES ASSUME Init PROVE Table!Init
    OBVIOUS
  <2>1. Todo = [b \in Backend |-> Idle]
    <3>1. \A b \in Backend : Todo[b] = Idle
      BY OwesNothing DEF Init, NoReply
    <3>2. Todo = [b \in Backend |-> Todo[b]]
      BY DEF Todo
    <3> QED
      BY <3>1, <3>2
  <2>2. RowsAt(Latest) \subseteq Row
    <3>1. Latest = 1 /\ log[1] = Version1
      BY DEF Init, Latest
    <3>2. \A f \in DOMAIN Seed : Seed[f] \subseteq Row
      BY SeedAssumption
    <3> QED
      BY <3>1, <3>2 DEF RowsAt, Frags, Live, Version1, Init
  <2> QED
    BY <2>1, <2>2 DEF Table!Init
<1>2. IInv /\ RowsInv /\ [Next]_vars => [Table!Next]_<<RowsAt(Latest), Todo>>
  BY TableStep
<1>3. [Table!Next]_<<RowsAt(Latest), Todo>> => [Table!Next]_(Table!tvars)
  BY DEF Table!tvars
<1> QED
  BY <1>1, <1>2, <1>3, MaintenanceInvariant, RowsInvariant, PTL
     DEF Spec, ImplementsTable, Table!Spec

-----------------------------------------------------------------------------
\* Reports.


FilesAreFinite == \A f \in 1 .. Len(stored) : IsFiniteSet(stored[f])

\* What a call has read of version v: a report has counted its rows, a scan
\* has the rows of all fragments but those it has yet to read.
ReadSoFar(op, at, v, W, R) ==
    /\ at \in {"idle", "open"} => R = {}
    /\ at = "counted" => R = RowsAt(v)
    /\ at = "run" /\ op = "scan" =>
         W \subseteq Frags(v) /\ R \union UNION { Live(v, f) : f \in W } = RowsAt(v)
HasRead ==
    \A b \in Backend : ReadSoFar(call[b].op, pc[b], base[b], work[b], got[b])

\* The types the invariant of the rest does not need.
OtherTypes ==
    /\ tags \subseteq Nat /\ calls \in Nat
    /\ got \in [Backend -> SUBSET Row] /\ reply \in [Backend -> Reply]
    /\ condemned \subseteq Nat \X Requests /\ blind \subseteq Nat /\ late \subseteq Nat

\* What lance_fragment_stats and a row of lance_list_fragments say of version v.
TrueCounts(v, logical, deleted) ==
    /\ logical = Cardinality(RowsIn(v, Sized(v) \ Uncounted(v)))
    /\ deleted = Cardinality(DeadIn(v, Sized(v))) + Cardinality(RowsIn(v, Uncounted(v)))
TrueRow(v, r) ==
    /\ r.physical = None <=> r.id \notin Sized(v)
    /\ r.logical = None <=> r.id \notin Sized(v) \ Uncounted(v)
    /\ r.logical # None =>
         /\ r.deletions <=> r.logical < r.physical
         /\ r.physical - r.logical = Cardinality(DeadIn(v, {r.id}))

\* What ReportsAreOfOneVersion and DeleteCountsItsFragments say of an answer.
TrueReport(a) ==
    /\ a.op = "info" =>
         /\ a.version \in 1 .. Latest /\ a.latest \in Nat
         /\ a.rows = Cardinality(RowsAt(a.version))
         /\ a.fragments = Cardinality(Frags(a.version))
         /\ a.version <= a.latest /\ a.latest <= Latest
    /\ a.op = "stats" =>
         /\ a.version \in 1 .. Latest
         /\ a.fragments = Cardinality(Frags(a.version))
         /\ TrueCounts(a.version, a.logical, a.deleted)
    /\ a.op = "fragments" =>
         /\ a.version \in 1 .. Latest
         /\ \A r \in a.list : TrueRow(a.version, r)
         /\ {r.id : r \in a.list} = Frags(a.version)
    /\ a.op = "scan" => a.version \in 1 .. Latest /\ a.rows = RowsAt(a.version)
    /\ a.op = "delete" =>
         /\ a.read \in 1 .. Latest /\ a.at \in 1 .. Latest
         /\ LET gone == Frags(a.read) \ Frags(a.at)
            IN  /\ a.removed <= Cardinality(gone)
                /\ a.at = a.read + 1 => a.removed = Cardinality(gone)
ReportsAreTrue == \A b \in Backend : TrueReport(reply[b])

ReportInv == FilesAreFinite /\ HasRead /\ OtherTypes /\ ReportsAreTrue

-----------------------------------------------------------------------------
(* Counting.                                                               *)

\* The counts of two sets and of what is in one of them only.
LEMMA CountRemoved ==
    ASSUME NEW A, NEW B, IsFiniteSet(A), IsFiniteSet(B)
    PROVE  LET k == Cardinality(A) - Cardinality(B)
               n == IF k > 0 THEN k ELSE 0
           IN  /\ n \in Nat /\ Cardinality(A \ B) \in Nat
               /\ n <= Cardinality(A \ B)
               /\ B \subseteq A => n = Cardinality(A \ B)
<1>1. /\ IsFiniteSet(A \ B) /\ IsFiniteSet(A \intersect B)
      /\ Cardinality(A \ B) = Cardinality(A) - Cardinality(A \intersect B)
      /\ Cardinality(A \intersect B) <= Cardinality(B)
  BY FS_Difference, FS_Intersection
<1>2. /\ Cardinality(A) \in Nat /\ Cardinality(B) \in Nat
      /\ Cardinality(A \ B) \in Nat /\ Cardinality(A \intersect B) \in Nat
  BY <1>1, FS_CardinalityType
<1>3. B \subseteq A => A \intersect B = B
  OBVIOUS
<1> QED
  BY <1>1, <1>2, <1>3

\* Pairs that differ in their second part are as many as the second parts.
LEMMA CountSeconds ==
    ASSUME NEW S, NEW T, IsFiniteSet(S), \A p \in S : p[2] \in T,
           \A p, q \in S : p[2] = q[2] => p = q,
           \A t \in T : \E p \in S : p[2] = t
    PROVE  IsFiniteSet(T) /\ Cardinality(T) = Cardinality(S)
<1> DEFINE g == [p \in S |-> p[2]]
<1>1. g \in [S -> T] /\ \A p \in S : g[p] = p[2]
  OBVIOUS
<1>2. g \in Injection(S, T)
  BY <1>1 DEF Injection, IsInjective
<1>3. g \in Surjection(S, T)
  BY <1>1 DEF Surjection
<1>4. g \in Bijection(S, T)
  BY <1>2, <1>3 DEF Bijection
<1>5. ExistsBijection(S, T)
  BY <1>4 DEF ExistsBijection
<1> QED
  BY <1>5, FS_Bijection

\* The union of finitely many of the files is finite.
LEMMA FilesUnion ==
    ASSUME NEW F, IsFiniteSet(F), NEW g, \A f \in F : IsFiniteSet(g[f])
    PROVE  IsFiniteSet(UNION {g[f] : f \in F})
<1> DEFINE h == [f \in F |-> g[f]]
           T == {g[f] : f \in F}
<1>1. h \in [F -> T] /\ \A t \in T : \E f \in F : h[f] = t
  OBVIOUS
<1>2. h \in Surjection(F, T)
  BY <1>1 DEF Surjection
<1>3. IsFiniteSet(T)
  BY <1>2, FS_Surjection
<1>4. \A t \in T : IsFiniteSet(t)
  OBVIOUS
<1> QED
  BY <1>3, <1>4, FS_UNION

\* A version has finitely many fragments, rows and marks.
LEMMA FiniteVersion ==
    ASSUME IInv, RowsInv, FilesAreFinite, NEW v \in 1 .. Latest
    PROVE  /\ IsFiniteSet(Frags(v)) /\ \A f \in Frags(v) : IsFiniteSet(stored[f])
           /\ IsFiniteSet(RowsAt(v)) /\ IsFiniteSet(Physical(Frags(v)))
           /\ log[v].dead \subseteq Physical(Frags(v))
<1> DEFINE F == Frags(v)
           U == UNION {stored[f] : f \in F}
<1>1. Len(stored) \in Nat /\ F \subseteq 1 .. Len(stored)
  BY LenProperties DEF IInv, Shape, NamesWritten
<1>2. IsFiniteSet(F)
  <2>1. IsFiniteSet(1 .. Len(stored))
    BY <1>1, FS_Interval
  <2> QED
    BY <1>1, <2>1, FS_Subset
<1>3. \A f \in F : IsFiniteSet(stored[f])
  BY <1>1 DEF FilesAreFinite
<1>4. IsFiniteSet(U)
  BY <1>2, <1>3, FilesUnion
<1>5. IsFiniteSet(RowsAt(v))
  <2>1. RowsAt(v) \subseteq U
    BY DEF RowsAt, Live
  <2> QED
    BY <1>4, <2>1, FS_Subset
<1>6. IsFiniteSet(Physical(F))
  <2>1. IsFiniteSet(F \X U)
    BY <1>2, <1>4, FS_Product
  <2>2. Physical(F) \subseteq F \X U
    BY DEF Physical
  <2> QED
    BY <2>1, <2>2, FS_Subset
<1>7. log[v].dead \subseteq Physical(F)
  <2>1. Sound(log[v]) /\ log[v] \in Version
    BY LogIsThere DEF IInv, RowsInv, VersionsAreSound
  <2>2. log[v].dead \subseteq Nat \X Row
    BY <2>1 DEF Version
  <2> QED
    BY <2>1, <2>2 DEF Sound, Physical, Frags
<1> QED
  BY <1>2, <1>3, <1>5, <1>6, <1>7

\* The rows that some of the fragments of a version show are finitely many, and
\* what the files of these fragments hold beside them is marked deleted.
LEMMA CountDeleted ==
    ASSUME IInv, RowsInv, FilesAreFinite, NEW v \in 1 .. Latest,
           NEW F \in SUBSET Frags(v)
    PROVE  /\ IsFiniteSet(RowsIn(v, F))
           /\ Cardinality(Physical(F)) \in Nat /\ Cardinality(RowsIn(v, F)) \in Nat
           /\ Cardinality(DeadIn(v, F)) \in Nat
           /\ Cardinality(Physical(F)) - Cardinality(RowsIn(v, F))
                = Cardinality(DeadIn(v, F))
<1> DEFINE D == DeadIn(v, F)
           L == Physical(F) \ D
<1>1. IsFiniteSet(Physical(F)) /\ IsFiniteSet(RowsIn(v, F)) /\ D \subseteq Physical(F)
  <2>1. Physical(F) \subseteq Physical(Frags(v))
    BY DEF Physical
  <2>2. RowsIn(v, F) \subseteq RowsAt(v)
    BY DEF RowsIn, RowsAt
  <2>3. D \subseteq Physical(F)
    BY FiniteVersion DEF DeadIn, Within, Physical
  <2> QED
    BY <2>1, <2>2, <2>3, FiniteVersion, FS_Subset
<1>2. /\ IsFiniteSet(L) /\ IsFiniteSet(D)
      /\ Cardinality(L) = Cardinality(Physical(F)) - Cardinality(D)
  <2>1. Physical(F) \intersect D = D
    BY <1>1
  <2> QED
    BY <1>1, <2>1, FS_Difference, FS_Subset
<1>3. Sound(log[v]) /\ log[v] \in Version
  BY LogIsThere DEF IInv, RowsInv, VersionsAreSound
<1>4. \A p \in L : /\ p = <<p[1], p[2]>> /\ p[1] \in F /\ p[2] \in stored[p[1]]
                   /\ <<p[1], p[2]>> \notin log[v].dead
  BY DEF Physical, DeadIn, Within
<1>5. \A p \in L : p = <<p[1], p[2]>> /\ Shows(log[v], p[1], p[2])
  BY <1>4 DEF Shows, Frags
<1>6. ASSUME NEW f \in F, NEW r \in Live(v, f) PROVE <<f, r>> \in L
  <2>1. r \in stored[f] /\ <<f, r>> \notin log[v].dead
    BY DEF Live
  <2>2. stored[f] \subseteq Row
    BY ElementOfSeq DEF IInv, Shape, NamesWritten
  <2> QED
    BY <2>1, <2>2 DEF Physical, DeadIn, Within
<1>7. \A p \in L : p[2] \in RowsIn(v, F)
  <2> SUFFICES ASSUME NEW p \in L PROVE p[2] \in RowsIn(v, F)
    OBVIOUS
  <2>1. p[1] \in F /\ p[2] \in Live(v, p[1])
    BY <1>4 DEF Live
  <2> QED
    BY <2>1 DEF RowsIn
<1>8. \A p, q \in L : p[2] = q[2] => p = q
  BY <1>3, <1>5, SoundRows
<1>9. \A r \in RowsIn(v, F) : \E p \in L : p[2] = r
  <2> SUFFICES ASSUME NEW f \in F, NEW r \in Live(v, f) PROVE \E p \in L : p[2] = r
    BY DEF RowsIn
  <2>1. <<f, r>> \in L /\ <<f, r>>[2] = r
    BY <1>6
  <2> QED
    BY <2>1
<1> HIDE DEF L
<1>10. Cardinality(RowsIn(v, F)) = Cardinality(L)
  BY <1>2, <1>7, <1>8, <1>9, CountSeconds
<1>11. /\ Cardinality(Physical(F)) \in Nat /\ Cardinality(RowsIn(v, F)) \in Nat
       /\ Cardinality(D) \in Nat /\ Cardinality(L) \in Nat
  BY <1>1, <1>2, FS_CardinalityType
<1> QED
  BY <1>1, <1>2, <1>10, <1>11

\* Fragments of a version share no row: their rows can be counted apart.
LEMMA CountApart ==
    ASSUME IInv, RowsInv, FilesAreFinite, NEW v \in 1 .. Latest,
           NEW F \in SUBSET Frags(v), NEW G \in SUBSET F
    PROVE  Cardinality(RowsIn(v, F))
             = Cardinality(RowsIn(v, F \ G)) + Cardinality(RowsIn(v, G))
<1> DEFINE A == RowsIn(v, F \ G)
           B == RowsIn(v, G)
<1>1. RowsIn(v, F) = A \union B
  BY DEF RowsIn
<1>2. A \intersect B = {}
  <2> SUFFICES ASSUME NEW f \in F \ G, NEW g \in G, NEW r \in Live(v, f), r \in Live(v, g)
               PROVE  FALSE
    BY DEF RowsIn
  <2>1. Shows(log[v], f, r) /\ Shows(log[v], g, r)
    BY DEF Shows, Live, Frags
  <2>2. Sound(log[v]) /\ log[v] \in Version
    BY LogIsThere DEF IInv, RowsInv, VersionsAreSound
  <2> QED
    BY <2>1, <2>2, SoundRows
<1>3. F \ G \in SUBSET Frags(v) /\ G \in SUBSET Frags(v)
  OBVIOUS
<1>4. IsFiniteSet(A) /\ IsFiniteSet(B) /\ Cardinality(A) \in Nat /\ Cardinality(B) \in Nat
  BY <1>3, CountDeleted
<1> HIDE DEF A, B
<1>5. Cardinality(A \union B) = Cardinality(A) + Cardinality(B) - Cardinality(A \intersect B)
  BY <1>4, FS_Union
<1>6. Cardinality(A \intersect B) = 0
  BY <1>2, FS_EmptySet
<1> QED
  BY <1>1, <1>4, <1>5, <1>6 DEF A, B

\* The same, of one fragment.
LEMMA CountFragment ==
    ASSUME IInv, RowsInv, FilesAreFinite, NEW v \in 1 .. Latest, NEW f \in Frags(v)
    PROVE  /\ Cardinality(stored[f]) \in Nat /\ Cardinality(Live(v, f)) \in Nat
           /\ Cardinality(stored[f]) - Cardinality(Live(v, f)) = Cardinality(DeadIn(v, {f}))
           /\ DeadIn(v, {f}) # {} <=> Cardinality(Live(v, f)) < Cardinality(stored[f])
<1> DEFINE D == DeadIn(v, {f})
           M == stored[f] \ Live(v, f)
<1>1. IsFiniteSet(stored[f]) /\ IsFiniteSet(Physical(Frags(v))) /\ log[v].dead \subseteq Physical(Frags(v))
  BY FiniteVersion
<1>2. IsFiniteSet(D)
  <2>1. D \subseteq Physical(Frags(v))
    BY <1>1 DEF DeadIn, Within
  <2> QED
    BY <1>1, <2>1, FS_Subset
<1>3. /\ IsFiniteSet(M) /\ IsFiniteSet(Live(v, f))
      /\ Cardinality(M) = Cardinality(stored[f]) - Cardinality(Live(v, f))
  <2>1. Live(v, f) \subseteq stored[f] /\ stored[f] \intersect Live(v, f) = Live(v, f)
    BY DEF Live
  <2> QED
    BY <1>1, <2>1, FS_Difference, FS_Subset
<1>4. \A p \in D : p = <<f, p[2]>> /\ p[2] \in stored[f] /\ <<f, p[2]>> \in log[v].dead
  BY <1>1 DEF DeadIn, Within, Physical
<1>5. \A p \in D : p[2] \in M
  BY <1>4 DEF Live
<1>6. \A p, q \in D : p[2] = q[2] => p = q
  BY <1>4
<1>7. \A r \in M : \E p \in D : p[2] = r
  <2> SUFFICES ASSUME NEW r \in M PROVE \E p \in D : p[2] = r
    OBVIOUS
  <2>1. <<f, r>> \in D /\ <<f, r>>[2] = r
    BY DEF Live, DeadIn, Within
  <2> QED
    BY <2>1
<1> HIDE DEF D, M
<1>8. Cardinality(M) = Cardinality(D)
  BY <1>2, <1>5, <1>6, <1>7, CountSeconds
<1>9. /\ Cardinality(stored[f]) \in Nat /\ Cardinality(Live(v, f)) \in Nat
      /\ Cardinality(D) \in Nat
  BY <1>1, <1>2, <1>3, FS_CardinalityType
<1>10. D # {} <=> Cardinality(D) # 0
  BY <1>2, FS_EmptySet
<1>11. Cardinality(stored[f]) - Cardinality(Live(v, f)) = Cardinality(D)
  BY <1>3, <1>8, <1>9
<1>12. D # {} <=> Cardinality(Live(v, f)) < Cardinality(stored[f])
  BY <1>9, <1>10, <1>11
<1> QED
  BY <1>9, <1>11, <1>12 DEF D

-----------------------------------------------------------------------------
(* Stability: versions do not change, so what is true of one stays true.   *)

LEMMA CountsKept ==
    ASSUME IInv, Grown, NEW v \in 1 .. Latest
    PROVE  /\ Sized(v)' = Sized(v) /\ Uncounted(v)' = Uncounted(v)
           /\ \A F : DeadIn(v, F)' = DeadIn(v, F)
           /\ RowsIn(v, Sized(v) \ Uncounted(v))' = RowsIn(v, Sized(v) \ Uncounted(v))
           /\ RowsIn(v, Uncounted(v))' = RowsIn(v, Uncounted(v))
<1>1. /\ log'[v] = log[v] /\ Frags(v)' = Frags(v)
      /\ \A f \in Frags(v) : Live(v, f)' = Live(v, f)
  BY OldVersions
<1>2. \A F : DeadIn(v, F)' = DeadIn(v, F)
  BY <1>1 DEF DeadIn, Within
<1>3. Sized(v)' = Sized(v)
  BY <1>1 DEF Sized
<1>4. Uncounted(v)' = Uncounted(v)
  BY <1>2, <1>3 DEF Uncounted
<1>5. Sized(v) \subseteq Frags(v) /\ Uncounted(v) \subseteq Frags(v)
  BY DEF Sized, Uncounted
<1>6. UNION { Live(v, f)' : f \in Uncounted(v) } = UNION { Live(v, f) : f \in Uncounted(v) }
  BY <1>1, <1>5
<1>7. UNION { Live(v, f)' : f \in Sized(v) \ Uncounted(v) }
        = UNION { Live(v, f) : f \in Sized(v) \ Uncounted(v) }
  BY <1>1, <1>5
<1> QED
  BY <1>2, <1>3, <1>4, <1>6, <1>7 DEF RowsIn

LEMMA TrueKept ==
    ASSUME IInv, Grown, NEW a, TrueReport(a)
    PROVE  TrueReport(a)'
<1>1. \A v \in 1 .. Latest : /\ v \in 1 .. Latest' /\ log'[v] = log[v]
                             /\ Frags(v)' = Frags(v) /\ RowsAt(v)' = RowsAt(v)
  BY OldVersions
<1>2. Latest \in Nat /\ Latest' \in Nat /\ Latest <= Latest'
  BY LogIsThere DEF IInv, Grown
<1>3. CASE a.op = "info"
  BY <1>1, <1>2, <1>3 DEF TrueReport
<1>4. CASE a.op = "stats"
  <2> DEFINE v == a.version
  <2>1. v \in 1 .. Latest /\ a.fragments = Cardinality(Frags(v)) /\ TrueCounts(v, a.logical, a.deleted)
    BY <1>4 DEF TrueReport
  <2>2. TrueCounts(v, a.logical, a.deleted)'
    BY <2>1, CountsKept DEF TrueCounts
  <2>3. v \in 1 .. Latest' /\ a.fragments = Cardinality(Frags(v)')
    BY <1>1, <2>1
  <2> QED
    BY <1>4, <2>2, <2>3 DEF TrueReport
<1>5. CASE a.op = "fragments"
  <2> DEFINE v == a.version
  <2>1. /\ v \in 1 .. Latest
        /\ \A r \in a.list : TrueRow(v, r)
        /\ {r.id : r \in a.list} = Frags(v)
    BY <1>5 DEF TrueReport
  <2>2. \A r \in a.list : TrueRow(v, r)'
    BY <2>1, CountsKept DEF TrueRow
  <2>3. v \in 1 .. Latest' /\ {r.id : r \in a.list} = Frags(v)'
    BY <1>1, <2>1
  <2> QED
    BY <1>5, <2>2, <2>3 DEF TrueReport
<1>6. CASE a.op = "scan"
  BY <1>1, <1>6 DEF TrueReport
<1>7. CASE a.op = "delete"
  BY <1>1, <1>7 DEF TrueReport
<1>8. CASE a.op \notin {"info", "stats", "fragments", "scan", "delete"}
  BY <1>8 DEF TrueReport
<1> QED
  BY <1>3, <1>4, <1>5, <1>6, <1>7, <1>8

LEMMA ReadKept ==
    ASSUME IInv, Grown, NEW op, NEW at, NEW v \in 1 .. Latest, NEW W, NEW R,
           ReadSoFar(op, at, v, W, R)
    PROVE  ReadSoFar(op, at, v, W, R)'
<1>1. /\ Frags(v)' = Frags(v) /\ RowsAt(v)' = RowsAt(v)
      /\ \A f \in Frags(v) : Live(v, f)' = Live(v, f)
  BY OldVersions
<1> QED
  BY <1>1 DEF ReadSoFar

\* A call that moves on, and what it has read then.
LEMMA HasReadNext ==
    ASSUME NEW c, NEW op, NEW at, NEW v, NEW W, NEW R,
           call'[c].op = op, pc'[c] = at, base'[c] = v, work'[c] = W, got'[c] = R,
           ReadSoFar(op, at, v, W, R)'
    PROVE  ReadSoFar(call[c].op, pc[c], base[c], work[c], got[c])'
<1>1. Frags(base[c])' = Frags(v)' /\ RowsAt(base[c])' = RowsAt(v)'
  BY DEF RowsAt, Frags, Live
<1>2. \A f : Live(base[c], f)' = Live(v, f)'
  BY DEF Live
<1>3. UNION { Live(base[c], f)' : f \in work'[c] } = UNION { Live(v, f)' : f \in W }
  BY <1>2
<1> QED
  BY <1>1, <1>3 DEF ReadSoFar

\* A call that stands still has read what it had read.
LEMMA StillRead ==
    ASSUME IInv, HasRead, Grown, NEW c \in Backend,
           call'[c].op = call[c].op, pc'[c] = pc[c], base'[c] = base[c],
           work'[c] = work[c] \/ call[c].op # "scan", got'[c] = got[c]
    PROVE  ReadSoFar(call[c].op, pc[c], base[c], work[c], got[c])'
<1>1. PICK v \in 1 .. Latest : v = base[c]
  BY DEF IInv, HasOpened
<1>2. PICK op, at, W, U, R : /\ op = call[c].op /\ at = pc[c] /\ W = work[c]
                             /\ U = work'[c] /\ R = got[c]
  OBVIOUS
<1>3. ReadSoFar(op, at, v, W, R)
  BY <1>1, <1>2 DEF HasRead
<1>4. ReadSoFar(op, at, v, U, R)
  BY <1>2, <1>3 DEF ReadSoFar
<1>5. ReadSoFar(op, at, v, U, R)'
  BY <1>4, ReadKept
<1> QED
  BY <1>1, <1>2, <1>5, HasReadNext

\* A call that returns has read nothing.
LEMMA ReturnedRead ==
    ASSUME IInv, ReportInv, Grown, NEW b \in Backend, NEW answer, Returns(b, answer)
    PROVE  HasRead'
<1> USE DEF IInv, ReportInv
<1>1. pc'[b] = "idle" /\ got'[b] = {}
  BY Returned DEF Returns, OtherTypes
<1>2. ASSUME NEW c \in Backend \ {b} PROVE ReadSoFar(call[c].op, pc[c], base[c], work[c], got[c])'
  <2>1. got'[c] = got[c]
    BY DEF Returns, OtherTypes
  <2> QED
    BY <2>1, Returned, StillRead
<1>3. ReadSoFar(call[b].op, pc[b], base[b], work[b], got[b])'
  BY <1>1 DEF ReadSoFar
<1> QED
  BY <1>2, <1>3 DEF HasRead

-----------------------------------------------------------------------------
(* Steps that read and write.                                              *)

LEMMA RowsAreRows ==
    ASSUME IInv, NEW v \in 1 .. Latest
    PROVE  RowsAt(v) \subseteq Row /\ \A f \in Frags(v) : Live(v, f) \subseteq Row
<1>1. Frags(v) \subseteq 1 .. Len(stored)
  BY DEF IInv, NamesWritten
<1>2. \A f \in Frags(v) : Live(v, f) \subseteq Row
  BY <1>1, ElementOfSeq DEF IInv, Shape, Live
<1> QED
  BY <1>2 DEF RowsAt

\* What one backend reads leaves alone what the others have read.
LEMMA OthersRead ==
    ASSUME IInv, HasRead, Grown, NEW b \in Backend,
           \A c \in Backend \ {b} :
              /\ call'[c] = call[c] /\ pc'[c] = pc[c] /\ base'[c] = base[c]
              /\ work'[c] = work[c] /\ got'[c] = got[c],
           ReadSoFar(call[b].op, pc[b], base[b], work[b], got[b])'
    PROVE  HasRead'
<1>1. ASSUME NEW c \in Backend \ {b}
      PROVE  ReadSoFar(call[c].op, pc[c], base[c], work[c], got[c])'
  BY StillRead
<1> QED
  BY <1>1 DEF HasRead

LEMMA StartRead ==
    ASSUME IInv, ReportInv, Grown, NEW b \in Backend, NEW r \in Requests, Start(b, r)
    PROVE  HasRead'
<1> USE DEF IInv, ReportInv
<1>1. got[b] = {}
  BY DEF Start, HasRead, ReadSoFar
<1>2. pc'[b] = "open" /\ got'[b] = {}
  BY <1>1 DEF Start, Shape
<1>3. ReadSoFar(call[b].op, pc[b], base[b], work[b], got[b])'
  BY <1>2 DEF ReadSoFar
<1>4. \A c \in Backend \ {b} :
         /\ call'[c] = call[c] /\ pc'[c] = pc[c] /\ base'[c] = base[c]
         /\ work'[c] = work[c] /\ got'[c] = got[c]
  BY DEF Start, Shape
<1> QED
  BY <1>3, <1>4, OthersRead

LEMMA MovedRead ==
    ASSUME IInv, RowsInv, ReportInv, Grown, NEW b \in Backend,
           \/ Open(b) \/ CountRows(b) \/ ReadFragment(b) \/ DeleteAgain(b) \/ Survey(b)
           \/ AppendFile(b) \/ RewriteFragments(b)
    PROVE  HasRead' /\ got' \in [Backend -> SUBSET Row]
<1> USE DEF IInv, RowsInv, ReportInv
<1>1. \A c \in Backend \ {b} :
         /\ call'[c] = call[c] /\ pc'[c] = pc[c] /\ base'[c] = base[c]
         /\ work'[c] = work[c] /\ got'[c] = got[c]
  BY DEF Open, CountRows, ReadFragment, DeleteAgain, Survey, AppendFile, RewriteFragments,
         WriteFile, Shape, OtherTypes
<1>2. PICK v \in 1 .. Latest : v = base[b]
  BY DEF HasOpened
<1>3. CASE Open(b)
  <2>1. PICK n \in 1 .. Latest : n = Latest
    BY LogIsThere
  <2>2. PICK op, W : op = call[b].op /\ W = work'[b]
    OBVIOUS
  <2>3. /\ call'[b].op = op /\ pc'[b] = "run" /\ base'[b] = n /\ work'[b] = W
        /\ got'[b] = {} /\ got' = got
        /\ op = "scan" => W = Frags(n)
    BY <1>3, <2>1, <2>2 DEF Open, Shape, HasRead, ReadSoFar
  <2>4. ReadSoFar(op, "run", n, W, {})
    BY <2>3 DEF ReadSoFar, RowsAt
  <2>5. ReadSoFar(op, "run", n, W, {})'
    BY <2>4, ReadKept
  <2> QED
    BY <1>1, <2>3, <2>5, HasReadNext, OthersRead DEF OtherTypes
<1>4. CASE CountRows(b)
  <2>1. PICK op, W, R : op = call[b].op /\ W = work[b] /\ R = RowsAt(v)
    OBVIOUS
  <2>2. /\ call'[b].op = op /\ pc'[b] = "counted" /\ base'[b] = v /\ work'[b] = W
        /\ got'[b] = R /\ got' \in [Backend -> SUBSET Row]
    BY <1>2, <1>4, <2>1, RowsAreRows DEF CountRows, Shape, OtherTypes
  <2>3. ReadSoFar(op, "counted", v, W, R)
    BY <2>1 DEF ReadSoFar
  <2>4. ReadSoFar(op, "counted", v, W, R)'
    BY <2>3, ReadKept
  <2> QED
    BY <1>1, <2>2, <2>4, HasReadNext, OthersRead
<1>5. CASE ReadFragment(b)
  <2>1. PICK f \in work[b] :
          /\ got' = [got EXCEPT ![b] = @ \union Live(base[b], f)]
          /\ work' = [work EXCEPT ![b] = @ \ {f}]
    BY <1>5 DEF ReadFragment
  <2>2. PICK W, R : W = work[b] /\ R = got[b]
    OBVIOUS
  <2>3. ReadSoFar("scan", "run", v, W, R) /\ call[b].op = "scan" /\ pc[b] = "run"
    BY <1>2, <1>5, <2>2 DEF ReadFragment, Runs, HasRead
  <2> DEFINE U == W \ {f}
             T == R \union Live(v, f)
  <2>4. /\ call'[b].op = "scan" /\ pc'[b] = "run" /\ base'[b] = v /\ work'[b] = U
        /\ got'[b] = T /\ got' \in [Backend -> SUBSET Row]
    <3>1. Live(v, f) \subseteq Row
      BY <2>1, <2>2, <2>3, RowsAreRows DEF ReadSoFar
    <3> QED
      BY <1>2, <1>5, <2>1, <2>2, <2>3, <3>1 DEF ReadFragment, Shape, OtherTypes
  <2>5. W \subseteq Frags(v) /\ R \union UNION { Live(v, g) : g \in W } = RowsAt(v)
    BY <2>3 DEF ReadSoFar
  <2>6. T \union UNION { Live(v, g) : g \in U } = RowsAt(v)
    <3>1. UNION { Live(v, g) : g \in W } = Live(v, f) \union UNION { Live(v, g) : g \in U }
      BY <2>1, <2>2
    <3> QED
      BY <2>5, <3>1
  <2>7. PICK X, Y : X = U /\ Y = T
    OBVIOUS
  <2>8. ReadSoFar("scan", "run", v, X, Y)
    BY <2>5, <2>6, <2>7 DEF ReadSoFar
  <2>9. ReadSoFar("scan", "run", v, X, Y)'
    BY <2>8, ReadKept
  <2> QED
    BY <1>1, <2>4, <2>7, <2>9, HasReadNext, OthersRead
<1>6. CASE DeleteAgain(b) \/ AppendFile(b) \/ RewriteFragments(b)
  <2>1. /\ call'[b] = call[b] /\ pc'[b] = pc[b] /\ base'[b] = base[b] /\ got' = got
        /\ call[b].op # "scan"
    BY <1>6 DEF DeleteAgain, AppendFile, RewriteFragments, WriteFile, Runs
  <2>2. ReadSoFar(call[b].op, pc[b], base[b], work[b], got[b])'
    BY <2>1, StillRead
  <2> QED
    BY <1>1, <2>1, <2>2, OthersRead DEF OtherTypes
<1>7. CASE Survey(b)
  <2>1. pc'[b] = "sweep" /\ got' = got
    BY <1>7 DEF Survey, Shape
  <2>2. ReadSoFar(call[b].op, pc[b], base[b], work[b], got[b])'
    BY <2>1 DEF ReadSoFar
  <2> QED
    BY <1>1, <2>1, <2>2, OthersRead DEF OtherTypes
<1> QED
  BY <1>3, <1>4, <1>5, <1>6, <1>7

\* What is written is finite.
LEMMA WrittenFiles ==
    ASSUME IInv, RowsInv, FilesAreFinite, NEW b \in Backend,
           AppendFile(b) \/ RewriteFragments(b)
    PROVE  FilesAreFinite'
<1> USE DEF IInv, RowsInv
<1>1. PICK R \in SUBSET Row : WriteFile(b, R) /\ IsFiniteSet(R)
  <2>1. CASE AppendFile(b)
    <3>1. call[b] \in Requests /\ call[b].op = "append"
      BY <2>1 DEF AppendFile, Runs, Shape, NoCall
    <3>2. call[b] \in Request
      BY <3>1, RequestAssumption
    <3>3. call[b].rows \in SUBSET Row
      BY <3>1, <3>2 DEF Request
    <3>4. IsFiniteSet(call[b].rows)
      BY <3>1, FiniteAssumption
    <3> QED
      BY <2>1, <3>3, <3>4 DEF AppendFile
  <2>2. CASE RewriteFragments(b)
    <3>1. PICK S \in Planned(b) : WriteFile(b, UNION { Live(base[b], f) : f \in S })
      BY <2>2 DEF RewriteFragments
    <3>2. PICK v \in 1 .. Latest : v = base[b]
      BY DEF HasOpened
    <3> DEFINE R == UNION { Live(v, f) : f \in S }
    <3>3. S \subseteq Frags(v)
      BY <3>2 DEF Planned
    <3>4. R \subseteq RowsAt(v)
      BY <3>3 DEF RowsAt
    <3>5. IsFiniteSet(R) /\ R \in SUBSET Row
      BY <3>4, FiniteVersion, RowsAreRows, FS_Subset
    <3> QED
      BY <3>1, <3>2, <3>5
  <2> QED
    BY <2>1, <2>2
<1>2. PICK m \in Nat : m = Len(stored)
  BY LenProperties DEF Shape
<1>3. /\ Len(stored') = m + 1 /\ stored'[m + 1] = R
      /\ \A f \in 1 .. m : stored'[f] = stored[f]
  BY <1>1, <1>2, WriteGrown DEF Grown
<1>4. ASSUME NEW f \in 1 .. m + 1 PROVE IsFiniteSet(stored'[f])
  BY <1>1, <1>2, <1>3 DEF FilesAreFinite
<1> QED
  BY <1>3, <1>4 DEF FilesAreFinite

-----------------------------------------------------------------------------
(* Every answer is true when it is given.                                  *)

\* An answer of a call that only looks.
Truthful(b, a) == Returns(b, a) /\ a \in Reply /\ TrueReport(a)

LEMMA OtherAnswers ==
    ASSUME NEW a, a.op \notin {"info", "stats", "fragments", "scan", "delete"}
    PROVE  TrueReport(a)
BY DEF TrueReport

LEMMA TrueInfo ==
    ASSUME IInv, RowsInv, ReportInv, NEW b \in Backend, TableInfo(b)
    PROVE  \E a : Truthful(b, a)
<1> USE DEF IInv, RowsInv, ReportInv
<1>1. PICK v \in 1 .. Latest : v = base[b]
  BY DEF HasOpened
<1> DEFINE a == [op |-> "info", version |-> v, latest |-> Latest,
                 rows |-> Cardinality(got[b]), fragments |-> Cardinality(Frags(v))]
<1>2. Returns(b, a) /\ got[b] = RowsAt(v)
  BY <1>1 DEF TableInfo, Opened, HasRead, ReadSoFar
<1>3. Cardinality(RowsAt(v)) \in Nat /\ Cardinality(Frags(v)) \in Nat
  BY FiniteVersion, FS_CardinalityType
<1>4. v \in Nat /\ Latest \in Nat /\ v <= Latest /\ v \in 1 .. Latest
  BY LogIsThere
<1>5. a \in Reply
  BY <1>2, <1>3, <1>4 DEF Reply
<1>6. TrueReport(a)
  <2>1. /\ a.op = "info" /\ a.version = v /\ a.latest = Latest
        /\ a.rows = Cardinality(RowsAt(v)) /\ a.fragments = Cardinality(Frags(v))
    BY <1>2
  <2> QED
    BY <1>4, <2>1 DEF TrueReport
<1> QED
  BY <1>2, <1>5, <1>6 DEF Truthful

\* What is recorded of a fragment, and what is not.
LEMMA CountsAreKnown ==
    ASSUME IInv, RowsInv, FilesAreFinite, NEW v \in 1 .. Latest, NEW f \in Frags(v)
    PROVE  /\ PhysicalRows(v, f) \in Nat \union {None}
           /\ NumRows(v, f) \in Nat \union {None}
           /\ PhysicalRows(v, f) = None <=> f \notin Sized(v)
           /\ NumRows(v, f) = None <=> f \notin Sized(v) \ Uncounted(v)
           /\ NumRows(v, f) # None =>
                /\ PhysicalRows(v, f) = Cardinality(stored[f])
                /\ NumRows(v, f) = Cardinality(Live(v, f))
<1>1. Cardinality(stored[f]) \in Nat /\ Cardinality(Live(v, f)) \in Nat
  BY CountFragment
<1>2. \A n \in Nat : n # None
  BY NoneAssumption
<1>3. /\ PhysicalRows(v, f) \in Nat \union {None}
      /\ PhysicalRows(v, f) = None <=> f \notin Sized(v)
      /\ f \in Sized(v) => PhysicalRows(v, f) = Cardinality(stored[f])
  BY <1>1, <1>2 DEF PhysicalRows, Sized
<1>4. NumRows(v, f) = IF f \notin Sized(v) \ Uncounted(v) THEN None
                      ELSE Cardinality(Live(v, f))
  BY <1>3 DEF NumRows, Uncounted
<1> QED
  BY <1>1, <1>2, <1>3, <1>4

LEMMA TrueStats ==
    ASSUME IInv, RowsInv, ReportInv, NEW b \in Backend, FragmentStats(b)
    PROVE  \E a : Truthful(b, a)
<1> USE DEF IInv, RowsInv, ReportInv
<1>1. PICK v \in 1 .. Latest : v = base[b]
  BY DEF HasOpened
<1> DEFINE S == {f \in Frags(v) : PhysicalRows(v, f) # None}
           C == {f \in Frags(v) : NumRows(v, f) # None}
<1>2. S = Sized(v) /\ C = Sized(v) \ Uncounted(v)
  BY CountsAreKnown DEF Sized, Uncounted
<1>3. PICK p, l, n : /\ p = Cardinality(Physical(S)) /\ l = Cardinality(RowsIn(v, C))
                     /\ n = Cardinality(Frags(v))
  OBVIOUS
<1> DEFINE d == p - l
           a == [op |-> "stats", version |-> v, fragments |-> n,
                 physical |-> p, logical |-> l, deleted |-> d]
<1>4. Returns(b, a)
  BY <1>1, <1>3 DEF FragmentStats, Opened
<1> HIDE DEF S, C
<1>5. Sized(v) \in SUBSET Frags(v) /\ Uncounted(v) \in SUBSET Sized(v)
      /\ Uncounted(v) \in SUBSET Frags(v)
  BY DEF Sized, Uncounted
<1>6. PICK U, R, D : /\ U = Cardinality(RowsIn(v, Uncounted(v)))
                     /\ R = Cardinality(RowsIn(v, Sized(v)))
                     /\ D = Cardinality(DeadIn(v, Sized(v)))
  OBVIOUS
<1>7. /\ p \in Nat /\ R \in Nat /\ D \in Nat /\ p - R = D
      /\ l \in Nat /\ U \in Nat /\ R = l + U
  <2>1. p \in Nat /\ R \in Nat /\ D \in Nat /\ p - R = D
    BY <1>2, <1>3, <1>5, <1>6, CountDeleted
  <2>2. R = l + U
    BY <1>2, <1>3, <1>5, <1>6, CountApart
  <2>3. U \in Nat
    BY <1>5, <1>6, CountDeleted
  <2>4. Sized(v) \ Uncounted(v) \in SUBSET Frags(v)
    BY <1>5
  <2>5. l \in Nat
    BY <1>2, <1>3, <2>4, CountDeleted
  <2> QED
    BY <2>1, <2>2, <2>3, <2>5
<1>8. d \in Nat /\ d = D + U
  BY <1>7
<1> HIDE DEF d
<1>9. n \in Nat /\ v \in Nat
  BY <1>3, LogIsThere, FiniteVersion, FS_CardinalityType
<1>10. a \in Reply
  BY <1>7, <1>8, <1>9 DEF Reply
<1>11. TrueReport(a)
  <2>1. /\ a.op = "stats" /\ a.version = v /\ a.fragments = n
        /\ a.logical = l /\ a.deleted = d
    OBVIOUS
  <2>2. TrueCounts(v, l, d)
    BY <1>2, <1>3, <1>6, <1>8 DEF TrueCounts
  <2> HIDE DEF a
  <2> QED
    BY <1>3, <2>1, <2>2 DEF TrueReport
<1> QED
  BY <1>4, <1>10, <1>11 DEF Truthful

LEMMA TrueList ==
    ASSUME IInv, RowsInv, ReportInv, NEW b \in Backend, ListFragments(b)
    PROVE  \E a : Truthful(b, a)
<1> USE DEF IInv, RowsInv, ReportInv
<1>1. PICK v \in 1 .. Latest : v = base[b]
  BY DEF HasOpened
<1>2. PICK L : L = {FragmentRow(v, f) : f \in Frags(v)}
  OBVIOUS
<1> DEFINE a == [op |-> "fragments", version |-> v, list |-> L]
<1>3. Returns(b, a)
  BY <1>1, <1>2 DEF ListFragments, Opened
<1>4. ASSUME NEW f \in Frags(v)
      PROVE  LET r == FragmentRow(v, f)
             IN  /\ r \in [id: Nat, physical: Nat \union {None},
                           logical: Nat \union {None}, deletions: BOOLEAN]
                 /\ r.id = f /\ TrueRow(v, r)
  <2>1. f \in Nat
    BY LogIsThere DEF Frags, Version
  <2>2. PICK p, l : p = PhysicalRows(v, f) /\ l = NumRows(v, f)
    OBVIOUS
  <2>3. PICK e \in BOOLEAN : e = (DeadIn(v, {f}) # {})
    OBVIOUS
  <2>4. FragmentRow(v, f) = [id |-> f, physical |-> p, logical |-> l, deletions |-> e]
    BY <2>2, <2>3 DEF FragmentRow
  <2>5. /\ p \in Nat \union {None} /\ l \in Nat \union {None}
        /\ p = None <=> f \notin Sized(v)
        /\ l = None <=> f \notin Sized(v) \ Uncounted(v)
    BY <2>2, CountsAreKnown DEF Sized, Uncounted
  <2>6. l # None => p - l = Cardinality(DeadIn(v, {f})) /\ (e <=> l < p)
    BY <2>2, <2>3, CountsAreKnown, CountFragment
  <2> DEFINE r == [id |-> f, physical |-> p, logical |-> l, deletions |-> e]
  <2>7. TrueRow(v, r)
    BY <2>5, <2>6 DEF TrueRow
  <2> QED
    BY <2>1, <2>4, <2>5, <2>7
<1>5. v \in Nat
  BY LogIsThere
<1>6. L \in SUBSET [id: Nat, physical: Nat \union {None},
                    logical: Nat \union {None}, deletions: BOOLEAN]
  BY <1>2, <1>4
<1>7. a \in Reply
  BY <1>5, <1>6 DEF Reply
<1>8. TrueReport(a)
  <2>1. a.op = "fragments" /\ a.version = v /\ a.list = L
    OBVIOUS
  <2>2. \A r \in L : TrueRow(v, r)
    BY <1>2, <1>4
  <2>3. {r.id : r \in L} = Frags(v)
    <3>1. \A r \in L : r.id \in Frags(v)
      BY <1>2, <1>4
    <3>2. \A f \in Frags(v) : FragmentRow(v, f) \in L /\ FragmentRow(v, f).id = f
      BY <1>2, <1>4
    <3> QED
      BY <3>1, <3>2
  <2> HIDE DEF a
  <2> QED
    BY <2>1, <2>2, <2>3 DEF TrueReport
<1> QED
  BY <1>3, <1>7, <1>8 DEF Truthful

LEMMA TrueScan ==
    ASSUME IInv, RowsInv, ReportInv, NEW b \in Backend, ScanDone(b)
    PROVE  \E a : Truthful(b, a)
<1> USE DEF IInv, RowsInv, ReportInv
<1>1. PICK v \in 1 .. Latest : v = base[b]
  BY DEF HasOpened
<1>2. got[b] = RowsAt(v) /\ got[b] \in SUBSET Row
  <2>1. /\ pc[b] = "run" /\ call[b].op = "scan" /\ work[b] = {}
        /\ ReadSoFar(call[b].op, pc[b], v, work[b], got[b])
    BY <1>1 DEF ScanDone, Runs, HasRead
  <2>2. got[b] \union UNION { Live(v, f) : f \in {} } = RowsAt(v)
    BY <2>1 DEF ReadSoFar
  <2> QED
    BY <2>2 DEF OtherTypes
<1> DEFINE a == [op |-> "scan", version |-> v, rows |-> got[b]]
<1>3. Returns(b, a)
  BY <1>1 DEF ScanDone
<1>4. v \in Nat
  BY LogIsThere
<1>5. a \in Reply
  BY <1>2, <1>4 DEF Reply
<1>6. TrueReport(a)
  <2>1. a.op = "scan" /\ a.version = v /\ a.rows = RowsAt(v)
    BY <1>2
  <2> QED
    BY <2>1 DEF TrueReport
<1> QED
  BY <1>3, <1>5, <1>6 DEF Truthful

\* The calls that only look, and those that give up.
LEMMA LooksAreTrue ==
    ASSUME IInv, RowsInv, ReportInv, NEW b \in Backend,
           \/ \E r \in Requests : Refuse(b, r)
           \/ Fail(b) \/ NothingToOptimize(b) \/ Sweep(b) \/ SweepFails(b) \/ Explain(b)
           \/ TableInfo(b) \/ FragmentStats(b) \/ ListFragments(b) \/ ListVersions(b)
           \/ ListIndices(b) \/ ScanDone(b)
    PROVE  \E a : Truthful(b, a)
<1> USE DEF IInv, RowsInv, ReportInv
<1>1. ASSUME NEW a \in Reply, Returns(b, a),
             a.op \notin {"info", "stats", "fragments", "scan", "delete"}
      PROVE  \E x : Truthful(b, x)
  BY <1>1, OtherAnswers DEF Truthful
<1>2. CASE (\E r \in Requests : Refuse(b, r)) \/ Fail(b) \/ SweepFails(b)
  <2>1. Error \in Reply /\ Error.op = "error"
    BY DEF Reply, Error
  <2> QED
    BY <1>1, <1>2, <2>1 DEF Refuse, Fail, SweepFails
<1>3. CASE NothingToOptimize(b)
  <2> DEFINE a == [op |-> "optimize", at |-> 0, removed |-> 0, added |-> 0]
  <2>1. a \in Reply /\ a.op = "optimize" /\ Returns(b, a)
    BY <1>3 DEF Reply, NothingToOptimize
  <2> QED
    BY <1>1, <2>1
<1>4. CASE Sweep(b)
  <2> DEFINE a == [op |-> "vacuum", versions |-> doomed[b], files |-> work[b]]
  <2>1. doomed[b] \in SUBSET Nat /\ work[b] \in SUBSET Nat
    BY DEF Shape
  <2>2. a \in Reply /\ a.op = "vacuum" /\ Returns(b, a)
    BY <1>4, <2>1 DEF Reply, Sweep
  <2> QED
    BY <1>1, <2>2
<1>5. CASE Explain(b)
  <2>1. PICK V, F, u : V = Expired(b) \ tags /\ F = Garbage(b) /\ u = call[b].unverified
    OBVIOUS
  <2>2. V \in SUBSET Nat /\ F \in SUBSET Nat
    <3>1. manifests \subseteq Nat /\ files \subseteq Nat
      BY LogIsThere, LenProperties DEF StoreIsKnown, Shape
    <3> QED
      BY <2>1, <3>1 DEF Expired, Garbage
  <2>3. u \in BOOLEAN
    <3>1. call[b] \in Request /\ call[b].op = "plan"
      BY <1>5, RequestAssumption DEF Explain, Runs, Shape, NoCall
    <3> QED
      BY <2>1, <3>1 DEF Request
  <2> DEFINE a == [op |-> "plan", unverified |-> u, versions |-> V, files |-> F]
  <2>4. Returns(b, a)
    BY <1>5, <2>1 DEF Explain
  <2>5. a \in Reply /\ a.op = "plan"
    BY <2>2, <2>3 DEF Reply
  <2> QED
    BY <1>1, <2>4, <2>5
<1>6. CASE ListVersions(b)
  <2> DEFINE a == [op |-> "versions", versions |-> manifests, tags |-> tags]
  <2>1. manifests \in SUBSET Nat /\ tags \in SUBSET Nat
    BY LogIsThere DEF StoreIsKnown, OtherTypes
  <2>2. a \in Reply /\ a.op = "versions" /\ Returns(b, a)
    BY <1>6, <2>1 DEF Reply, ListVersions
  <2> QED
    BY <1>1, <2>2
<1>7. CASE ListIndices(b)
  <2>1. PICK v \in 1 .. Latest : v = base[b]
    BY DEF HasOpened
  <2>2. PICK I, U : /\ I = log[v].idx
                    /\ U = (log[v].idx \X Frags(v)) \ log[v].cover
    OBVIOUS
  <2>3. v \in Nat /\ I \in SUBSET Index /\ U \in SUBSET (Index \X Nat)
    <3>1. v \in Nat /\ log[v] \in Version
      BY LogIsThere
    <3>2. log[v].idx \in SUBSET Index /\ log[v].frags \in SUBSET Nat
      BY <3>1 DEF Version
    <3> QED
      BY <2>2, <3>1, <3>2 DEF Frags
  <2> DEFINE a == [op |-> "indices", version |-> v, idx |-> I, unindexed |-> U]
  <2>4. Returns(b, a)
    BY <1>7, <2>1, <2>2 DEF ListIndices, Opened
  <2>5. a \in Reply /\ a.op = "indices"
    BY <2>3 DEF Reply
  <2> QED
    BY <1>1, <2>4, <2>5
<1> QED
  BY <1>2, <1>3, <1>4, <1>5, <1>6, <1>7, TrueInfo, TrueStats, TrueList, TrueScan

\* fragments_removed: the fragments of the version that was opened, less those
\* of the one committed.
LEMMA TrueDelete ==
    ASSUME IInv, RowsInv, ReportInv, NEW b \in Backend, DeleteCommit(b)
    PROVE  \E a : Returns(b, a) /\ a \in Reply /\ TrueReport(a)'
<1> USE DEF IInv, RowsInv, ReportInv
<1>1. PICK ver \in Version :
        /\ Commits(b, ver, [op |-> "delete", read |-> base[b], at |-> Latest + 1,
                            removed |-> FragmentsRemoved(b, ver.frags)])
        /\ ver.frags \subseteq Frags(Latest)
  BY DeletedRows
<1>2. PICK v \in 1 .. Latest, n \in 1 .. Latest : v = base[b] /\ n = Latest
  BY LogIsThere DEF HasOpened
<1>3. PICK k : k = FragmentsRemoved(b, ver.frags)
  OBVIOUS
<1> DEFINE a == [op |-> "delete", read |-> v, at |-> n + 1, removed |-> k]
<1>4. Returns(b, a) /\ Commit(ver) /\ UNCHANGED stored
  BY <1>1, <1>2, <1>3 DEF Commits
<1>5. v \in Nat /\ n \in Nat /\ v \in 1 .. n + 1 /\ n + 1 \in 1 .. n + 1
  BY <1>2, LogIsThere
<1>6. Latest' = n + 1 /\ log'[n + 1] = ver /\ log'[v] = log[v]
  BY <1>2, <1>4, AppendedVersion DEF Commit
<1>7. IsFiniteSet(Frags(v)) /\ IsFiniteSet(ver.frags)
  BY <1>1, <1>2, FiniteVersion, FS_Subset
<1> DEFINE gone == Frags(v) \ ver.frags
<1>8. /\ k \in Nat /\ k <= Cardinality(gone)
      /\ ver.frags \subseteq Frags(v) => k = Cardinality(gone)
  BY <1>2, <1>3, <1>7, CountRemoved DEF FragmentsRemoved
<1>9. n + 1 = v + 1 => ver.frags \subseteq Frags(v)
  BY <1>1, <1>2, <1>5
<1>10. a \in Reply
  BY <1>5, <1>8 DEF Reply
<1>11. (Frags(v) \ Frags(n + 1))' = gone
  BY <1>6 DEF Frags
<1>12. TrueReport(a)'
  <2>1. a.op = "delete" /\ a.read = v /\ a.at = n + 1 /\ a.removed = k
    OBVIOUS
  <2> HIDE DEF a, gone
  <2> QED
    BY <1>5, <1>6, <1>8, <1>9, <1>11, <2>1 DEF TrueReport
<1> QED
  BY <1>4, <1>10, <1>12

\* The other commits answer nothing that could be false later.
LEMMA CommitsAreTrue ==
    ASSUME IInv, RowsInv, ReportInv, NEW b \in Backend,
           \/ AppendCommit(b) \/ DeleteCommit(b) \/ OptimizeCommit(b)
           \/ CreateIndex(b) \/ DropIndex(b) \/ OptimizeIndices(b)
    PROVE  \E a : Returns(b, a) /\ a \in Reply /\ TrueReport(a)'
<1> USE DEF IInv, RowsInv, ReportInv
<1>1. ASSUME NEW a \in Reply, Returns(b, a),
             a.op \notin {"info", "stats", "fragments", "scan", "delete"}
      PROVE  \E x : Returns(b, x) /\ x \in Reply /\ TrueReport(x)'
  <2>1. TrueReport(a)'
    BY <1>1 DEF TrueReport
  <2> QED
    BY <1>1, <2>1
<1>2. PICK n \in Nat : n = Latest + 1
  BY LogIsThere
<1>3. CASE AppendCommit(b) \/ CreateIndex(b) \/ DropIndex(b)
  <2>1. \E op \in {"append", "create_index", "drop_index"} :
           Returns(b, [op |-> op, at |-> n])
    BY <1>2, <1>3 DEF AppendCommit, CreateIndex, DropIndex, IndexCommit
  <2>2. PICK op \in {"append", "create_index", "drop_index"} :
           Returns(b, [op |-> op, at |-> n])
    BY <2>1
  <2> DEFINE a == [op |-> op, at |-> n]
  <2>3. a \in Reply /\ a.op = op /\ Returns(b, a)
    BY <2>2 DEF Reply
  <2> QED
    BY <1>1, <2>2, <2>3
<1>4. CASE OptimizeCommit(b)
  <2>1. PICK k : k = Cardinality(work[b])
    OBVIOUS
  <2>2. k \in Nat
    <3>1. PICK v \in 1 .. Latest : v = base[b]
      BY DEF HasOpened
    <3>2. work[b] \subseteq Frags(v)
      BY <1>4, <3>1 DEF OptimizeCommit, Runs, RewritesKeepRows, Rewrote
    <3> QED
      BY <2>1, <3>2, FiniteVersion, FS_Subset, FS_CardinalityType
  <2> DEFINE a == [op |-> "optimize", at |-> n, removed |-> k, added |-> 1]
  <2>3. Returns(b, a)
    BY <1>2, <1>4, <2>1 DEF OptimizeCommit
  <2>4. a \in Reply /\ a.op = "optimize"
    BY <2>2 DEF Reply
  <2> QED
    BY <1>1, <2>3, <2>4
<1>5. CASE OptimizeIndices(b)
  <2>1. PICK N, k, v : N = call[b].names /\ k = Cardinality(N) /\ v = base[b]
    OBVIOUS
  <2>2. N \in SUBSET Index /\ k \in Nat /\ v \in Nat
    <3>1. call[b] \in Requests /\ call[b].op = "optimize_indices"
      BY <1>5 DEF OptimizeIndices, Runs, Shape, NoCall
    <3>2. call[b] \in Request
      BY <3>1, RequestAssumption
    <3>3. N \in SUBSET Index
      BY <2>1, <3>1, <3>2 DEF Request
    <3>4. IsFiniteSet(N)
      BY <2>1, <3>1, FiniteAssumption
    <3> QED
      BY <2>1, <3>3, <3>4, FS_CardinalityType DEF Shape
  <2> DEFINE a == [op |-> "optimize_indices", read |-> v, at |-> n, names |-> N, count |-> k]
  <2>3. Returns(b, a)
    BY <1>2, <1>5, <2>1 DEF OptimizeIndices, IndexCommit
  <2>4. a \in Reply /\ a.op = "optimize_indices"
    BY <2>2 DEF Reply
  <2> QED
    BY <1>1, <2>3, <2>4
<1> QED
  BY <1>3, <1>4, <1>5, TrueDelete

-----------------------------------------------------------------------------
(* Every step.                                                             *)

LEMMA TrueReply ==
    ASSUME NEW c, NEW x, reply'[c] = x, TrueReport(x)'
    PROVE  TrueReport(reply[c])'
<1> DEFINE v == x.version
<1>1. /\ Frags(reply[c].version)' = Frags(v)' /\ RowsAt(reply[c].version)' = RowsAt(v)'
      /\ Frags(reply[c].read)' = Frags(x.read)' /\ Frags(reply[c].at)' = Frags(x.at)'
  BY DEF RowsAt, Frags, Live
<1>2. \A F : DeadIn(reply[c].version, F)' = DeadIn(v, F)'
  BY DEF DeadIn, Within
<1>3. Sized(reply[c].version)' = Sized(v)'
  BY <1>1 DEF Sized
<1>4. Uncounted(reply[c].version)' = Uncounted(v)'
  BY <1>2, <1>3 DEF Uncounted
<1>5. /\ RowsIn(reply[c].version, Uncounted(reply[c].version))' = RowsIn(v, Uncounted(v))'
      /\ RowsIn(reply[c].version, Sized(reply[c].version) \ Uncounted(reply[c].version))'
           = RowsIn(v, Sized(v) \ Uncounted(v))'
  BY <1>3, <1>4 DEF RowsIn, Live
<1>6. TrueCounts(v, x.logical, x.deleted)'
        => TrueCounts(reply[c].version, reply[c].logical, reply[c].deleted)'
  BY <1>2, <1>3, <1>4, <1>5 DEF TrueCounts
<1>7. \A r : TrueRow(v, r)' => TrueRow(reply[c].version, r)'
  BY <1>2, <1>3, <1>4 DEF TrueRow
<1> QED
  BY <1>1, <1>6, <1>7 DEF TrueReport, Latest

LEMMA AnsweredKept ==
    ASSUME IInv, ReportInv, Grown, NEW b \in Backend, NEW a \in Reply,
           Returns(b, a), TrueReport(a)'
    PROVE  /\ HasRead' /\ ReportsAreTrue'
           /\ got' \in [Backend -> SUBSET Row] /\ reply' \in [Backend -> Reply]
<1> USE DEF IInv, ReportInv
<1>1. /\ got' \in [Backend -> SUBSET Row] /\ reply' \in [Backend -> Reply]
      /\ reply' = [reply EXCEPT ![b] = a]
  BY DEF Returns, OtherTypes
<1>2. ReportsAreTrue'
  <2>1. ASSUME NEW c \in Backend PROVE \E x : x = reply'[c] /\ TrueReport(x)'
    <3>1. CASE c = b
      BY <3>1, Returned
    <3>2. CASE c # b
      <4>1. PICK x : x = reply[c] /\ TrueReport(x)
        BY DEF ReportsAreTrue
      <4>2. TrueReport(x)'
        BY <4>1, TrueKept
      <4> QED
        BY <3>2, <4>1, <4>2, Returned
    <3> QED
      BY <3>1, <3>2
  <2>2. ASSUME NEW c \in Backend PROVE TrueReport(reply[c])'
    <3>1. PICK x : x = reply'[c] /\ TrueReport(x)'
      BY <2>1
    <3> QED
      BY <3>1, TrueReply
  <2> QED
    BY <2>2 DEF ReportsAreTrue
<1> QED
  BY <1>1, <1>2, ReturnedRead

LEMMA ReportsStay ==
    ASSUME IInv, ReportInv, Grown,
           \A c \in Backend : reply'[c] = reply[c] \/ reply'[c] = NoReply
    PROVE  ReportsAreTrue'
<1> USE DEF IInv, ReportInv
<1>1. ASSUME NEW c \in Backend PROVE TrueReport(reply[c])'
  <2>1. TrueReport(reply[c]) /\ TrueReport(NoReply)
    BY DEF ReportsAreTrue, TrueReport, NoReply
  <2>2. PICK x : x = reply'[c] /\ TrueReport(x)
    BY <2>1
  <2>3. TrueReport(x)'
    BY <2>2, TrueKept
  <2> QED
    BY <2>2, <2>3, TrueReply
<1> QED
  BY <1>1 DEF ReportsAreTrue

LEMMA ReportKept == ASSUME IInv, RowsInv, ReportInv, [Next]_vars PROVE ReportInv'
<1> USE DEF IInv, ReportInv
<1>1. Grown
  BY RowsKept
\* Files, tags and history.
<1>2. ASSUME NEW b \in Backend, Step(b) PROVE FilesAreFinite'
  <2>1. CASE AppendFile(b) \/ RewriteFragments(b)
    BY <2>1, WrittenFiles
  <2>2. CASE ~ (AppendFile(b) \/ RewriteFragments(b))
    <3>1. UNCHANGED stored
      BY <1>2, <2>2
         DEF Step, Open, Fail, AppendCommit, DeleteCommit, DeleteAgain, NothingToOptimize,
             OptimizeCommit, CreateIndex, DropIndex, OptimizeIndices, IndexCommit, Survey,
             Sweep, SweepFails, Remove, Explain, CountRows, TableInfo, FragmentStats,
             ListFragments, ListVersions, ListIndices, ReadFragment, ScanDone, storage
    <3> QED
      BY <3>1 DEF FilesAreFinite
  <2> QED
    BY <2>1, <2>2
<1>3. ASSUME NEW b \in Backend, Step(b)
      PROVE  /\ tags' = tags /\ calls' = calls
             /\ condemned' \subseteq Nat \X Requests /\ blind' \subseteq Nat
             /\ late' \subseteq Nat
  <2>1. CASE Sweep(b) \/ SweepFails(b)
    <3>1. PICK F, V : F \in SUBSET work[b] /\ Remove(b, F, V) /\ pc[b] = "sweep"
      BY <2>1 DEF Sweep, SweepFails
    <3>2. call[b] \in Requests /\ doomed[b] \subseteq Nat /\ F \subseteq Nat
      BY <3>1 DEF SweepIsSafe, SweepSafe, Shape
    <3> QED
      BY <3>1, <3>2 DEF Remove, OtherTypes
  <2>2. CASE ~ (Sweep(b) \/ SweepFails(b))
    <3>1. UNCHANGED <<tags, calls, condemned, blind, late>>
      BY <1>3, <2>2
         DEF Step, Open, Fail, AppendFile, RewriteFragments, WriteFile, AppendCommit,
             DeleteCommit, DeleteAgain, NothingToOptimize, OptimizeCommit, CreateIndex,
             DropIndex, OptimizeIndices, IndexCommit, Survey, Explain, CountRows, TableInfo,
             FragmentStats, ListFragments, ListVersions, ListIndices, ReadFragment, ScanDone,
             storage, history
    <3> QED
      BY <3>1 DEF OtherTypes
  <2> QED
    BY <2>1, <2>2
\* What is read and answered.
<1>4. ASSUME NEW b \in Backend, NEW a, Truthful(b, a)
      PROVE  /\ HasRead' /\ ReportsAreTrue'
             /\ got' \in [Backend -> SUBSET Row] /\ reply' \in [Backend -> Reply]
  <2>1. TrueReport(a)'
    BY <1>1, <1>4, TrueKept DEF Truthful
  <2> QED
    BY <1>1, <1>4, <2>1, AnsweredKept DEF Truthful
<1>5. ASSUME NEW b \in Backend, Step(b)
      PROVE  /\ HasRead' /\ ReportsAreTrue'
             /\ got' \in [Backend -> SUBSET Row] /\ reply' \in [Backend -> Reply]
  <2>1. CASE \/ Open(b) \/ CountRows(b) \/ ReadFragment(b) \/ DeleteAgain(b) \/ Survey(b)
             \/ AppendFile(b) \/ RewriteFragments(b)
    <3>1. reply' = reply
      BY <2>1 DEF Open, CountRows, ReadFragment, DeleteAgain, Survey, AppendFile,
                  RewriteFragments, WriteFile
    <3> QED
      BY <1>1, <2>1, <3>1, MovedRead, ReportsStay DEF OtherTypes
  <2>2. CASE \/ AppendCommit(b) \/ DeleteCommit(b) \/ OptimizeCommit(b)
             \/ CreateIndex(b) \/ DropIndex(b) \/ OptimizeIndices(b)
    <3>1. PICK a : Returns(b, a) /\ a \in Reply /\ TrueReport(a)'
      BY <2>2, CommitsAreTrue
    <3> QED
      BY <1>1, <3>1, AnsweredKept
  <2>3. CASE \/ Fail(b) \/ NothingToOptimize(b) \/ Sweep(b) \/ SweepFails(b) \/ Explain(b)
             \/ TableInfo(b) \/ FragmentStats(b) \/ ListFragments(b) \/ ListVersions(b)
             \/ ListIndices(b) \/ ScanDone(b)
    <3>1. PICK a : Truthful(b, a)
      BY <2>3, LooksAreTrue
    <3> QED
      BY <1>4, <3>1
  <2> QED
    BY <1>5, <2>1, <2>2, <2>3 DEF Step
<1>6. CASE UNCHANGED vars \/ Tag \/ TimePasses
  <2>1. /\ UNCHANGED <<log, stored, calls, call, pc, base, work, got, reply, condemned, blind>>
        /\ tags' \subseteq Nat /\ late' \subseteq Nat
    <3>1. manifests \subseteq Nat
      BY LogIsThere DEF StoreIsKnown
    <3> QED
      BY <1>6, <3>1 DEF vars, storage, history, local, Tag, TimePasses, OtherTypes
  <2>2. HasRead'
    <3>1. \A c \in Backend : ReadSoFar(call[c].op, pc[c], base[c], work[c], got[c])'
      BY <1>1, <2>1, StillRead
    <3> QED
      BY <3>1 DEF HasRead
  <2>3. ReportsAreTrue'
    BY <1>1, <2>1, ReportsStay
  <2> QED
    BY <2>1, <2>2, <2>3 DEF FilesAreFinite, OtherTypes
<1>7. ASSUME NEW b \in Backend, NEW r \in Requests, Start(b, r) PROVE ReportInv'
  <2>1. /\ UNCHANGED <<stored, tags, condemned, blind, late, got>> /\ calls' = calls + 1
        /\ reply' = [reply EXCEPT ![b] = NoReply]
    BY <1>7 DEF Start, storage, history
  <2>2. reply' \in [Backend -> Reply]
    <3>1. NoReply \in Reply
      BY DEF NoReply, Reply
    <3> QED
      BY <2>1, <3>1 DEF OtherTypes
  <2>3. ReportsAreTrue'
    BY <1>1, <2>1, ReportsStay DEF OtherTypes
  <2> QED
    BY <1>1, <1>7, <2>1, <2>2, <2>3, StartRead DEF FilesAreFinite, OtherTypes
<1>8. ASSUME NEW b \in Backend, NEW r \in Requests, Refuse(b, r) PROVE ReportInv'
  <2>1. /\ UNCHANGED <<stored, tags, condemned, blind, late>> /\ calls' = calls + 1
    BY <1>8 DEF Refuse, storage, history
  <2>2. PICK a : Truthful(b, a)
    BY <1>8, LooksAreTrue
  <2> QED
    BY <1>4, <2>1, <2>2 DEF FilesAreFinite, OtherTypes
<1>9. ASSUME NEW b \in Backend, Step(b) PROVE ReportInv'
  BY <1>2, <1>3, <1>5, <1>9 DEF OtherTypes
<1> QED
  BY <1>6, <1>7, <1>8, <1>9 DEF Next

LEMMA InitReportInv == Init => ReportInv
<1> SUFFICES ASSUME Init PROVE ReportInv
  OBVIOUS
<1>1. FilesAreFinite
  BY SeedAssumption, FiniteAssumption, LenProperties DEF Init, FilesAreFinite
<1>2. HasRead
  BY DEF Init, HasRead, ReadSoFar
<1>3. NoReply \in Reply /\ TrueReport(NoReply)
  BY DEF NoReply, Reply, TrueReport
<1>4. OtherTypes /\ ReportsAreTrue
  BY <1>3 DEF Init, OtherTypes, ReportsAreTrue
<1> QED
  BY <1>1, <1>2, <1>4 DEF ReportInv

(***************************************************************************)
(* The inductive invariant of the answers: files are finite, a report and  *)
(* a scan have read what their version shows, and every answer is true.    *)
(***************************************************************************)
THEOREM ReportInvariant == Spec => []ReportInv
<1>1. IInv /\ RowsInv /\ ReportInv /\ [Next]_vars => ReportInv'
  BY ReportKept
<1> QED
  BY <1>1, InitReportInv, MaintenanceInvariant, RowsInvariant, PTL DEF Spec

(***************************************************************************)
(* The types of the variables; in particular no count that a call returns  *)
(* is ever negative, fragments_removed and the deleted rows among them.    *)
(***************************************************************************)
THEOREM MaintenanceTypes == Spec => []TypeOK
<1>1. IInv /\ ReportInv => TypeOK
  <2> SUFFICES ASSUME IInv, ReportInv PROVE TypeOK
    OBVIOUS
  <2>1. Latest \in Nat /\ Len(stored) \in Nat
    BY LogIsThere, LenProperties DEF IInv, Shape
  <2>2. manifests \subseteq Nat /\ files \subseteq Nat
    BY <2>1 DEF IInv, StoreIsKnown
  <2> QED
    BY <2>2 DEF IInv, Shape, States, ReportInv, OtherTypes, TypeOK
<1> QED
  BY <1>1, MaintenanceInvariant, ReportInvariant, PTL

(***************************************************************************)
(* A report made of several questions answers all of them of one version,  *)
(* whatever commits in between; the rows it calls deleted are those that   *)
(* deletion files mark, and all rows of a fragment whose deletion file has *)
(* no count; what the version does not record is NULL in the list.  A scan *)
(* has the rows of the version it is pinned to.                            *)
(***************************************************************************)
THEOREM ReportsHold == Spec => []ReportsAreOfOneVersion
<1>1. ReportInv => ReportsAreOfOneVersion
  BY DEF ReportInv, ReportsAreTrue, TrueReport, TrueCounts, TrueRow,
         ReportsAreOfOneVersion
<1> QED
  BY <1>1, ReportInvariant, PTL

(***************************************************************************)
(* fragments_removed of lance_delete is the number of fragments the delete *)
(* emptied when nothing is committed between its two counts, and otherwise *)
(* at most the number of fragments that have gone since.                   *)
(***************************************************************************)
THEOREM DeletesCount == Spec => []DeleteCountsItsFragments
<1>1. ReportInv => DeleteCountsItsFragments
  BY DEF ReportInv, ReportsAreTrue, TrueReport, DeleteCountsItsFragments
<1> QED
  BY <1>1, ReportInvariant, PTL
=============================================================================
