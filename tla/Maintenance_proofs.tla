------------------------- MODULE Maintenance_proofs -------------------------
(***************************************************************************)
(* Vacuum takes files only from the versions it set out to remove, those   *)
(* are old, what a cleanup plan lists stays garbage, and an index covers   *)
(* fragments that are there: for any number of backends, calls, versions   *)
(* and files.                                                              *)
(*                                                                         *)
(* The argument.  A commit names the files of the latest version and one   *)
(* new file.  The latest version is never condemned, and a new file is     *)
(* named by no version until its own commit: so a file that only condemned *)
(* versions named when a cleanup looked is named by no other one when it   *)
(* is removed, however much was committed in between.                      *)
(***************************************************************************)
EXTENDS Maintenance, TLAPS, SequenceTheorems

States == {"idle", "open", "run", "counted", "sweep"}

\* The types of what the argument needs.
Shape ==
    /\ log \in Seq(Version) /\ log # <<>>
    /\ stored \in Seq(SUBSET Row)
    /\ now \in Nat
    /\ call \in [Backend -> Requests \union {NoCall}]
    /\ pc   \in [Backend -> States]
    /\ base \in [Backend -> Nat] /\ seen \in [Backend -> Nat]
    /\ cut  \in [Backend -> Int \union {None}]
    /\ mine \in [Backend -> Nat]
    /\ work \in [Backend -> SUBSET Nat] /\ doomed \in [Backend -> SUBSET Nat]
    /\ reply = [b \in Backend |-> reply[b]]

\* What is there was committed or written; versions name files that are
\* written; backends have opened versions.
StoreIsKnown == manifests \subseteq 1 .. Latest /\ files \subseteq 1 .. Len(stored)
NamesWritten == \A v \in 1 .. Latest : Frags(v) \subseteq 1 .. Len(stored)
HasOpened    == \A b \in Backend : base[b] \in 1 .. Latest /\ seen[b] \in 1 .. Latest

\* A file that waits for its commit is there, nobody else's, and unnamed.
MineIsNew ==
    \A b \in Backend : mine[b] # 0 =>
        /\ mine[b] \in 1 .. Len(stored)
        /\ mine[b] \in files \union blind
        /\ \A v \in 1 .. Latest : mine[b] \notin Frags(v)
        /\ \A c \in Backend \ {b} : mine[c] # mine[b]

\* A version is past a limit of the call.
Past(v, r) ==
    \/ r.older \in Int /\ log[v].at < now - r.older
    \/ r.before # None /\ v < r.before

\* The files F are named by versions V, older than the latest one, and by no
\* other that is kept.
OnlyNamedBy(F, V) ==
    \A v \in 1 .. Latest \ (V \union Condemned) : Frags(v) \intersect F = {}
Before(V) == \A v \in V : v \in 1 .. Latest /\ v # Latest

CutoffIsPast ==
    \A b \in Backend : cut[b] # None =>
        call[b].older \in Int /\ cut[b] <= now - call[b].older

CondemnedBefore ==
    /\ Before(Condemned)
    /\ Condemned \intersect tags \subseteq late
    /\ \A p \in condemned : Past(p[1], p[2])

\* A file that is gone was named by a condemned version, or removed blindly.
GoneIsAccounted ==
    \A f \in 1 .. Len(stored) \ files :
        f \in blind \/ \E v \in Condemned : f \in Frags(v)

\* What vacuum r sets out to remove, once it has surveyed the dataset: the
\* manifests V and the files W.
SweepSafe(r, V, W) ==
    /\ r \in Requests /\ r.op = "vacuum"
    /\ Before(V) /\ V \intersect tags \subseteq late
    /\ \A v \in V : Past(v, r)
    /\ OnlyNamedBy(W \intersect NamedBy(V), V)
    /\ r.unverified \/ W \subseteq NamedBy(V)
SweepIsSafe ==
    \A b \in Backend : pc[b] = "sweep" => SweepSafe(call[b], doomed[b], work[b])

\* What a plan that verifies has answered.
PlanIsSafe(a) ==
    a.op = "plan" =>
        /\ Before(a.versions)
        /\ ~a.unverified => /\ a.files \subseteq NamedBy(a.versions)
                            /\ OnlyNamedBy(a.files, a.versions)
PlansAreSafe == \A b \in Backend : PlanIsSafe(reply[b])

IInv ==
    /\ Shape
    /\ StoreIsKnown /\ NamesWritten /\ HasOpened /\ MineIsNew
    /\ CutoffIsPast /\ CondemnedBefore /\ GoneIsAccounted
    /\ OnlyCondemnedVersionsLoseFiles
    /\ SweepIsSafe /\ PlansAreSafe

-----------------------------------------------------------------------------
(* What a commit and a return change.                                      *)

LEMMA LogIsThere ==
    ASSUME Shape
    PROVE  /\ Latest \in Nat \ {0}
           /\ \A v \in 1 .. Latest : log[v] \in Version /\ log[v].at \in Nat
<1>1. log \in Seq(Version) /\ log # <<>>
  BY DEF Shape
<1>2. Latest \in Nat /\ Latest # 0
  BY <1>1, EmptySeq, LenProperties DEF Latest
<1>3. \A v \in 1 .. Latest : log[v] \in Version
  BY <1>1, LenProperties, ElementOfSeq DEF Latest
<1> QED
  BY <1>2, <1>3 DEF Version

LEMMA AppendedLog ==
    ASSUME Shape, NEW ver \in Version, log' = Append(log, ver)
    PROVE  /\ log' \in Seq(Version) /\ log' # <<>>
           /\ Latest' = Latest + 1
           /\ log'[Latest + 1] = ver
           /\ \A v \in 1 .. Latest : log'[v] = log[v]
<1>1. log \in Seq(Version)
  BY DEF Shape
<1>2. Latest \in Nat
  BY LogIsThere
<1>3. /\ log' \in Seq(Version) /\ Len(log') = Len(log) + 1
      /\ log'[Len(log) + 1] = ver
      /\ \A v \in 1 .. Len(log) : log'[v] = log[v]
  BY <1>1, AppendProperties
<1>4. log' # <<>>
  BY <1>2, <1>3, EmptySeq DEF Latest
<1> QED
  BY <1>3, <1>4 DEF Latest

LEMMA Returned ==
    ASSUME Shape, NEW b \in Backend, NEW answer, Returns(b, answer)
    PROVE  /\ call' \in [Backend -> Requests \union {NoCall}]
           /\ pc' \in [Backend -> States]
           /\ base' \in [Backend -> Nat] /\ seen' \in [Backend -> Nat]
           /\ cut' \in [Backend -> Int \union {None}]
           /\ mine' \in [Backend -> Nat]
           /\ work' \in [Backend -> SUBSET Nat] /\ doomed' \in [Backend -> SUBSET Nat]
           /\ reply' = [c \in Backend |-> reply'[c]]
           /\ pc'[b] = "idle" /\ base'[b] = 1 /\ seen'[b] = 1
           /\ cut'[b] = None /\ mine'[b] = 0 /\ reply'[b] = answer
           /\ \A c \in Backend \ {b} :
                /\ call'[c] = call[c] /\ pc'[c] = pc[c]
                /\ base'[c] = base[c] /\ seen'[c] = seen[c] /\ cut'[c] = cut[c]
                /\ mine'[c] = mine[c] /\ work'[c] = work[c]
                /\ doomed'[c] = doomed[c] /\ reply'[c] = reply[c]
<1>1. /\ call' \in [Backend -> Requests \union {NoCall}]
      /\ pc' \in [Backend -> States]
  BY DEF Shape, Returns, States
<1>2. /\ base' \in [Backend -> Nat] /\ seen' \in [Backend -> Nat]
      /\ cut' \in [Backend -> Int \union {None}]
      /\ mine' \in [Backend -> Nat]
      /\ work' \in [Backend -> SUBSET Nat] /\ doomed' \in [Backend -> SUBSET Nat]
  BY DEF Shape, Returns
<1>3. reply' = [c \in Backend |-> reply'[c]]
  BY DEF Shape, Returns
<1>4. /\ pc'[b] = "idle" /\ base'[b] = 1 /\ seen'[b] = 1
      /\ cut'[b] = None /\ mine'[b] = 0 /\ reply'[b] = answer
  BY DEF Shape, Returns
<1>5. ASSUME NEW c \in Backend \ {b}
      PROVE  /\ call'[c] = call[c] /\ pc'[c] = pc[c]
             /\ base'[c] = base[c] /\ seen'[c] = seen[c] /\ cut'[c] = cut[c]
             /\ mine'[c] = mine[c] /\ work'[c] = work[c]
             /\ doomed'[c] = doomed[c] /\ reply'[c] = reply[c]
  BY DEF Shape, Returns
<1> QED
  BY <1>1, <1>2, <1>3, <1>4, <1>5

-----------------------------------------------------------------------------
(* The first state.                                                        *)

LEMMA InitIInv == Init => IInv
<1> SUFFICES ASSUME Init PROVE IInv
  OBVIOUS
<1>1. PICK n \in Nat : Seed \in Seq(SUBSET Row) /\ n = Len(Seed) /\ DOMAIN Seed = 1 .. n
  BY SeedAssumption, LenProperties
<1>2. Version1 \in Version /\ Version1.frags = 1 .. n
  BY <1>1, SeedAssumption DEF Version1, Version
<1>3. log \in Seq(Version) /\ log # <<>> /\ Latest = 1 /\ log[1] = Version1
  BY <1>2 DEF Init, Latest
<1>4. Shape
  BY <1>1, <1>3, NoneAssumption DEF Init, Shape, States
<1>5. StoreIsKnown /\ NamesWritten /\ HasOpened /\ MineIsNew
  BY <1>1, <1>2, <1>3 DEF Init, StoreIsKnown, NamesWritten, HasOpened, MineIsNew, Frags
<1>6. CutoffIsPast /\ CondemnedBefore /\ GoneIsAccounted
  BY <1>1 DEF Init, CutoffIsPast, CondemnedBefore, GoneIsAccounted, Condemned, Before
<1>7. OnlyCondemnedVersionsLoseFiles
  BY <1>1, <1>2, <1>3 DEF Init, OnlyCondemnedVersionsLoseFiles, Frags
<1>8. SweepIsSafe /\ PlansAreSafe
  BY DEF Init, SweepIsSafe, PlansAreSafe, PlanIsSafe, NoReply
<1> QED
  BY <1>4, <1>5, <1>6, <1>7, <1>8 DEF IInv

-----------------------------------------------------------------------------
(* A call returns and leaves the dataset alone.                            *)

LEMMA QuietKept ==
    ASSUME IInv, UNCHANGED <<storage, now>>, Shape', CutoffIsPast',
           \A c \in Backend : base'[c] \in 1 .. Latest /\ seen'[c] \in 1 .. Latest,
           \A c \in Backend : mine'[c] \in {mine[c], 0},
           \A c \in Backend : pc'[c] = "sweep" =>
                SweepSafe(call'[c], doomed'[c], work'[c]),
           \A c \in Backend : PlanIsSafe(reply'[c])
    PROVE  IInv'
<1> USE DEF IInv
<1>0. UNCHANGED <<log, stored, manifests, files, tags, condemned, blind, late, now>>
  BY DEF storage, history
<1>1. /\ StoreIsKnown' /\ NamesWritten' /\ CondemnedBefore' /\ GoneIsAccounted'
      /\ OnlyCondemnedVersionsLoseFiles'
  BY <1>0 DEF StoreIsKnown, NamesWritten, CondemnedBefore, GoneIsAccounted, OnlyCondemnedVersionsLoseFiles,
              Latest, Frags, Condemned, Before, Past
<1>2. HasOpened'
  BY <1>0 DEF HasOpened, Latest
<1>3. MineIsNew'
  BY <1>0 DEF MineIsNew, Latest, Frags
<1>4. SweepIsSafe'
  <2>1. ASSUME NEW r, NEW V, NEW W, SweepSafe(r, V, W) PROVE SweepSafe(r, V, W)'
    BY <1>0, <2>1 DEF SweepSafe, Before, Past, OnlyNamedBy, NamedBy, Latest, Frags, Condemned
  <2> QED
    BY <2>1 DEF SweepIsSafe
<1>5. PlansAreSafe'
  <2>1. ASSUME NEW a, PlanIsSafe(a) PROVE PlanIsSafe(a)'
    BY <1>0, <2>1 DEF PlanIsSafe, Before, OnlyNamedBy, NamedBy, Latest, Frags, Condemned
  <2> QED
    BY <2>1 DEF PlansAreSafe
<1> QED
  BY <1>1, <1>2, <1>3, <1>4, <1>5

LEMMA ReturnKept ==
    ASSUME IInv, NEW b \in Backend, NEW answer, Returns(b, answer),
           PlanIsSafe(answer), UNCHANGED <<storage, now>>
    PROVE  IInv'
<1> USE DEF IInv
<1>1. Shape'
  BY Returned DEF Shape, storage
<1>2. CutoffIsPast'
  BY Returned DEF CutoffIsPast
<1>3. ASSUME NEW c \in Backend
      PROVE  base'[c] \in 1 .. Latest /\ seen'[c] \in 1 .. Latest
  <2>1. base'[c] \in {1, base[c]} /\ seen'[c] \in {1, seen[c]}
    BY Returned
  <2>2. base[c] \in 1 .. Latest /\ seen[c] \in 1 .. Latest
    BY DEF HasOpened
  <2> QED
    BY <2>1, <2>2, LogIsThere
<1>4. \A c \in Backend : mine'[c] \in {mine[c], 0}
  BY Returned
<1>5. \A c \in Backend : pc'[c] = "sweep" => SweepSafe(call'[c], doomed'[c], work'[c])
  BY Returned DEF SweepIsSafe
<1>6. \A c \in Backend : PlanIsSafe(reply'[c])
  BY Returned DEF PlansAreSafe
<1> QED
  BY <1>1, <1>2, <1>3, <1>4, <1>5, <1>6, QuietKept

-----------------------------------------------------------------------------
(* A commit.                                                               *)

\* The version names what the latest one names and the backend's own file.
LEMMA CommitKept ==
    ASSUME IInv, NEW b \in Backend, NEW ver \in Version,
           ver.frags \subseteq Frags(Latest) \union ({mine[b]} \ {0}),
           Commit(ver), NEW answer, answer.op # "plan", Returns(b, answer),
           UNCHANGED <<stored, files, tags, history, now>>
    PROVE  IInv'
<1> USE DEF IInv
<1>0. /\ log' = Append(log, ver) /\ manifests' = manifests \union {Latest + 1}
      /\ UNCHANGED <<stored, files, tags, condemned, blind, late, now>>
  BY DEF Commit, history
<1>1. PICK n \in Nat \ {0} : n = Latest
  BY LogIsThere
<1>2. /\ Latest' = n + 1 /\ Frags(n + 1)' = ver.frags
      /\ \A v \in 1 .. n : log'[v] = log[v] /\ Frags(v)' = Frags(v)
  BY <1>0, <1>1, AppendedLog DEF Frags
<1>3. Shape'
  BY <1>0, Returned, AppendedLog DEF Shape
<1>4. Condemned' = Condemned /\ Condemned \subseteq 1 .. n - 1
  BY <1>0, <1>1 DEF CondemnedBefore, Before, Condemned
<1>5. ver.frags \subseteq Frags(n) \union ({mine[b]} \ {0})
  BY <1>1
<1>6. StoreIsKnown' /\ NamesWritten'
  <2>1. ver.frags \subseteq 1 .. Len(stored)
    BY <1>1, <1>5 DEF NamesWritten, MineIsNew
  <2>2. ASSUME NEW v \in 1 .. n + 1 PROVE Frags(v)' \subseteq 1 .. Len(stored)
    BY <1>1, <1>2, <2>1 DEF NamesWritten
  <2>3. StoreIsKnown'
    BY <1>0, <1>1, <1>2 DEF StoreIsKnown
  <2> QED
    BY <1>0, <1>2, <2>2, <2>3 DEF NamesWritten
<1>7. HasOpened'
  <2>1. \A c \in Backend : /\ base'[c] \in {1, base[c]} /\ seen'[c] \in {1, seen[c]}
    BY Returned
  <2>2. \A c \in Backend : base[c] \in 1 .. n /\ seen[c] \in 1 .. n
    BY <1>1 DEF HasOpened
  <2>3. \A c \in Backend : base'[c] \in 1 .. n + 1 /\ seen'[c] \in 1 .. n + 1
    BY <2>1, <2>2
  <2> QED
    BY <1>2, <2>3 DEF HasOpened
<1>8. MineIsNew'
  <2> SUFFICES ASSUME NEW c \in Backend, mine'[c] # 0
               PROVE  /\ mine'[c] \in 1 .. Len(stored)
                      /\ mine'[c] \in files \union blind
                      /\ \A v \in 1 .. n + 1 : mine'[c] \notin Frags(v)'
                      /\ \A d \in Backend \ {c} : mine'[d] # mine'[c]
    BY <1>0, <1>2 DEF MineIsNew
  <2>1. c # b /\ mine'[c] = mine[c]
    BY Returned
  <2>2. \A d \in Backend : mine'[d] = mine[d] \/ mine'[d] = 0
    BY Returned
  <2>3. mine[c] # mine[b] /\ mine[c] \notin ver.frags
    BY <1>1, <1>5, <2>1 DEF MineIsNew
  <2>4. \A v \in 1 .. n + 1 : mine'[c] \notin Frags(v)'
    BY <1>1, <1>2, <2>1, <2>3 DEF MineIsNew
  <2> QED
    BY <2>1, <2>2, <2>4 DEF MineIsNew
<1>9. CutoffIsPast'
  BY <1>0, Returned DEF CutoffIsPast
<1>10. CondemnedBefore' /\ GoneIsAccounted'
  <2>1. \A p \in condemned : p[1] \in Condemned
    BY DEF Condemned
  <2>2. ASSUME NEW p \in condemned PROVE Past(p[1], p[2])'
    <3>1. p[1] \in 1 .. n
      BY <1>1, <2>1 DEF CondemnedBefore, Before
    <3>2. log'[p[1]] = log[p[1]] /\ Past(p[1], p[2])
      BY <1>2, <3>1 DEF CondemnedBefore
    <3> QED
      BY <1>0, <3>2 DEF Past
  <2>3. Before(Condemned)'
    BY <1>2, <1>4 DEF Before
  <2> QED
    BY <1>0, <1>2, <1>4, <2>2, <2>3 DEF CondemnedBefore, GoneIsAccounted
<1>11. OnlyCondemnedVersionsLoseFiles'
  <2>1. n \notin Condemned
    BY <1>4
  <2>2. Frags(n) \ files \subseteq blind
    BY <1>1, <2>1 DEF OnlyCondemnedVersionsLoseFiles
  <2>3. mine[b] # 0 => mine[b] \in files \union blind
    BY DEF MineIsNew
  <2>4. ver.frags \ files \subseteq blind
    BY <1>5, <2>2, <2>3
  <2>5. ASSUME NEW v \in 1 .. n + 1, v \notin Condemned
        PROVE  v \in manifests' /\ Frags(v)' \ files \subseteq blind
    BY <1>0, <1>1, <1>2, <2>4, <2>5 DEF OnlyCondemnedVersionsLoseFiles
  <2> QED
    BY <1>0, <1>2, <1>4, <2>5 DEF OnlyCondemnedVersionsLoseFiles
<1>12. ASSUME NEW V, NEW F, Before(V), F \subseteq NamedBy(V), OnlyNamedBy(F, V)
       PROVE  Before(V)' /\ NamedBy(V)' = NamedBy(V) /\ OnlyNamedBy(F, V)'
  <2>1. V \subseteq 1 .. n - 1
    BY <1>1, <1>12 DEF Before
  <2>2. Before(V)' /\ NamedBy(V)' = NamedBy(V)
    BY <1>2, <2>1 DEF Before, NamedBy
  <2>3. Frags(n) \intersect F = {}
    BY <1>1, <1>4, <1>12, <2>1 DEF OnlyNamedBy
  <2>4. mine[b] # 0 => mine[b] \notin F
    BY <1>1, <1>12, <2>1 DEF MineIsNew, NamedBy
  <2>5. ver.frags \intersect F = {}
    BY <1>5, <2>3, <2>4
  <2>6. ASSUME NEW v \in 1 .. n + 1, v \notin V \union Condemned
        PROVE  Frags(v)' \intersect F = {}
    BY <1>1, <1>2, <1>12, <2>5, <2>6 DEF OnlyNamedBy
  <2>7. OnlyNamedBy(F, V)'
    BY <1>2, <1>4, <2>6 DEF OnlyNamedBy
  <2> QED
    BY <2>2, <2>7
<1>13. ASSUME NEW V, Before(V)
       PROVE  /\ Before(V)' /\ NamedBy(V)' = NamedBy(V)
              /\ \A v \in V : log'[v] = log[v]
  BY <1>1, <1>2, <1>13 DEF Before, NamedBy
<1>14. SweepIsSafe'
  <2>1. ASSUME NEW r, NEW V, NEW W, SweepSafe(r, V, W) PROVE SweepSafe(r, V, W)'
    <3> DEFINE F == W \intersect NamedBy(V)
    <3>1. /\ Before(V)' /\ NamedBy(V)' = NamedBy(V)
          /\ \A v \in V : log'[v] = log[v]
      BY <1>13, <2>1 DEF SweepSafe
    <3>2. OnlyNamedBy(F, V)
      BY <2>1 DEF SweepSafe
    <3>3. PICK G : G = F
      OBVIOUS
    <3>4. OnlyNamedBy(G, V)'
      BY <1>12, <2>1, <3>2, <3>3 DEF SweepSafe
    <3>5. OnlyNamedBy(W \intersect NamedBy(V), V)'
      BY <3>1, <3>3, <3>4 DEF OnlyNamedBy
    <3>6. \A v \in V : Past(v, r)'
      BY <1>0, <2>1, <3>1 DEF SweepSafe, Past
    <3> QED
      BY <1>0, <2>1, <3>1, <3>5, <3>6 DEF SweepSafe
  <2> QED
    BY <2>1, Returned DEF SweepIsSafe
<1>15. PlansAreSafe'
  <2>1. ASSUME NEW a, PlanIsSafe(a) PROVE PlanIsSafe(a)'
    BY <1>12, <1>13, <2>1 DEF PlanIsSafe
  <2>2. PlanIsSafe(answer)
    BY DEF PlanIsSafe
  <2> QED
    BY <2>1, <2>2, Returned DEF PlansAreSafe
<1> QED
  BY <1>3, <1>6, <1>7, <1>8, <1>9, <1>10, <1>11, <1>14, <1>15

LEMMA CurrentIsVersion ==
    ASSUME Shape
    PROVE  Current \in Version /\ Current.frags = Frags(Latest)
BY LogIsThere DEF Current, Frags

LEMMA AppendCommitKept == ASSUME IInv, NEW b \in Backend, AppendCommit(b) PROVE IInv'
<1> DEFINE ver == [Current EXCEPT !.op = "append", !.read = seen[b], !.at = now,
                                  !.frags = @ \union {mine[b]}]
<1>1. /\ Commit(ver) /\ Returns(b, [op |-> "append", at |-> Latest + 1])
      /\ UNCHANGED <<stored, files, tags, history, now>> /\ mine[b] # 0
  BY DEF AppendCommit
<1>2. Current \in Version /\ Current.frags = Frags(Latest)
  BY CurrentIsVersion DEF IInv
<1>3. ver \in Version
  <2>1. seen[b] \in Nat /\ mine[b] \in Nat /\ now \in Nat
    BY DEF IInv, Shape
  <2>2. Current.frags \union {mine[b]} \in SUBSET Nat
    BY <1>2, <2>1 DEF Version
  <2> QED
    BY <1>2, <2>1, <2>2 DEF Version
<1>4. ver.frags = Frags(Latest) \union {mine[b]}
  BY <1>2 DEF Version
<1> HIDE DEF ver
<1> QED
  BY <1>1, <1>3, <1>4, CommitKept

LEMMA DeleteCommitKept == ASSUME IInv, NEW b \in Backend, DeleteCommit(b) PROVE IInv'
<1> DEFINE P    == call[b].rows
           left == Current.frags \ Emptied(seen[b], P)
           dead == Within(Current.dead \union Hits(seen[b], P), left)
           ver  == [Current EXCEPT !.op = "delete", !.read = seen[b], !.at = now,
                                   !.frags = left,
                                   !.dead  = Within(@ \union Hits(seen[b], P), left),
                                   !.cover = Covering(@, left)]
           answer == [op |-> "delete", read |-> base[b], at |-> Latest + 1,
                      removed |-> FragmentsRemoved(b, left)]
<1>1. /\ Commit(ver) /\ Returns(b, answer) /\ answer.op # "plan"
      /\ UNCHANGED <<stored, files, tags, history, now>>
  BY DEF DeleteCommit
<1>2. Current \in Version /\ Current.frags = Frags(Latest)
  BY CurrentIsVersion DEF IInv
<1>3. P \subseteq Row
  <2>1. call[b] \in Request /\ call[b].op = "delete"
    BY RequestAssumption DEF DeleteCommit, Runs, IInv, Shape, NoCall
  <2> QED
    BY <2>1 DEF Request
<1>4. Frags(seen[b]) \subseteq Nat
  BY LogIsThere DEF IInv, HasOpened, Frags, Version
<1>5. dead \in SUBSET (Nat \X Row)
  BY <1>2, <1>3, <1>4 DEF Version, Within, Hits
<1>6. Covering(Current.cover, left) \in SUBSET (Index \X Nat) /\ left \in SUBSET Nat
  BY <1>2 DEF Version, Covering
<1>7. ver \in Version
  BY <1>2, <1>5, <1>6 DEF Version, IInv, Shape
<1>8. ver.frags \subseteq Frags(Latest)
  BY <1>2 DEF Version
<1> HIDE DEF ver, answer
<1> QED
  BY <1>1, <1>7, <1>8, CommitKept

LEMMA OptimizeCommitKept == ASSUME IInv, NEW b \in Backend, OptimizeCommit(b) PROVE IInv'
<1> DEFINE frags == (Current.frags \ work[b]) \union {mine[b]}
           cover == Remapped(Current.cover, work[b], mine[b])
           ver   == [Current EXCEPT !.op = "optimize", !.read = base[b], !.at = now,
                                    !.frags = (@ \ work[b]) \union {mine[b]},
                                    !.dead  = @ \ DeadIn(Latest, work[b]),
                                    !.cover = Remapped(@, work[b], mine[b])]
           answer == [op |-> "optimize", at |-> Latest + 1,
                      removed |-> Cardinality(work[b]), added |-> 1]
<1>1. /\ Commit(ver) /\ Returns(b, answer) /\ answer.op # "plan"
      /\ UNCHANGED <<stored, files, tags, history, now>> /\ mine[b] # 0
  BY DEF OptimizeCommit
<1>2. Current \in Version /\ Current.frags = Frags(Latest)
  BY CurrentIsVersion DEF IInv
<1>3. mine[b] \in Nat
  BY DEF IInv, Shape
<1>4. cover \in SUBSET (Index \X Nat) /\ frags \in SUBSET Nat
  BY <1>2, <1>3 DEF Version, Remapped
<1>5. ver \in Version
  BY <1>2, <1>4 DEF Version, IInv, Shape
<1>6. ver.frags \subseteq Frags(Latest) \union {mine[b]}
  BY <1>2 DEF Version
<1> HIDE DEF ver, answer
<1> QED
  BY <1>1, <1>5, <1>6, CommitKept

LEMMA IndexCommitKept ==
    ASSUME IInv, NEW b \in Backend,
           call[b].op \in {"create_index", "drop_index", "optimize_indices"},
           NEW idx \in SUBSET Index, NEW cover \in SUBSET (Index \X Nat),
           NEW answer, answer.op # "plan", IndexCommit(b, idx, cover, answer)
    PROVE  IInv'
<1> DEFINE ver == [Current EXCEPT !.op = call[b].op, !.read = base[b], !.at = now,
                                  !.idx = idx, !.cover = cover]
<1>1. /\ Commit(ver) /\ Returns(b, answer)
      /\ UNCHANGED <<stored, files, tags, history, now>>
  BY DEF IndexCommit
<1>2. Current \in Version /\ Current.frags = Frags(Latest)
  BY CurrentIsVersion DEF IInv
<1>3. ver \in Version
  BY <1>2 DEF Version, IInv, Shape
<1>4. ver.frags = Frags(Latest)
  BY <1>2 DEF Version
<1> HIDE DEF ver
<1> QED
  BY <1>1, <1>3, <1>4, CommitKept

LEMMA IndexCallKept ==
    ASSUME IInv, NEW b \in Backend,
           CreateIndex(b) \/ DropIndex(b) \/ OptimizeIndices(b)
    PROVE  IInv'
<1>1. Current \in Version
  BY CurrentIsVersion DEF IInv
<1>2. \A I \in SUBSET Index : Built(b, I) \in SUBSET (Index \X Nat)
  BY <1>1 DEF Built, Version
<1>3. ASSUME NEW I PROVE Without(Current.cover, I) \in SUBSET (Index \X Nat)
  BY <1>1 DEF Without, Version
<1>4. CASE CreateIndex(b)
  <2> DEFINE i == call[b].index
  <2>1. i \in Index
    <3>1. call[b] \in Request /\ call[b].op = "create_index"
      BY <1>4, RequestAssumption DEF CreateIndex, Runs, IInv, Shape, NoCall
    <3> QED
      BY <3>1 DEF Request
  <2>2. Current.idx \union {i} \in SUBSET Index
    BY <1>1, <2>1 DEF Version
  <2>3. Without(Current.cover, {i}) \union Built(b, {i}) \in SUBSET (Index \X Nat)
    BY <1>2, <1>3, <2>1
  <2>4. /\ call[b].op = "create_index"
        /\ IndexCommit(b, Current.idx \union {i},
                       Without(Current.cover, {i}) \union Built(b, {i}),
                       [op |-> "create_index", at |-> Latest + 1])
    BY <1>4 DEF CreateIndex, Runs
  <2>5. [op |-> "create_index", at |-> Latest + 1].op # "plan"
    OBVIOUS
  <2> QED
    BY <2>2, <2>3, <2>4, <2>5, IndexCommitKept
<1>5. CASE DropIndex(b)
  <2>1. Current.idx \ {call[b].index} \in SUBSET Index
    BY <1>1 DEF Version
  <2> QED
    BY <1>3, <1>5, <2>1, IndexCommitKept DEF DropIndex, Runs
<1>6. CASE OptimizeIndices(b)
  <2>1. Current.idx \in SUBSET Index /\ Current.cover \in SUBSET (Index \X Nat)
    BY <1>1 DEF Version
  <2>2. Chosen(b) \in SUBSET Index
    BY <2>1 DEF Chosen, Known
  <2>3. Current.cover \union Built(b, Chosen(b)) \in SUBSET (Index \X Nat)
    BY <1>2, <2>1, <2>2
  <2> QED
    BY <1>6, <2>1, <2>3, IndexCommitKept DEF OptimizeIndices, Runs
<1> QED
  BY <1>4, <1>5, <1>6

-----------------------------------------------------------------------------
(* The other steps.                                                        *)

LEMMA StartKept ==
    ASSUME IInv, NEW b \in Backend, NEW r \in Requests, Start(b, r)
    PROVE  IInv'
<1> USE DEF IInv
<1>1. Cutoff(r) \in Int \union {None} /\ (Cutoff(r) # None =>
         r.older \in Int /\ Cutoff(r) = now - r.older)
  <2>1. CASE r.op \in {"vacuum", "plan"} /\ r.older # None
    <3>1. r.older \in Int
      BY <2>1, RequestAssumption DEF Request
    <3> QED
      BY <2>1, <3>1 DEF Cutoff, Shape
  <2>2. CASE ~(r.op \in {"vacuum", "plan"} /\ r.older # None)
    BY <2>2 DEF Cutoff
  <2> QED
    BY <2>1, <2>2
<1>2. Shape'
  BY <1>1 DEF Start, Shape, storage, States
<1>3. CutoffIsPast'
  <2> SUFFICES ASSUME NEW c \in Backend, cut'[c] # None
               PROVE  call'[c].older \in Int /\ cut'[c] <= now' - call'[c].older
    BY DEF CutoffIsPast
  <2>1. CASE c = b
    BY <1>1, <2>1 DEF Start, Shape
  <2>2. CASE c # b
    BY <2>2 DEF Start, Shape, CutoffIsPast
  <2> QED
    BY <2>1, <2>2
<1>4. \A c \in Backend : pc'[c] = "sweep" => SweepSafe(call'[c], doomed'[c], work'[c])
  BY DEF Start, Shape, SweepIsSafe
<1>5. \A c \in Backend : PlanIsSafe(reply'[c])
  BY DEF Start, Shape, PlansAreSafe, PlanIsSafe, NoReply
<1>6. \A c \in Backend : base'[c] \in 1 .. Latest /\ seen'[c] \in 1 .. Latest
  BY DEF Start, HasOpened
<1>7. UNCHANGED <<storage, now>> /\ \A c \in Backend : mine'[c] \in {mine[c], 0}
  BY DEF Start
<1> QED
  BY <1>2, <1>3, <1>4, <1>5, <1>6, <1>7, QuietKept

\* The steps that only move their backend on.
LEMMA MoveKept ==
    ASSUME IInv, NEW b \in Backend,
           Open(b) \/ CountRows(b) \/ ReadFragment(b) \/ DeleteAgain(b)
    PROVE  IInv'
<1> USE DEF IInv
<1>1. Latest \in 1 .. Latest /\ Frags(Latest) \in SUBSET Nat
  BY LogIsThere DEF Frags, Version
<1>2. UNCHANGED <<storage, now, call, cut, mine, doomed, reply>>
  BY DEF Open, CountRows, ReadFragment, DeleteAgain
<1>3. /\ pc' \in [Backend -> States] /\ base' \in [Backend -> Nat]
      /\ seen' \in [Backend -> Nat] /\ work' \in [Backend -> SUBSET Nat]
  <2>1. Latest \in Nat
    BY LogIsThere
  <2>2. CASE Open(b)
    BY <1>1, <2>1, <2>2 DEF Open, Shape, States
  <2>3. CASE CountRows(b) \/ DeleteAgain(b)
    BY <2>1, <2>3 DEF CountRows, DeleteAgain, Shape, States
  <2>4. CASE ReadFragment(b)
    BY <2>4 DEF ReadFragment, Shape
  <2> QED
    BY <2>2, <2>3, <2>4
<1>4. Shape'
  BY <1>2, <1>3 DEF Shape, storage
<1>5. CutoffIsPast'
  BY <1>2 DEF CutoffIsPast
<1>6. ASSUME NEW c \in Backend
      PROVE  /\ base'[c] \in {base[c], Latest} /\ seen'[c] \in {seen[c], Latest}
             /\ pc'[c] = "sweep" => pc[c] = "sweep" /\ work'[c] = work[c]
  BY DEF Open, CountRows, ReadFragment, DeleteAgain, Shape, Runs
<1>7. \A c \in Backend : base'[c] \in 1 .. Latest /\ seen'[c] \in 1 .. Latest
  BY <1>1, <1>6 DEF HasOpened
<1>8. \A c \in Backend : pc'[c] = "sweep" => SweepSafe(call'[c], doomed'[c], work'[c])
  BY <1>2, <1>6 DEF SweepIsSafe
<1>9. /\ \A c \in Backend : PlanIsSafe(reply'[c])
      /\ \A c \in Backend : mine'[c] \in {mine[c], 0}
  BY <1>2 DEF PlansAreSafe
<1> QED
  BY <1>2, <1>4, <1>5, <1>7, <1>8, <1>9, QuietKept

\* What Survey takes down and Explain answers.
LEMMA SurveyIsSafe ==
    ASSUME IInv, NEW b \in Backend, call[b] \in Requests,
           call[b].op \in {"vacuum", "plan"}
    PROVE  LET V == Expired(b) \ tags
           IN  /\ Before(V)
               /\ \A v \in V : Past(v, call[b])
               /\ OnlyNamedBy(Garbage(b) \intersect NamedBy(V), V)
               /\ call[b].unverified \/ Garbage(b) \subseteq NamedBy(V)
               /\ Garbage(b) \in SUBSET Nat /\ V \in SUBSET Nat
<1> USE DEF IInv
<1> DEFINE V == Expired(b) \ tags
           F == Garbage(b) \intersect NamedBy(V)
<1>1. PICK n \in Nat \ {0} : n = Latest
  BY LogIsThere
<1>2. base[b] \in 1 .. n /\ manifests \subseteq 1 .. n /\ files \subseteq 1 .. Len(stored)
  BY <1>1 DEF HasOpened, StoreIsKnown
<1>3. V \subseteq 1 .. n /\ n \notin V
  <2>1. PICK k \in 1 .. n : k = base[b]
    BY <1>2
  <2>2. ASSUME NEW v \in V PROVE v \in 1 .. n /\ v # n
    <3>1. v \in manifests /\ v < k
      BY <2>1 DEF Expired
    <3> QED
      BY <1>2, <3>1
  <2> QED
    BY <2>2
<1>4. Before(V)
  BY <1>1, <1>3 DEF Before
<1>5. ASSUME NEW v \in V PROVE Past(v, call[b])
  <2>1. Old(b, v)
    BY DEF Expired
  <2>2. CASE cut[b] # None /\ log[v].at < cut[b]
    <3>1. /\ call[b].older \in Int /\ cut[b] <= now - call[b].older
          /\ log[v].at \in Nat /\ now \in Nat /\ cut[b] \in Int
      BY <1>1, <1>3, <2>2, LogIsThere DEF CutoffIsPast, Shape
    <3> QED
      BY <2>2, <3>1, NoneAssumption DEF Past
  <2> QED
    BY <2>1, <2>2 DEF Old, Past
<1>6. OnlyNamedBy(F, V)
  <2> SUFFICES ASSUME NEW v \in 1 .. n, v \notin V \union Condemned,
                      NEW f \in Frags(v), f \in F
               PROVE  FALSE
    BY <1>1 DEF OnlyNamedBy
  <2>1. v \in manifests \ V
    BY <1>1 DEF OnlyCondemnedVersionsLoseFiles
  <2>2. f \in NamedBy(manifests \ V) /\ f \in NamedBy(manifests)
    BY <2>1 DEF NamedBy
  <2> QED
    BY <2>2 DEF Garbage
<1>7. call[b].unverified \/ Garbage(b) \subseteq NamedBy(V)
  BY DEF Garbage, Unverified
<1>8. Garbage(b) \in SUBSET Nat /\ V \in SUBSET Nat
  <2>1. Garbage(b) \subseteq files
    BY DEF Garbage
  <2>2. PICK m \in Nat : m = Len(stored)
    BY LenProperties DEF Shape
  <2>3. files \subseteq 1 .. m
    BY <1>2, <2>2
  <2>4. ASSUME NEW f \in Garbage(b) PROVE f \in Nat
    <3>1. f \in 1 .. m
      BY <2>1, <2>3
    <3> QED
      BY <3>1
  <2>5. ASSUME NEW v \in V PROVE v \in Nat
    BY <1>3
  <2> QED
    BY <2>4, <2>5
<1> QED
  BY <1>4, <1>5, <1>6, <1>7, <1>8

LEMMA SurveyKept == ASSUME IInv, NEW b \in Backend, Survey(b) PROVE IInv'
<1> USE DEF IInv
<1> DEFINE V == Expired(b) \ tags
<1>1. call[b] \in Requests /\ call[b].op = "vacuum"
  BY DEF Survey, Runs, Shape, NoCall
<1>2. /\ V \in SUBSET Nat /\ Garbage(b) \in SUBSET Nat /\ V \intersect tags = {}
      /\ SweepSafe(call[b], V, Garbage(b))
  BY <1>1, SurveyIsSafe DEF SweepSafe
<1>3. UNCHANGED <<storage, now, call, base, seen, cut, mine, reply>>
  BY DEF Survey
<1>4. /\ pc' = [pc EXCEPT ![b] = "sweep"] /\ doomed' = [doomed EXCEPT ![b] = V]
      /\ work' = [work EXCEPT ![b] = Garbage(b)]
  BY DEF Survey
<1> HIDE DEF V
<1>5. Shape'
  BY <1>2, <1>3, <1>4 DEF Shape, States, storage
<1>6. CutoffIsPast'
  BY <1>3 DEF CutoffIsPast
<1>7. ASSUME NEW c \in Backend, pc'[c] = "sweep"
      PROVE  SweepSafe(call'[c], doomed'[c], work'[c])
  <2>1. CASE c = b
    BY <1>2, <1>3, <1>4, <2>1 DEF Shape
  <2>2. CASE c # b
    BY <1>3, <1>4, <1>7, <2>2 DEF Shape, SweepIsSafe
  <2> QED
    BY <2>1, <2>2
<1>8. /\ \A c \in Backend : base'[c] \in 1 .. Latest /\ seen'[c] \in 1 .. Latest
      /\ \A c \in Backend : mine'[c] \in {mine[c], 0}
      /\ \A c \in Backend : PlanIsSafe(reply'[c])
  BY <1>3 DEF HasOpened, PlansAreSafe
<1> QED
  BY <1>3, <1>5, <1>6, <1>7, <1>8, QuietKept

LEMMA ExplainKept == ASSUME IInv, NEW b \in Backend, Explain(b) PROVE IInv'
<1> DEFINE V == Expired(b) \ tags
           answer == [op |-> "plan", unverified |-> call[b].unverified,
                      versions |-> V, files |-> Garbage(b)]
<1>1. call[b] \in Requests /\ call[b].op = "plan"
  BY DEF Explain, Runs, IInv, Shape, NoCall
<1>2. /\ Before(V) /\ OnlyNamedBy(Garbage(b) \intersect NamedBy(V), V)
      /\ call[b].unverified \/ Garbage(b) \subseteq NamedBy(V)
  BY <1>1, SurveyIsSafe
<1>3. ~call[b].unverified => Garbage(b) \intersect NamedBy(V) = Garbage(b)
  BY <1>2
<1>4. PlanIsSafe(answer)
  BY <1>2, <1>3 DEF PlanIsSafe
<1> HIDE DEF V
<1>5. Returns(b, answer) /\ UNCHANGED <<storage, now>>
  BY DEF Explain, V
<1> HIDE DEF answer
<1> QED
  BY <1>4, <1>5, ReturnKept

\* A vacuum that removes what it took down, or a part of it.
LEMMA RemoveKept ==
    ASSUME IInv, NEW b \in Backend, pc[b] = "sweep",
           NEW F \in SUBSET work[b], NEW V \in SUBSET doomed[b], Remove(b, F, V),
           NEW answer, answer.op # "plan", Returns(b, answer)
    PROVE  IInv'
<1> USE DEF IInv
<1>0. /\ files' = files \ F /\ manifests' = manifests \ V
      /\ UNCHANGED <<log, stored, tags, late, now>>
      /\ condemned' = condemned \union (doomed[b] \X {call[b]})
      /\ blind' = blind \union
                    (IF call[b].unverified THEN F \ NamedBy(doomed[b]) ELSE {})
  BY DEF Remove
<1>1. SweepSafe(call[b], doomed[b], work[b])
  BY DEF SweepIsSafe
<1>2. Condemned' = Condemned \union doomed[b]
  <2>1. ASSUME NEW D, NEW r PROVE {p[1] : p \in D \X {r}} = D
    <3>1. \A v \in D : \E p \in D \X {r} : v = p[1]
      <4> SUFFICES ASSUME NEW v \in D PROVE \E p \in D \X {r} : v = p[1]
        OBVIOUS
      <4> WITNESS <<v, r>> \in D \X {r}
      <4> QED
        OBVIOUS
    <3>2. \A p \in D \X {r} : p[1] \in D
      OBVIOUS
    <3> QED
      BY <3>1, <3>2
  <2>2. Condemned' = {p[1] : p \in condemned'}
    BY DEF Condemned
  <2>3. Condemned' = Condemned \union {p[1] : p \in doomed[b] \X {call[b]}}
    BY <1>0, <2>2, Zenon DEF Condemned
  <2> QED
    BY <2>1, <2>3
<1>3. F \ NamedBy(doomed[b]) \subseteq blind'
  BY <1>0, <1>1 DEF SweepSafe
<1>4. /\ Latest' = Latest /\ \A v : Frags(v)' = Frags(v)
      /\ \A W : NamedBy(W)' = NamedBy(W) /\ (Before(W) => Before(W)')
      /\ \A v, r : Past(v, r)' <=> Past(v, r)
      /\ \A G, W : OnlyNamedBy(G, W) => OnlyNamedBy(G, W)'
  BY <1>0, <1>2 DEF Latest, Frags, NamedBy, Before, Past, OnlyNamedBy
<1>5. Shape'
  BY <1>0, Returned DEF Shape
<1>6. StoreIsKnown' /\ NamesWritten'
  BY <1>0, <1>4 DEF StoreIsKnown, NamesWritten
<1>7. HasOpened'
  <2> SUFFICES ASSUME NEW c \in Backend
               PROVE  base'[c] \in 1 .. Latest /\ seen'[c] \in 1 .. Latest
    BY <1>4 DEF HasOpened
  <2>1. base'[c] \in {1, base[c]} /\ seen'[c] \in {1, seen[c]}
    BY Returned
  <2>2. base[c] \in 1 .. Latest /\ seen[c] \in 1 .. Latest
    BY DEF HasOpened
  <2> QED
    BY <2>1, <2>2, LogIsThere
<1>8. MineIsNew'
  <2> SUFFICES ASSUME NEW c \in Backend, mine'[c] # 0
               PROVE  /\ mine'[c] \in 1 .. Len(stored)
                      /\ mine'[c] \in files' \union blind'
                      /\ \A v \in 1 .. Latest : mine'[c] \notin Frags(v)
                      /\ \A d \in Backend \ {c} : mine'[d] # mine'[c]
    BY <1>0, <1>4 DEF MineIsNew
  <2>1. mine'[c] = mine[c] /\ \A d \in Backend : mine'[d] = mine[d] \/ mine'[d] = 0
    BY Returned
  <2>2. mine[c] \notin NamedBy(doomed[b])
    BY <1>1, <2>1 DEF MineIsNew, NamedBy, SweepSafe, Before
  <2>3. mine[c] \in files' \union blind'
    BY <1>0, <1>3, <2>1, <2>2 DEF MineIsNew
  <2> QED
    BY <2>1, <2>3 DEF MineIsNew
<1>9. CutoffIsPast'
  BY <1>0, Returned DEF CutoffIsPast
<1>10. CondemnedBefore'
  <2>1. Before(Condemned \union doomed[b])
    BY <1>1 DEF CondemnedBefore, SweepSafe, Before
  <2>2. ASSUME NEW p \in condemned' PROVE Past(p[1], p[2])
    BY <1>0, <1>1 DEF CondemnedBefore, SweepSafe
  <2>3. (Condemned \union doomed[b]) \intersect tags \subseteq late
    BY <1>1 DEF CondemnedBefore, SweepSafe
  <2>4. Before(Condemned)'
    BY <1>2, <1>4, <2>1 DEF Before
  <2> QED
    BY <1>0, <1>2, <1>4, <2>2, <2>3, <2>4 DEF CondemnedBefore
<1>11. GoneIsAccounted'
  <2> SUFFICES ASSUME NEW f \in 1 .. Len(stored), f \notin files \ F
               PROVE  f \in blind' \/ \E v \in Condemned \union doomed[b] : f \in Frags(v)
    BY <1>0, <1>2, <1>4 DEF GoneIsAccounted
  <2>1. CASE f \notin files
    BY <1>0, <2>1 DEF GoneIsAccounted
  <2>2. CASE f \in F
    BY <1>3, <2>2 DEF NamedBy
  <2> QED
    BY <2>1, <2>2
<1>12. OnlyCondemnedVersionsLoseFiles'
  <2> SUFFICES ASSUME NEW v \in 1 .. Latest, v \notin Condemned \union doomed[b]
               PROVE  v \in manifests' /\ Frags(v) \ files' \subseteq blind'
    BY <1>2, <1>4 DEF OnlyCondemnedVersionsLoseFiles
  <2>1. v \in manifests /\ Frags(v) \ files \subseteq blind
    BY DEF OnlyCondemnedVersionsLoseFiles
  <2>2. Frags(v) \intersect (F \intersect NamedBy(doomed[b])) = {}
    BY <1>1 DEF SweepSafe, OnlyNamedBy
  <2> QED
    BY <1>0, <1>3, <2>1, <2>2
<1>13. SweepIsSafe'
  <2>1. ASSUME NEW r, NEW U, NEW W, SweepSafe(r, U, W) PROVE SweepSafe(r, U, W)'
    <3>1. Before(U)' /\ NamedBy(U)' = NamedBy(U) /\ \A v \in U : Past(v, r)'
      BY <1>4, <2>1 DEF SweepSafe
    <3>2. PICK G : G = W \intersect NamedBy(U)
      OBVIOUS
    <3>3. OnlyNamedBy(G, U)'
      BY <1>4, <2>1, <3>2 DEF SweepSafe
    <3>4. OnlyNamedBy(W \intersect NamedBy(U), U)'
      BY <3>1, <3>2, <3>3 DEF OnlyNamedBy
    <3> QED
      BY <1>0, <2>1, <3>1, <3>4 DEF SweepSafe
  <2> QED
    BY <2>1, Returned DEF SweepIsSafe
<1>14. PlansAreSafe'
  <2>1. ASSUME NEW a, PlanIsSafe(a) PROVE PlanIsSafe(a)'
    BY <1>4, <2>1 DEF PlanIsSafe
  <2>2. PlanIsSafe(answer)
    BY DEF PlanIsSafe
  <2> QED
    BY <2>1, <2>2, Returned DEF PlansAreSafe
<1> QED
  BY <1>5, <1>6, <1>7, <1>8, <1>9, <1>10, <1>11, <1>12, <1>13, <1>14

\* A backend writes its data file.
LEMMA WriteFileKept ==
    ASSUME IInv, NEW b \in Backend, mine[b] = 0, pc[b] = "run",
           NEW R \in SUBSET Row, WriteFile(b, R),
           NEW W \in SUBSET Nat, work' = [work EXCEPT ![b] = W]
    PROVE  IInv'
<1> USE DEF IInv
<1>1. PICK m \in Nat : m = Len(stored)
  BY LenProperties DEF Shape
<1>2. /\ stored' = Append(stored, R) /\ files' = files \union {m + 1}
      /\ mine' = [mine EXCEPT ![b] = m + 1]
      /\ UNCHANGED <<log, manifests, tags, condemned, blind, late, now, call, pc, base,
                      seen, cut, doomed, reply>>
  BY <1>1 DEF WriteFile, history
<1>3. stored' \in Seq(SUBSET Row) /\ Len(stored') = m + 1
  BY <1>1, <1>2, AppendProperties DEF Shape
<1>4. Shape'
  BY <1>2, <1>3 DEF Shape
<1>5. /\ CutoffIsPast' /\ CondemnedBefore' /\ HasOpened'
      /\ OnlyCondemnedVersionsLoseFiles'
  BY <1>2 DEF CutoffIsPast, CondemnedBefore, HasOpened,
              OnlyCondemnedVersionsLoseFiles, Latest, Frags, Condemned, Before, Past
<1>6. StoreIsKnown'
  <2>1. files \subseteq 1 .. m
    BY <1>1 DEF StoreIsKnown
  <2>2. files' \subseteq 1 .. m + 1
    BY <1>2, <2>1
  <2> QED
    BY <1>2, <1>3, <2>2 DEF StoreIsKnown, Latest
<1>7. NamesWritten'
  <2>1. \A v \in 1 .. Latest : Frags(v) \subseteq 1 .. m
    BY <1>1 DEF NamesWritten
  <2>2. \A v \in 1 .. Latest : Frags(v) \subseteq 1 .. m + 1
    BY <2>1
  <2> QED
    BY <1>2, <1>3, <2>2 DEF NamesWritten, Latest, Frags
<1>8. MineIsNew'
  <2> SUFFICES ASSUME NEW c \in Backend, mine'[c] # 0
               PROVE  /\ mine'[c] \in 1 .. m + 1
                      /\ mine'[c] \in files' \union blind
                      /\ \A v \in 1 .. Latest : mine'[c] \notin Frags(v)
                      /\ \A d \in Backend \ {c} : mine'[d] # mine'[c]
    BY <1>2, <1>3 DEF MineIsNew, Latest, Frags
  <2>1. mine'[b] = m + 1 /\ \A d \in Backend \ {b} : mine'[d] = mine[d]
    BY <1>2 DEF Shape
  <2>2. \A d \in Backend : mine[d] \in 0 .. m
    BY <1>1 DEF MineIsNew, Shape
  <2>3. CASE c = b
    BY <1>1, <1>2, <2>1, <2>2, <2>3 DEF NamesWritten
  <2>4. CASE c # b
    BY <1>1, <1>2, <2>1, <2>2, <2>4 DEF MineIsNew
  <2> QED
    BY <2>3, <2>4
<1>11. GoneIsAccounted'
  <2>1. \A f \in 1 .. m + 1 : f \in 1 .. m \/ f \in files'
    BY <1>1, <1>2
  <2> QED
    BY <1>1, <1>2, <1>3, <2>1 DEF GoneIsAccounted, Frags, Condemned
<1>9. SweepIsSafe'
  <2>1. ASSUME NEW r, NEW V, NEW U, SweepSafe(r, V, U) PROVE SweepSafe(r, V, U)'
    BY <1>2, <2>1 DEF SweepSafe, Before, Past, OnlyNamedBy, NamedBy, Latest, Frags, Condemned
  <2>2. ASSUME NEW c \in Backend, pc'[c] = "sweep"
        PROVE  /\ pc[c] = "sweep" /\ call'[c] = call[c] /\ doomed'[c] = doomed[c]
               /\ work'[c] = work[c]
    BY <1>2, <2>2 DEF Shape
  <2> QED
    BY <2>1, <2>2 DEF SweepIsSafe
<1>10. PlansAreSafe'
  <2>1. ASSUME NEW a, PlanIsSafe(a) PROVE PlanIsSafe(a)'
    BY <1>2, <2>1 DEF PlanIsSafe, Before, OnlyNamedBy, NamedBy, Latest, Frags, Condemned
  <2> QED
    BY <1>2, <2>1 DEF PlansAreSafe
<1> QED
  BY <1>4, <1>5, <1>6, <1>7, <1>8, <1>9, <1>10, <1>11

LEMMA WriteKept ==
    ASSUME IInv, NEW b \in Backend, AppendFile(b) \/ RewriteFragments(b)
    PROVE  IInv'
<1> USE DEF IInv
<1>1. CASE AppendFile(b)
  <2>1. call[b] \in Request /\ call[b].op = "append"
    BY <1>1, RequestAssumption DEF AppendFile, Runs, Shape, NoCall
  <2>2. call[b].rows \in SUBSET Row
    BY <2>1 DEF Request
  <2>3. work[b] \in SUBSET Nat /\ work' = [work EXCEPT ![b] = work[b]]
    BY <1>1 DEF AppendFile, Shape
  <2> QED
    BY <1>1, <2>2, <2>3, WriteFileKept DEF AppendFile, Runs
<1>2. CASE RewriteFragments(b)
  <2>1. PICK S \in Planned(b) :
          /\ work' = [work EXCEPT ![b] = S]
          /\ WriteFile(b, UNION { Live(base[b], f) : f \in S })
          /\ pc[b] = "run" /\ mine[b] = 0
    BY <1>2 DEF RewriteFragments, Runs
  <2>2. Frags(base[b]) \subseteq 1 .. Len(stored) /\ Frags(base[b]) \subseteq Nat
    BY LogIsThere DEF NamesWritten, HasOpened, Frags, Version
  <2>3. S \subseteq Frags(base[b])
    BY DEF Planned
  <2>4. \A f \in S : Live(base[b], f) \subseteq Row
    BY <2>2, <2>3, ElementOfSeq DEF Shape, Live
  <2>5. UNION { Live(base[b], f) : f \in S } \in SUBSET Row
    BY <2>4
  <2> QED
    BY <2>1, <2>2, <2>3, <2>5, WriteFileKept
<1> QED
  BY <1>1, <1>2

\* Somebody tags a version, or time passes.
LEMMA WorldKept == ASSUME IInv, Tag \/ TimePasses PROVE IInv'
<1> USE DEF IInv
<1>1. /\ UNCHANGED <<log, stored, manifests, files, condemned, blind>>
      /\ UNCHANGED <<call, pc, base, seen, cut, mine, work, doomed, reply>>
  BY DEF Tag, TimePasses, storage, history, local
<1>2. now' \in Nat /\ now \in Nat /\ now <= now' /\ late \subseteq late'
  BY DEF Tag, TimePasses, Shape, storage, history
\* What is tagged now and is to be removed was tagged too late.
<1>12. ASSUME NEW V, V \subseteq Condemned \union Doomed, V \intersect tags \subseteq late
       PROVE  V \intersect tags' \subseteq late'
  <2>1. CASE Tag
    <3>1. PICK v \in manifests : /\ tags' = tags \union {v}
                                 /\ late' = late \union ({v} \intersect (Condemned \union Doomed))
      BY <2>1 DEF Tag
    <3> QED
      BY <1>12, <3>1
  <2>2. CASE TimePasses
    BY <1>12, <2>2 DEF TimePasses, storage, history
  <2> QED
    BY <2>1, <2>2
<1>3. Shape'
  BY <1>1, <1>2 DEF Shape
<1>4. /\ StoreIsKnown' /\ NamesWritten' /\ HasOpened' /\ MineIsNew' /\ GoneIsAccounted'
      /\ OnlyCondemnedVersionsLoseFiles'
  BY <1>1 DEF StoreIsKnown, NamesWritten, HasOpened, MineIsNew, GoneIsAccounted,
              OnlyCondemnedVersionsLoseFiles, Latest, Frags, Condemned
<1>5. CutoffIsPast'
  <2> SUFFICES ASSUME NEW c \in Backend, cut[c] # None
               PROVE  call[c].older \in Int /\ cut[c] <= now' - call[c].older
    BY <1>1 DEF CutoffIsPast
  <2>1. cut[c] \in Int /\ call[c].older \in Int /\ cut[c] <= now - call[c].older
    BY DEF CutoffIsPast, Shape
  <2> QED
    BY <1>2, <2>1
<1>6. ASSUME NEW v \in 1 .. Latest, NEW r, Past(v, r) PROVE Past(v, r)'
  <2>1. log[v].at \in Nat
    BY LogIsThere
  <2> QED
    BY <1>1, <1>2, <1>6, <2>1 DEF Past
<1>7. ASSUME NEW V, Before(V) PROVE Before(V)'
  BY <1>1, <1>7 DEF Before, Latest
<1>8. Condemned' = Condemned /\ \A p \in condemned : p[1] \in Condemned
  BY <1>1 DEF Condemned
<1>9. CondemnedBefore'
  <2>1. ASSUME NEW p \in condemned PROVE Past(p[1], p[2])'
    BY <1>6, <1>8 DEF CondemnedBefore, Before
  <2>2. Condemned \intersect tags' \subseteq late' /\ Before(Condemned)'
    BY <1>1, <1>8, <1>12 DEF CondemnedBefore, Before, Latest
  <2> QED
    BY <1>1, <1>8, <2>1, <2>2 DEF CondemnedBefore
<1>10. SweepIsSafe'
  <2>1. ASSUME NEW r, NEW V, NEW W, SweepSafe(r, V, W), V \subseteq Doomed
        PROVE  SweepSafe(r, V, W)'
    <3>1. Before(V)' /\ V \intersect tags' \subseteq late'
      BY <1>7, <1>12, <2>1 DEF SweepSafe
    <3>2. \A v \in V : Past(v, r)'
      BY <1>6, <2>1 DEF SweepSafe, Before
    <3>3. OnlyNamedBy(W \intersect NamedBy(V), V)'
      BY <1>1, <2>1 DEF SweepSafe, OnlyNamedBy, NamedBy, Latest, Frags, Condemned
    <3>4. r.unverified \/ W \subseteq NamedBy(V)'
      BY <1>1, <2>1 DEF SweepSafe, NamedBy, Frags
    <3> QED
      BY <2>1, <3>1, <3>2, <3>3, <3>4 DEF SweepSafe
  <2>2. \A c \in Backend : doomed[c] \subseteq Doomed
    BY DEF Doomed
  <2> QED
    BY <1>1, <2>1, <2>2 DEF SweepIsSafe
<1>11. PlansAreSafe'
  <2>1. ASSUME NEW a, PlanIsSafe(a) PROVE PlanIsSafe(a)'
    BY <1>1, <2>1 DEF PlanIsSafe, Before, OnlyNamedBy, NamedBy, Latest, Frags, Condemned
  <2> QED
    BY <1>1, <2>1 DEF PlansAreSafe
<1> QED
  BY <1>3, <1>4, <1>5, <1>9, <1>10, <1>11

\* The calls that answer and leave the dataset alone.
LEMMA AnswerKept ==
    ASSUME IInv, NEW b \in Backend,
           \/ \E r \in Requests : Refuse(b, r)
           \/ Fail(b) \/ NothingToOptimize(b) \/ TableInfo(b) \/ FragmentStats(b)
           \/ ListFragments(b) \/ ListVersions(b) \/ ListIndices(b) \/ ScanDone(b)
    PROVE  IInv'
<1>1. \E answer : Returns(b, answer) /\ answer.op # "plan" /\ UNCHANGED <<storage, now>>
  <2>1. CASE (\E r \in Requests : Refuse(b, r)) \/ Fail(b)
    BY <2>1 DEF Refuse, Fail, Error
  <2>2. CASE NothingToOptimize(b)
    BY <2>2 DEF NothingToOptimize
  <2>3. CASE TableInfo(b)
    BY <2>3 DEF TableInfo
  <2>4. CASE FragmentStats(b)
    BY <2>4 DEF FragmentStats
  <2>5. CASE ListFragments(b)
    BY <2>5 DEF ListFragments
  <2>6. CASE ListVersions(b)
    BY <2>6 DEF ListVersions
  <2>7. CASE ListIndices(b)
    BY <2>7 DEF ListIndices
  <2>8. CASE ScanDone(b)
    BY <2>8 DEF ScanDone
  <2> QED
    BY <2>1, <2>2, <2>3, <2>4, <2>5, <2>6, <2>7, <2>8
<1> QED
  BY <1>1, ReturnKept DEF PlanIsSafe

LEMMA SweepKept ==
    ASSUME IInv, NEW b \in Backend, Sweep(b) \/ SweepFails(b)
    PROVE  IInv'
<1>1. CASE Sweep(b)
  <2> DEFINE answer == [op |-> "vacuum", versions |-> doomed[b], files |-> work[b]]
  <2>1. /\ pc[b] = "sweep" /\ Remove(b, work[b], doomed[b]) /\ Returns(b, answer)
        /\ answer.op # "plan"
    BY <1>1 DEF Sweep
  <2> HIDE DEF answer
  <2> QED
    BY <2>1, RemoveKept
<1>2. CASE SweepFails(b)
  <2>1. PICK F \in SUBSET work[b], V \in SUBSET doomed[b] : Remove(b, F, V)
    BY <1>2 DEF SweepFails
  <2>2. pc[b] = "sweep" /\ Returns(b, Error) /\ Error.op # "plan"
    BY <1>2 DEF SweepFails, Error
  <2> QED
    BY <2>1, <2>2, RemoveKept
<1> QED
  BY <1>1, <1>2

LEMMA NextKept == ASSUME IInv, [Next]_vars PROVE IInv'
<1>1. CASE UNCHANGED vars
  <2>1. UNCHANGED <<log, stored, manifests, files, tags, condemned, blind, late, now,
                    call, pc, base, seen, cut, mine, work, doomed, reply>>
    BY <1>1 DEF vars, storage, history, local
  <2>2. Shape' /\ StoreIsKnown' /\ NamesWritten' /\ HasOpened' /\ MineIsNew'
    BY <2>1 DEF IInv, Shape, StoreIsKnown, NamesWritten, HasOpened, MineIsNew, Latest, Frags
  <2>3. /\ CutoffIsPast' /\ CondemnedBefore' /\ GoneIsAccounted'
        /\ OnlyCondemnedVersionsLoseFiles'
    BY <2>1 DEF IInv, CutoffIsPast, CondemnedBefore, GoneIsAccounted, Past, Before,
                OnlyCondemnedVersionsLoseFiles, Latest, Frags, Condemned
  <2>4. SweepIsSafe' /\ PlansAreSafe'
    BY <2>1 DEF IInv, SweepIsSafe, SweepSafe, PlansAreSafe, PlanIsSafe, Past, Before,
                OnlyNamedBy, NamedBy, Latest, Frags, Condemned
  <2> QED
    BY <2>2, <2>3, <2>4 DEF IInv
<1>2. ASSUME NEW b \in Backend, Step(b) PROVE IInv'
  <2>1. CASE Open(b) \/ CountRows(b) \/ ReadFragment(b) \/ DeleteAgain(b)
    BY <2>1, MoveKept
  <2>2. CASE AppendFile(b) \/ RewriteFragments(b)
    BY <2>2, WriteKept
  <2>3. CASE AppendCommit(b)
    BY <2>3, AppendCommitKept
  <2>4. CASE DeleteCommit(b)
    BY <2>4, DeleteCommitKept
  <2>5. CASE OptimizeCommit(b)
    BY <2>5, OptimizeCommitKept
  <2>6. CASE CreateIndex(b) \/ DropIndex(b) \/ OptimizeIndices(b)
    BY <2>6, IndexCallKept
  <2>7. CASE Survey(b)
    BY <2>7, SurveyKept
  <2>8. CASE Sweep(b) \/ SweepFails(b)
    BY <2>8, SweepKept
  <2>9. CASE Explain(b)
    BY <2>9, ExplainKept
  <2>10. CASE \/ Fail(b) \/ NothingToOptimize(b) \/ TableInfo(b) \/ FragmentStats(b)
              \/ ListFragments(b) \/ ListVersions(b) \/ ListIndices(b) \/ ScanDone(b)
    BY <2>10, AnswerKept
  <2> QED
    BY <1>2, <2>1, <2>2, <2>3, <2>4, <2>5, <2>6, <2>7, <2>8, <2>9, <2>10 DEF Step
<1>3. ASSUME NEW b \in Backend, NEW r \in Requests, Start(b, r) PROVE IInv'
  BY <1>3, StartKept
<1>4. ASSUME NEW b \in Backend, NEW r \in Requests, Refuse(b, r) PROVE IInv'
  BY <1>4, AnswerKept
<1>5. CASE Tag \/ TimePasses
  BY <1>5, WorldKept
<1> QED
  BY <1>1, <1>2, <1>3, <1>4, <1>5 DEF Next

(***************************************************************************)
(* The inductive invariant: what a vacuum has taken down and what a plan   *)
(* has answered stay garbage through every commit of the others.           *)
(***************************************************************************)
THEOREM MaintenanceInvariant == Spec => []IInv
<1>1. Init => IInv
  BY InitIInv
<1>2. IInv /\ [Next]_vars => IInv'
  BY NextKept
<1> QED
  BY <1>1, <1>2, PTL DEF Spec

(***************************************************************************)
(* Whatever interleaves with it, lance_vacuum leaves a version it did not  *)
(* set out to remove where it is and with all its files, but for files     *)
(* that delete_unverified removed before they were named: a version that   *)
(* a scan or a tag holds can be read as long as no vacuum condemns it.     *)
(***************************************************************************)
THEOREM VacuumSparesTheRest == Spec => []OnlyCondemnedVersionsLoseFiles
<1>1. IInv => OnlyCondemnedVersionsLoseFiles
  BY DEF IInv
<1> QED
  BY <1>1, MaintenanceInvariant, PTL

(***************************************************************************)
(* lance_vacuum condemns neither the latest version nor one with a tag it  *)
(* could have seen, and only what a limit of its caller covers: the cutoff *)
(* is fixed before the dataset is opened, so nothing that is committed     *)
(* meanwhile is old.  A file that is gone was named by a condemned version *)
(* unless a vacuum with delete_unverified removed it.                      *)
(***************************************************************************)
THEOREM VacuumTakesTheOld == Spec => []CondemnedAreOld
<1>1. IInv => CondemnedAreOld
  <2> SUFFICES ASSUME IInv PROVE CondemnedAreOld
    OBVIOUS
  <2>1. Latest \notin Condemned /\ Condemned \intersect tags \subseteq late
    BY DEF IInv, CondemnedBefore, Before
  <2>2. ASSUME NEW p \in condemned
        PROVE  \/ p[2].older # None /\ log[p[1]].at < now - p[2].older
               \/ p[2].before # None /\ p[1] < p[2].before
    BY NoneAssumption DEF IInv, CondemnedBefore, Past
  <2>3. DOMAIN stored = 1 .. Len(stored)
    BY LenProperties DEF IInv, Shape
  <2> QED
    BY <2>1, <2>2, <2>3 DEF CondemnedAreOld, IInv, GoneIsAccounted
<1> QED
  BY <1>1, MaintenanceInvariant, PTL

(***************************************************************************)
(* What lance_cleanup_plan lists stays garbage until it is removed: a      *)
(* version that is kept never names one of its files, whoever commits,     *)
(* compacts or vacuums after the plan was made.                            *)
(***************************************************************************)
THEOREM PlansHold == Spec => []PlannedStaysGarbage
<1>1. IInv => PlannedStaysGarbage
  <2> SUFFICES ASSUME IInv, NEW b \in Backend,
                      reply[b].op = "plan", ~reply[b].unverified
               PROVE  NamedBy(1 .. Latest \ (reply[b].versions \union Condemned))
                        \intersect reply[b].files = {}
    BY DEF PlannedStaysGarbage
  <2>1. OnlyNamedBy(reply[b].files, reply[b].versions)
    BY DEF IInv, PlansAreSafe, PlanIsSafe
  <2> QED
    BY <2>1 DEF OnlyNamedBy, NamedBy
<1> QED
  BY <1>1, MaintenanceInvariant, PTL

-----------------------------------------------------------------------------
(* What indexes cover.                                                     *)

Covers(v) == log[v].cover \subseteq log[v].idx \X log[v].frags

\* What lance_optimize_indices has answered.
CatchesUp(a) ==
    a.op = "optimize_indices" =>
        /\ a.read \in 1 .. Latest /\ a.at \in 1 .. Latest
        /\ LET idx == log[a.read].idx \intersect log[a.at].idx
           IN  (IF a.names = {} THEN idx ELSE idx \intersect a.names)
                 \X (Frags(a.read) \intersect Frags(a.at)) \subseteq log[a.at].cover

CoverInv ==
    /\ \A v \in 1 .. Latest : Covers(v)
    /\ \A b \in Backend : CatchesUp(reply[b])

LEMMA CoverQuiet ==
    ASSUME CoverInv, UNCHANGED log,
           \A c \in Backend : reply'[c] = reply[c] \/ reply'[c].op # "optimize_indices"
    PROVE  CoverInv'
<1>1. \A v \in 1 .. Latest' : Covers(v)'
  BY DEF CoverInv, Covers, Latest
<1>2. ASSUME NEW a, CatchesUp(a) PROVE CatchesUp(a)'
  BY <1>2 DEF CatchesUp, Latest, Frags
<1>3. \A c \in Backend : CatchesUp(reply'[c])
  BY DEF CoverInv, CatchesUp
<1> QED
  BY <1>1, <1>2, <1>3 DEF CoverInv

LEMMA AppendedVersion ==
    ASSUME Shape, NEW ver, log' = Append(log, ver)
    PROVE  /\ Latest' = Latest + 1
           /\ log'[Latest + 1] = ver
           /\ \A v \in 1 .. Latest : log'[v] = log[v]
<1>1. log \in Seq(Version \union {ver})
  BY DEF Shape
<1>2. ver \in Version \union {ver}
  OBVIOUS
<1> QED
  BY <1>1, <1>2, AppendProperties DEF Latest

LEMMA CoverCommit ==
    ASSUME Shape, CoverInv, NEW ver, Commit(ver),
           ver.cover \subseteq ver.idx \X ver.frags,
           \A c \in Backend : \/ reply'[c] = reply[c]
                              \/ \E a : a = reply'[c] /\ CatchesUp(a)'
    PROVE  CoverInv'
<1>1. PICK n \in Nat \ {0} : n = Latest
  BY LogIsThere
<1>2. /\ Latest' = n + 1 /\ log'[n + 1] = ver
      /\ \A v \in 1 .. n : log'[v] = log[v]
  BY <1>1, AppendedVersion DEF Commit
<1>3. ASSUME NEW v \in 1 .. n + 1 PROVE Covers(v)'
  BY <1>1, <1>2 DEF CoverInv, Covers
<1>4. ASSUME NEW a, CatchesUp(a) PROVE CatchesUp(a)'
  BY <1>1, <1>2, <1>4 DEF CatchesUp, Frags
<1>5. \A c \in Backend : CatchesUp(reply[c])
  BY DEF CoverInv
<1>6. \A c \in Backend : \E a : a = reply'[c] /\ CatchesUp(a)'
  BY <1>4, <1>5
<1> QED
  BY <1>2, <1>3, <1>6 DEF CoverInv

\* Who has written a data file is about to commit it.
Writing ==
    \A b \in Backend : mine[b] # 0 =>
        /\ pc[b] = "run"
        /\ call[b].op = "append" \/ (call[b].op = "optimize" /\ work[b] # {})

LEMMA WritingKept == ASSUME Shape, Writing, [Next]_vars PROVE Writing'
<1>1. CASE UNCHANGED vars
  BY <1>1 DEF vars, local, Writing
<1>2. CASE Tag \/ TimePasses
  BY <1>2 DEF Tag, TimePasses, local, Writing
<1>3. ASSUME NEW b \in Backend, NEW answer, Returns(b, answer) PROVE Writing'
  BY <1>3, Returned DEF Writing
<1>4. ASSUME NEW b \in Backend, Step(b) PROVE Writing'
  <2>1. CASE Open(b) \/ CountRows(b) \/ ReadFragment(b) \/ DeleteAgain(b)
    BY <2>1 DEF Open, CountRows, ReadFragment, DeleteAgain, Runs, Writing, Shape
  <2>2. CASE AppendFile(b)
    BY <2>2 DEF AppendFile, WriteFile, Runs, Writing, Shape
  <2>3. CASE RewriteFragments(b)
    BY <2>3 DEF RewriteFragments, WriteFile, Runs, Writing, Shape
  <2>4. CASE Survey(b)
    BY <2>4 DEF Survey, Runs, Writing, Shape
  <2>5. CASE AppendCommit(b) \/ DeleteCommit(b) \/ OptimizeCommit(b)
    BY <1>3, <2>5 DEF AppendCommit, DeleteCommit, OptimizeCommit
  <2>6. CASE CreateIndex(b) \/ DropIndex(b) \/ OptimizeIndices(b)
    BY <1>3, <2>6 DEF CreateIndex, DropIndex, OptimizeIndices, IndexCommit
  <2>7. CASE Sweep(b) \/ SweepFails(b) \/ Explain(b) \/ Fail(b) \/ NothingToOptimize(b)
    BY <1>3, <2>7 DEF Sweep, SweepFails, Explain, Fail, NothingToOptimize
  <2>8. CASE \/ TableInfo(b) \/ FragmentStats(b) \/ ListFragments(b) \/ ListVersions(b)
             \/ ListIndices(b) \/ ScanDone(b)
    BY <1>3, <2>8 DEF TableInfo, FragmentStats, ListFragments, ListVersions,
                      ListIndices, ScanDone
  <2> QED
    BY <1>4, <2>1, <2>2, <2>3, <2>4, <2>5, <2>6, <2>7, <2>8 DEF Step
<1>5. ASSUME NEW b \in Backend, NEW r \in Requests, Start(b, r) \/ Refuse(b, r)
      PROVE  Writing'
  <2>1. CASE Start(b, r)
    BY <2>1 DEF Start, Writing, Shape
  <2>2. CASE Refuse(b, r)
    BY <1>3, <2>2 DEF Refuse
  <2> QED
    BY <1>5, <2>1, <2>2
<1> QED
  BY <1>1, <1>2, <1>4, <1>5 DEF Next

LEMMA CoverKept ==
    ASSUME IInv, Writing, CoverInv, NEW b \in Backend, Step(b)
    PROVE  CoverInv'
<1> USE DEF IInv
<1>1. /\ Current \in Version /\ Current.frags = Frags(Latest)
      /\ Current.cover \subseteq Current.idx \X Current.frags
  BY CurrentIsVersion, LogIsThere DEF CoverInv, Covers, Current
<1>2. ASSUME NEW answer, Returns(b, answer), answer.op # "optimize_indices"
      PROVE  /\ \A c \in Backend : reply'[c] = reply[c] \/ reply'[c].op # "optimize_indices"
             /\ \A c \in Backend : \/ reply'[c] = reply[c]
                                   \/ \E a : a = reply'[c] /\ CatchesUp(a)'
  <2>1. \A c \in Backend : reply'[c] = reply[c] \/ reply'[c] = answer
    BY <1>2, Returned
  <2>2. CatchesUp(answer)'
    BY <1>2 DEF CatchesUp
  <2> QED
    BY <1>2, <2>1, <2>2
<1>3. CASE AppendCommit(b)
  <2> DEFINE ver == [Current EXCEPT !.op = "append", !.read = seen[b], !.at = now,
                                    !.frags = @ \union {mine[b]}]
  <2>1. Commit(ver) /\ Returns(b, [op |-> "append", at |-> Latest + 1])
    BY <1>3 DEF AppendCommit
  <2>2. ver.cover \subseteq ver.idx \X ver.frags
    BY <1>1 DEF Version
  <2> HIDE DEF ver
  <2> QED
    BY <1>2, <2>1, <2>2, CoverCommit
<1>4. CASE DeleteCommit(b)
  <2> DEFINE P    == call[b].rows
             left == Current.frags \ Emptied(seen[b], P)
             ver  == [Current EXCEPT !.op = "delete", !.read = seen[b], !.at = now,
                                     !.frags = left,
                                     !.dead  = Within(@ \union Hits(seen[b], P), left),
                                     !.cover = Covering(@, left)]
             answer == [op |-> "delete", read |-> base[b], at |-> Latest + 1,
                        removed |-> FragmentsRemoved(b, left)]
  <2>1. Commit(ver) /\ Returns(b, answer) /\ answer.op # "optimize_indices"
    BY <1>4 DEF DeleteCommit
  <2>2. ver.cover = Covering(Current.cover, left) /\ ver.idx = Current.idx /\ ver.frags = left
    BY <1>1 DEF Version
  <2>3. ver.cover \subseteq ver.idx \X ver.frags
    BY <1>1, <2>2 DEF Covering
  <2> HIDE DEF ver, answer
  <2> QED
    BY <1>2, <2>1, <2>3, CoverCommit
<1>5. CASE OptimizeCommit(b)
  <2> DEFINE ver == [Current EXCEPT !.op = "optimize", !.read = base[b], !.at = now,
                                    !.frags = (@ \ work[b]) \union {mine[b]},
                                    !.dead  = @ \ DeadIn(Latest, work[b]),
                                    !.cover = Remapped(@, work[b], mine[b])]
             answer == [op |-> "optimize", at |-> Latest + 1,
                        removed |-> Cardinality(work[b]), added |-> 1]
  <2>1. Commit(ver) /\ Returns(b, answer) /\ answer.op # "optimize_indices"
    BY <1>5 DEF OptimizeCommit
  <2>2. /\ ver.cover = Remapped(Current.cover, work[b], mine[b]) /\ ver.idx = Current.idx
        /\ ver.frags = (Current.frags \ work[b]) \union {mine[b]}
    BY <1>1 DEF Version
  <2>3. work[b] # {}
    BY <1>5 DEF OptimizeCommit, Runs, Writing
  <2>4. ver.cover \subseteq ver.idx \X ver.frags
    <3> DEFINE all == {i \in Index : \A g \in work[b] : <<i, g>> \in Current.cover}
               new == {<<i, mine[b]>> : i \in all}
    <3>1. all \subseteq Current.idx
      BY <1>1, <2>3
    <3>2. new \subseteq ver.idx \X ver.frags
      BY <2>2, <3>1
    <3>3. {p \in Current.cover : p[2] \notin work[b]} \subseteq ver.idx \X ver.frags
      BY <1>1, <2>2
    <3> QED
      BY <2>2, <3>2, <3>3 DEF Remapped
  <2> HIDE DEF ver, answer
  <2> QED
    BY <1>2, <2>1, <2>4, CoverCommit
<1>6. ASSUME NEW I, NEW J
      PROVE  /\ Without(Current.cover, I) \subseteq (Current.idx \ I) \X Current.frags
             /\ Built(b, J) \subseteq J \X Current.frags
  BY <1>1 DEF Without, Built
<1>7. ASSUME NEW idx, NEW cover, NEW answer, IndexCommit(b, idx, cover, answer),
             cover \subseteq idx \X Current.frags
      PROVE  \E ver : /\ Commit(ver) /\ Returns(b, answer)
                      /\ ver.idx = idx /\ ver.cover = cover /\ ver.frags = Current.frags
                      /\ ver.cover \subseteq ver.idx \X ver.frags
  <2> DEFINE ver == [Current EXCEPT !.op = call[b].op, !.read = base[b], !.at = now,
                                    !.idx = idx, !.cover = cover]
  <2>1. Commit(ver) /\ Returns(b, answer)
    BY <1>7 DEF IndexCommit
  <2>2. ver.idx = idx /\ ver.cover = cover /\ ver.frags = Current.frags
    BY <1>1 DEF Version
  <2> HIDE DEF ver
  <2> QED
    BY <1>7, <2>1, <2>2
<1>8. CASE CreateIndex(b)
  <2> DEFINE i == call[b].index
             idx == Current.idx \union {i}
             cover == Without(Current.cover, {i}) \union Built(b, {i})
             answer == [op |-> "create_index", at |-> Latest + 1]
  <2>1. IndexCommit(b, idx, cover, answer) /\ answer.op # "optimize_indices"
    BY <1>8 DEF CreateIndex
  <2>2. cover \subseteq idx \X Current.frags
    BY <1>6
  <2> HIDE DEF idx, cover, answer
  <2> QED
    BY <1>2, <1>7, <2>1, <2>2, CoverCommit
<1>9. CASE DropIndex(b)
  <2> DEFINE idx == Current.idx \ {call[b].index}
             cover == Without(Current.cover, {call[b].index})
             answer == [op |-> "drop_index", at |-> Latest + 1]
  <2>1. IndexCommit(b, idx, cover, answer) /\ answer.op # "optimize_indices"
    BY <1>9 DEF DropIndex
  <2>2. cover \subseteq idx \X Current.frags
    BY <1>6
  <2> HIDE DEF idx, cover, answer
  <2> QED
    BY <1>2, <1>7, <2>1, <2>2, CoverCommit
<1>10. CASE OptimizeIndices(b)
  <2> DEFINE cover == Current.cover \union Built(b, Chosen(b))
             answer == [op |-> "optimize_indices", read |-> base[b], at |-> Latest + 1,
                        names |-> call[b].names, count |-> Cardinality(call[b].names)]
  <2>1. IndexCommit(b, Current.idx, cover, answer)
    BY <1>10 DEF OptimizeIndices
  <2>2. Chosen(b) \subseteq Current.idx
    BY DEF Chosen, Known
  <2>3. cover \subseteq Current.idx \X Current.frags
    BY <1>1, <1>6, <2>2
  <2>4. PICK ver : /\ Commit(ver) /\ Returns(b, answer)
                   /\ ver.idx = Current.idx /\ ver.cover = cover
                   /\ ver.frags = Current.frags
                   /\ ver.cover \subseteq ver.idx \X ver.frags
    <3> HIDE DEF cover, answer
    <3> QED
      BY <1>7, <2>1, <2>3
  <2>5. PICK n \in Nat \ {0} : n = Latest
    BY LogIsThere
  <2>6. PICK k \in 1 .. n : k = base[b]
    BY <2>5 DEF HasOpened
  <2>7. Latest' = n + 1 /\ log'[n + 1] = ver /\ log'[k] = log[k]
    BY <2>4, <2>5, AppendedVersion DEF Commit
  <2>8. /\ answer.read = k /\ answer.at = n + 1 /\ answer.names = call[b].names
    BY <2>5, <2>6
  <2>9. Built(b, Chosen(b)) \subseteq cover
    OBVIOUS
  <2>10. (IF answer.names = {} THEN log[k].idx \intersect ver.idx
          ELSE (log[k].idx \intersect ver.idx) \intersect answer.names)
            \X (log[k].frags \intersect ver.frags) \subseteq ver.cover
    BY <2>4, <2>6, <2>8, <2>9 DEF Chosen, Known, Built, Frags
  <2> HIDE DEF answer, cover
  <2>11. PICK a : a = answer
    OBVIOUS
  <2>12. CatchesUp(a)'
    BY <2>7, <2>8, <2>10, <2>11 DEF CatchesUp, Frags
  <2>13. \A c \in Backend : reply'[c] = reply[c] \/ reply'[c] = a
    BY <2>4, <2>11, Returned
  <2> QED
    BY <2>4, <2>12, <2>13, CoverCommit
<1>11. CASE \/ Open(b) \/ CountRows(b) \/ ReadFragment(b) \/ DeleteAgain(b)
            \/ AppendFile(b) \/ RewriteFragments(b) \/ Survey(b)
  <2>1. UNCHANGED <<log, reply>>
    BY <1>11 DEF Open, CountRows, ReadFragment, DeleteAgain, AppendFile,
                 RewriteFragments, WriteFile, Survey, storage
  <2> QED
    BY <2>1, CoverQuiet
<1>12. CASE Sweep(b)
  BY <1>2, <1>12, CoverQuiet DEF Sweep, Remove
<1>13. CASE SweepFails(b) \/ Fail(b)
  BY <1>2, <1>13, CoverQuiet DEF SweepFails, Fail, Remove, Error, storage
<1>14. CASE Explain(b) \/ NothingToOptimize(b) \/ ScanDone(b)
  BY <1>2, <1>14, CoverQuiet DEF Explain, NothingToOptimize, ScanDone, storage
<1>15. CASE TableInfo(b) \/ FragmentStats(b)
  BY <1>2, <1>15, CoverQuiet DEF TableInfo, FragmentStats, storage
<1>16. CASE ListFragments(b) \/ ListVersions(b) \/ ListIndices(b)
  BY <1>2, <1>16, CoverQuiet DEF ListFragments, ListVersions, ListIndices, storage
<1> QED
  BY <1>3, <1>4, <1>5, <1>8, <1>9, <1>10, <1>11, <1>12, <1>13, <1>14, <1>15, <1>16 DEF Step

(***************************************************************************)
(* After lance_optimize_indices no fragment it saw, and that is still      *)
(* there, is left unindexed, and an index never covers a fragment that has *)
(* left the dataset, whatever deletes, compacts or appends in between.     *)
(***************************************************************************)
THEOREM IndexesCover == Spec => []IndexesCatchUp
<1>1. Init => Writing /\ CoverInv
  <2> SUFFICES ASSUME Init PROVE Writing /\ CoverInv
    OBVIOUS
  <2>1. Writing
    BY DEF Init, Writing
  <2>2. \A c \in Backend : CatchesUp(reply[c])
    BY DEF Init, CatchesUp, NoReply
  <2>3. log = <<Version1>> /\ Latest = 1
    BY DEF Init, Latest
  <2>4. Covers(1)
    BY <2>3, SeedAssumption DEF Covers, Version1
  <2> QED
    BY <2>1, <2>2, <2>3, <2>4 DEF CoverInv
<1>2. IInv /\ Writing /\ CoverInv /\ [Next]_vars => Writing' /\ CoverInv'
  <2> SUFFICES ASSUME IInv, Writing, CoverInv, [Next]_vars PROVE Writing' /\ CoverInv'
    OBVIOUS
  <2>1. Writing'
    BY WritingKept DEF IInv
  <2>2. CASE UNCHANGED vars \/ Tag \/ TimePasses
    <3>1. UNCHANGED log /\ \A c \in Backend : reply'[c] = reply[c]
      BY <2>2 DEF vars, storage, local, Tag, TimePasses
    <3> QED
      BY <2>1, <3>1, CoverQuiet
  <2>3. ASSUME NEW b \in Backend, Step(b) PROVE CoverInv'
    BY <2>3, CoverKept
  <2>4. ASSUME NEW b \in Backend, NEW r \in Requests, Start(b, r) PROVE CoverInv'
    <3>1. \A c \in Backend : reply'[c] = reply[c] \/ reply'[c] = NoReply
      BY <2>4 DEF Start, IInv, Shape
    <3> QED
      BY <2>4, <3>1, CoverQuiet DEF Start, storage, NoReply
  <2>5. ASSUME NEW b \in Backend, NEW r \in Requests, Refuse(b, r) PROVE CoverInv'
    <3>1. \A c \in Backend : reply'[c] = reply[c] \/ reply'[c] = Error
      BY <2>5, Returned DEF Refuse, IInv
    <3> QED
      BY <2>5, <3>1, CoverQuiet DEF Refuse, storage, Error
  <2> QED
    BY <2>1, <2>2, <2>3, <2>4, <2>5 DEF Next
<1>3. CoverInv => IndexesCatchUp
  BY DEF CoverInv, Covers, CatchesUp, IndexesCatchUp, Frags
<1> QED
  BY <1>1, <1>2, <1>3, MaintenanceInvariant, PTL DEF Spec
=============================================================================
