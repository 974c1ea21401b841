------------------------ MODULE BackupRestoreProofs -------------------------
(***************************************************************************)
(* Proofs about Organizations and BackupRestore for any finite number of   *)
(* organizations and any number of users, moves, exports and restores.     *)
(***************************************************************************)
EXTENDS BackupRestore, FiniteSetTheorems, TLAPS

-----------------------------------------------------------------------------
(* Descendants *)

\* A child of an organization or of its descendants is one of its descendants.
LEMMA ChildrenAreDescendants ==
  ASSUME NEW t, NEW o, NEW x \in DOMAIN t, t[x] \in Descendants(t, o) \cup {o}
  PROVE  x \in Descendants(t, o)
  BY DEF Descendants, HoldsChildren

\* Descendants are in every set that holds all children of itself and of the
\* root.
LEMMA DescendantsAreLeast ==
  ASSUME NEW t, NEW o, NEW S \in SUBSET DOMAIN t, HoldsChildren(t, S, o)
  PROVE  Descendants(t, o) \subseteq S
  BY DEF Descendants

\* Descendants are rows of the table.
LEMMA DescendantsAreRows ==
  ASSUME NEW t, NEW o
  PROVE  Descendants(t, o) \in SUBSET DOMAIN t
  BY DEF Descendants

\* The parent of a descendant is a descendant or the root itself.
LEMMA ParentsOfDescendants ==
  ASSUME NEW t, NEW o, NEW x \in Descendants(t, o)
  PROVE  t[x] \in Descendants(t, o) \cup {o}
  <1> DEFINE S == {y \in Descendants(t, o) : t[y] \in Descendants(t, o) \cup {o}}
  <1>1. S \in SUBSET DOMAIN t
    BY DescendantsAreRows
  <1>2. HoldsChildren(t, S, o)
    BY ChildrenAreDescendants DEF HoldsChildren
  <1>3. Descendants(t, o) \subseteq S
    BY <1>1, <1>2, DescendantsAreLeast
  <1>4. QED
    BY <1>3

\* What descends from a descendant descends from the root.
LEMMA DescendantsOfDescendants ==
  ASSUME NEW t, NEW o, NEW x \in Descendants(t, o)
  PROVE  Descendants(t, x) \subseteq Descendants(t, o)
  <1>1. HoldsChildren(t, Descendants(t, o), x)
    BY ChildrenAreDescendants DEF HoldsChildren
  <1>2. QED
    BY <1>1, DescendantsAreLeast, DescendantsAreRows

-----------------------------------------------------------------------------
(* Forests *)

\* Set S leads out of itself: a row of it has its parent elsewhere, or none.
LeadsOut(t, S) == \E o \in S : t[o] \notin S

\* Every set of rows of a finite forest leads out of itself: a least set that
\* does not is a cycle.
LEMMA ForestsLeadOut ==
  ASSUME NEW t, IsFiniteSet(DOMAIN t), Forest(t),
         NEW S \in SUBSET DOMAIN t, S # {}
  PROVE  LeadsOut(t, S)
  <1> DEFINE D == DOMAIN t
             Closed == {T \in SUBSET D : T # {} /\ ~LeadsOut(t, T)}
  <1>1. SUFFICES ASSUME S \in Closed
                 PROVE  FALSE
    OBVIOUS
  <1>2. PICK T \in Closed : \A U \in Closed : <<U, T>> \notin StrictSubsetOrdering(D)
    <2>1. IsWellFoundedOn(StrictSubsetOrdering(D), FiniteSubsetsOf(D))
      BY FS_StrictSubsetOrderingWellFounded
    <2>2. IsWellFoundedOn(StrictSubsetOrdering(D), SUBSET D)
      BY <2>1, FS_FiniteSubsetsOfFinite
    <2>3. Closed \subseteq SUBSET D
      OBVIOUS
    <2>4. Closed # {}
      BY <1>1
    <2> HIDE DEF Closed
    <2>5. QED
      BY <2>2, <2>3, <2>4, WFMin
  <1>3. PICK x \in T : TRUE
    OBVIOUS
  <1> DEFINE A == {y \in T : x \in Descendants(t, y)}
  <1>4. t[x] \in A
    BY <1>3, ChildrenAreDescendants DEF LeadsOut
  <1>5. \A y \in A : t[y] \in A
    <2>1. SUFFICES ASSUME NEW y \in A
                   PROVE  t[y] \in A
      OBVIOUS
    <2>2. t[y] \in T /\ y \in DOMAIN t
      BY DEF LeadsOut
    <2>3. y \in Descendants(t, t[y])
      BY <2>2, ChildrenAreDescendants
    <2>4. x \in Descendants(t, t[y])
      BY <2>3, DescendantsOfDescendants
    <2>5. QED
      BY <2>2, <2>4
  <1>6. A \in Closed
    BY <1>4, <1>5 DEF LeadsOut
  <1>7. A = T
    BY <1>2, <1>6 DEF StrictSubsetOrdering
  <1>8. x \in D /\ x \in Descendants(t, x)
    BY <1>3, <1>7
  <1>9. QED
    BY <1>8 DEF Forest, OnCycle

\* Conversely, no row descends from itself when every set of rows leads out of
\* itself.
LEMMA LeadingOutMakesForests ==
  ASSUME NEW t, \A S \in SUBSET DOMAIN t : S # {} => LeadsOut(t, S)
  PROVE  Forest(t)
  <1>1. SUFFICES ASSUME NEW x \in DOMAIN t, x \in Descendants(t, x)
                 PROVE  FALSE
    BY DEF Forest, OnCycle
  <1> DEFINE S == {y \in Descendants(t, x) : x \in Descendants(t, y)}
  <1>2. S \in SUBSET DOMAIN t /\ S # {}
    BY <1>1, DescendantsAreRows
  <1>3. PICK y \in S : t[y] \notin S
    BY <1>2 DEF LeadsOut
  <1>4. t[y] \in Descendants(t, x)
    BY <1>1, ParentsOfDescendants
  <1>5. y \in Descendants(t, t[y])
    BY <1>2, <1>3, ChildrenAreDescendants
  <1>6. x \in Descendants(t, t[y])
    BY <1>5, DescendantsOfDescendants
  <1>7. QED
    BY <1>3, <1>4, <1>6

\* A new row without children does not tie a cycle.
LEMMA LeavesKeepForests ==
  ASSUME NEW t, NEW t2, NEW o, NEW parent, o \notin DOMAIN t, o # parent,
         IsFiniteSet(DOMAIN t), Forest(t), \A x \in DOMAIN t : t[x] # o,
         t2 = [x \in DOMAIN t \cup {o} |-> IF x = o THEN parent ELSE t[x]]
  PROVE  Forest(t2)
  <1>1. SUFFICES ASSUME NEW S \in SUBSET DOMAIN t2, S # {}
                 PROVE  LeadsOut(t2, S)
    BY LeadingOutMakesForests
  <1> DEFINE T == S \ {o}
  <1>2. CASE T = {}
    BY <1>1, <1>2 DEF LeadsOut
  <1>3. CASE T # {}
    <2>1. T \in SUBSET DOMAIN t
      OBVIOUS
    <2>2. PICK x \in T : t[x] \notin T
      BY <1>3, <2>1, ForestsLeadOut DEF LeadsOut
    <2>3. t2[x] \notin S
      BY <2>1, <2>2
    <2>4. QED
      BY <2>3 DEF LeadsOut
  <1>4. QED
    BY <1>2, <1>3

\* A row that gets a new parent outside of its own tree does not tie one.
LEMMA MovesKeepForests ==
  ASSUME NEW t, NEW t2, NEW o \in DOMAIN t, NEW parent,
         o # parent, parent \notin Descendants(t, o),
         IsFiniteSet(DOMAIN t), Forest(t), t2 = [t EXCEPT ![o] = parent]
  PROVE  Forest(t2)
  <1>1. SUFFICES ASSUME NEW S \in SUBSET DOMAIN t2, S # {}, ~LeadsOut(t2, S)
                 PROVE  FALSE
    BY LeadingOutMakesForests
  <1> DEFINE T == S \ ({o} \cup Descendants(t, o))
  <1>2. DOMAIN t2 = DOMAIN t /\ t2[o] = parent
    OBVIOUS
  <1>3. \A y \in S : t2[y] \in S
    BY <1>1 DEF LeadsOut
  <1>4. \A y \in S : y # o => t2[y] = t[y]
    BY <1>2
  <1>5. T # {}
    <2>1. CASE o \in S
      BY <1>2, <1>3, <2>1
    <2>2. CASE o \notin S
      <3>1. PICK y \in S : t[y] \notin S
        BY <1>1, <1>2, ForestsLeadOut DEF LeadsOut
      <3>2. QED
        BY <1>3, <1>4, <2>2, <3>1
    <2>3. QED
      BY <2>1, <2>2
  <1>6. PICK y \in T : t[y] \notin T
    BY <1>2, <1>5, ForestsLeadOut DEF LeadsOut
  <1>7. t[y] \in S
    BY <1>3, <1>4, <1>6
  <1>8. t[y] \in Descendants(t, o) \cup {o}
    BY <1>6, <1>7
  <1>9. y \in Descendants(t, o)
    BY <1>2, <1>6, <1>8, ChildrenAreDescendants
  <1>10. QED
    BY <1>6, <1>9

-----------------------------------------------------------------------------
(* What an export reads, and what a restore can insert *)

\* The foreign keys of the two tables.
RefersWithin(t, us) ==
    /\ \A o \in DOMAIN t : Refers(t, t[o])
    /\ \A u \in DOMAIN us : Refers(t, us[u])

\* The recursive query of an export finds every organization of a forest.
LEMMA ForestsAreRooted ==
  ASSUME NEW t, IsFiniteSet(DOMAIN t), Forest(t), \A o \in DOMAIN t : Refers(t, t[o])
  PROVE  Rooted(t) = DOMAIN t
  <1> DEFINE S == DOMAIN t \ Rooted(t)
  <1>1. CASE S # {}
    <2>1. PICK o \in S : t[o] \notin S
      BY <1>1, ForestsLeadOut DEF LeadsOut
    <2>2. t[o] \in Rooted(t) \cup {None}
      BY <2>1 DEF Refers
    <2>3. o \in Rooted(t)
      BY <2>2, ChildrenAreDescendants DEF Rooted
    <2>4. QED
      BY <2>3
  <1>2. CASE S = {}
    BY <1>2, DescendantsAreRows DEF Rooted
  <1>3. QED
    BY <1>1, <1>2

\* Depths are natural numbers.
LEMMA DepthType ==
  ASSUME NEW t, IsFiniteSet(DOMAIN t), NEW o
  PROVE  Depth(t, o) \in Nat
  BY FS_Subset, FS_CardinalityType DEF Depth

\* In a forest a child is deeper than its parent.
LEMMA ChildrenAreDeeper ==
  ASSUME NEW t, IsFiniteSet(DOMAIN t), Forest(t), NEW o \in DOMAIN t, t[o] \in DOMAIN t
  PROVE  Depth(t, t[o]) < Depth(t, o)
  <1> DEFINE Above(x) == {y \in DOMAIN t : x \in Descendants(t, y)}
             p == t[o]
  <1>1. IsFiniteSet(Above(p)) /\ IsFiniteSet(Above(o))
    BY FS_Subset
  <1>2. p \notin Above(p)
    BY DEF Forest, OnCycle
  <1>3. o \in Descendants(t, p)
    BY ChildrenAreDescendants
  <1>4. Above(p) \cup {p} \subseteq Above(o)
    <2>1. ASSUME NEW y \in Above(p)
          PROVE  o \in Descendants(t, y)
      BY <2>1, ChildrenAreDescendants
    <2>2. QED
      BY <1>3, <2>1
  <1>5. Cardinality(Above(p) \cup {p}) = Cardinality(Above(p)) + 1
    BY <1>1, <1>2, FS_AddElement
  <1>6. Cardinality(Above(p) \cup {p}) <= Cardinality(Above(o))
    BY <1>1, <1>4, FS_Subset
  <1>7. Cardinality(Above(p)) \in Nat /\ Cardinality(Above(o)) \in Nat
    BY <1>1, FS_CardinalityType
  <1>8. Depth(t, p) = Cardinality(Above(p)) /\ Depth(t, o) = Cardinality(Above(o))
    BY DEF Depth
  <1> HIDE DEF Above, p
  <1>9. Depth(t, p) < Depth(t, o)
    BY <1>5, <1>6, <1>7, <1>8
  <1>10. QED
    BY <1>9 DEF p

\* The line of a row in an archive is a number.
LEMMA LineType ==
  ASSUME NEW t, DOMAIN t \subseteq Org, NEW o \in DOMAIN t
  PROVE  Line(t, o) \in Nat
  <1>1. IsFiniteSet(DOMAIN t) /\ Cardinality(Org) \in Nat
    BY OrgAssumption, FS_Subset, FS_CardinalityType
  <1>2. CodeRank[o] \in Nat
    BY <1>1, BackupAssumption
  <1>3. Depth(t, o) \in Nat
    BY <1>1, DepthType
  <1>4. QED
    BY <1>1, <1>2, <1>3 DEF Line

\* ORDER BY depth, code puts parents before their children, whatever the codes.
LEMMA ParentsComeFirst ==
  ASSUME NEW t, DOMAIN t \subseteq Org, Forest(t), NEW o \in DOMAIN t, t[o] \in DOMAIN t
  PROVE  Line(t, t[o]) < Line(t, o)
  <1> DEFINE n == Cardinality(Org)
             d == Depth(t, t[o])
             e == Depth(t, o)
  <1>1. IsFiniteSet(DOMAIN t) /\ n \in Nat
    BY OrgAssumption, FS_Subset, FS_CardinalityType
  <1>2. d \in Nat /\ e \in Nat /\ d < e
    BY <1>1, DepthType, ChildrenAreDeeper
  <1>3. CodeRank[t[o]] \in 1 .. n /\ CodeRank[o] \in 1 .. n
    BY BackupAssumption
  <1>4. Line(t, t[o]) = d * (n + 1) + CodeRank[t[o]] /\ Line(t, o) = e * (n + 1) + CodeRank[o]
    BY DEF Line
  <1> HIDE DEF n, d, e
  <1>5. e * (n + 1) >= (d + 1) * (n + 1)
    BY <1>1, <1>2
  <1>6. (d + 1) * (n + 1) = d * (n + 1) + n + 1
    BY <1>1, <1>2
  <1>7. d * (n + 1) \in Nat /\ e * (n + 1) \in Nat
    BY <1>1, <1>2
  <1>8. QED
    BY <1>1, <1>3, <1>4, <1>5, <1>6, <1>7

\* A table that can be inserted line by line is a forest.
LEMMA InsertedTablesAreForests ==
  ASSUME NEW file, Insertable(file), DOMAIN file.parent \subseteq Org,
         file.line \in [DOMAIN file.parent -> Nat]
  PROVE  Forest(file.parent)
  <1> DEFINE t == file.parent
             line == file.line
  <1>1. SUFFICES ASSUME NEW S \in SUBSET DOMAIN t, S # {}, ~LeadsOut(t, S)
                 PROVE  FALSE
    BY LeadingOutMakesForests
  <1> DEFINE Lines == {line[o] : o \in S}
  <1>2. Lines \subseteq Nat /\ Lines # {}
    BY <1>1
  <1>3. PICK n \in Lines : \A k \in Lines : <<k, n>> \notin OpToRel(<, Nat)
    <2> HIDE DEF Lines
    <2>1. QED
      BY <1>2, NatLessThanWellFounded, WFMin
  <1>4. PICK o \in S : line[o] = n
    OBVIOUS
  <1>5. t[o] \in S
    BY <1>1 DEF LeadsOut
  <1>6. t[o] # None => line[t[o]] < line[o]
    BY <1>1 DEF Insertable
  <1>7. t[o] # None
    BY <1>5, <1>1, OrgAssumption
  <1>8. QED
    BY <1>2, <1>3, <1>4, <1>5, <1>6, <1>7 DEF OpToRel

-----------------------------------------------------------------------------
(* The inductive invariant *)

IsArchive(file) ==
    /\ IsFile(file)
    /\ file \in [parent : {file.parent}, line : {file.line}, users : {file.users},
                 complete : {file.complete}, undisturbed : {file.undisturbed}]

IsJob(j) ==
    /\ j.phase \in JobPhases
    /\ IsTable(j.snapshot.organizations, Org)
    /\ IsTable(j.snapshot.users, User)
    /\ j.truncated \in BOOLEAN
    /\ IsArchive(j.file)
    /\ j \in [phase : {j.phase}, snapshot : {j.snapshot}, truncated : {j.truncated},
              file : {j.file}]

\* TypeOK, and the fields that the records have.
Types ==
    /\ OrgTypeOK
    /\ \A file \in files : IsArchive(file)
    /\ \A b \in Backup : IsJob(job[b])
    /\ job = [b \in Backup |-> job[b]]

\* The database and the snapshots obey the foreign keys.
ForeignKeysHold ==
    /\ RefersWithin(organizations, users)
    /\ \A b \in Backup : RefersWithin(job[b].snapshot.organizations, job[b].snapshot.users)

\* What updateOrganization has checked still holds when it writes, if the tree
\* has not changed since.
IsChecked(m) ==
    /\ m.phase # "idle" => m.org # m.parent
    /\ (m.phase = "write" /\ ~m.stale /\ m.parent # None) =>
           m.parent \notin Descendants(organizations, m.org)

ChecksHold == \A r \in Mover : IsChecked(move[r])

\* The first entry of the archive is the first table of the snapshot, unless a
\* restore was committed before it was read.
IsRead(j) ==
    (j.phase = "export_users" /\ ~j.truncated) =>
        LET t == j.snapshot.organizations IN
        /\ j.file.parent = [o \in Rooted(t) |-> t[o]]
        /\ j.file.line = [o \in Rooted(t) |-> Line(t, o)]

ExportsAreRead == \A b \in Backup : IsRead(job[b])

IInv ==
    /\ Types
    /\ ForeignKeysHold
    /\ ChecksHold
    /\ CyclesNeedRaces
    /\ ExportsAreRead
    /\ UndisturbedArchivesAreComplete
    /\ UndisturbedArchivesRestore

\* Tables have finitely many rows.
LEMMA TablesAreFinite ==
  ASSUME NEW t, IsTable(t, Org)
  PROVE  IsFiniteSet(DOMAIN t)
  BY OrgAssumption, FS_Subset DEF IsTable

\* The empty tables and no jobs satisfy the invariant.
LEMMA Initially == Init => IInv
  <1> SUFFICES ASSUME Init
               PROVE  IInv
    OBVIOUS
  <1> USE DEF Init, OrgInit
  <1>1. Types
    BY DEF Types, OrgTypeOK, IsTable, Move, Idle, NoJob, NoFile, NoTable, IsJob, IsArchive,
        IsFile, JobPhases
  <1>2. ForeignKeysHold
    BY DEF ForeignKeysHold, RefersWithin, Refers, NoJob, NoTable
  <1>3. ChecksHold
    BY DEF ChecksHold, IsChecked, Idle
  <1>4. Forest(organizations)
    BY DEF Forest
  <1>5. ExportsAreRead
    BY DEF ExportsAreRead, IsRead, NoJob
  <1>6. UndisturbedArchivesAreComplete /\ UndisturbedArchivesRestore
    BY DEF UndisturbedArchivesAreComplete, UndisturbedArchivesRestore
  <1>7. QED
    BY <1>1, <1>2, <1>3, <1>4, <1>5, <1>6 DEF IInv, CyclesNeedRaces

-----------------------------------------------------------------------------
(* Organizations *)

\* What a statement on the tables and a request to move may change.
OrgIInv == OrgTypeOK /\ RefersWithin(organizations, users) /\ ChecksHold /\ CyclesNeedRaces

\* A new organization is below an existing one or none, and nothing is below it
\* yet.
LEMMA CreateOrganizationKeeps ==
  ASSUME OrgIInv, NEW o \in Org, NEW parent \in Org \cup {None},
         CreateOrganization(o, parent)
  PROVE  OrgIInv'
  <1> DEFINE t == organizations
             t2 == organizations'
  <1>1. /\ o \notin DOMAIN t /\ Refers(t, parent) /\ o # None
        /\ t2 = [x \in DOMAIN t \cup {o} |-> IF x = o THEN parent ELSE t[x]]
        /\ UNCHANGED <<users, move, raced>>
        /\ \A r \in Mover : o \notin {move[r].org, move[r].parent}
    BY OrgAssumption DEF CreateOrganization, FreshOrg
  <1>2. IsFiniteSet(DOMAIN t)
    BY TablesAreFinite DEF OrgIInv, OrgTypeOK
  <1>3. \A x \in DOMAIN t : t[x] \in DOMAIN t \cup {None}
    BY DEF OrgIInv, RefersWithin, Refers
  <1>4. OrgTypeOK'
    BY <1>1 DEF OrgIInv, OrgTypeOK, IsTable
  <1>5. RefersWithin(t2, users')
    BY <1>1 DEF OrgIInv, RefersWithin, Refers
  <1>6. ASSUME NEW r \in Mover
        PROVE  IsChecked(move[r])'
    <2> DEFINE m == move[r]
    <2>1. move'[r] = m /\ IsChecked(m) /\ o # m.org /\ o # m.parent
      BY <1>1 DEF OrgIInv, ChecksHold
    <2>2. Descendants(t2, m.org) \subseteq Descendants(t, m.org) \cup {o}
      <3> DEFINE S == Descendants(t, m.org) \cup {o}
      <3>1. S \in SUBSET DOMAIN t2
        BY <1>1, DescendantsAreRows
      <3>2. HoldsChildren(t2, S, m.org)
        BY <1>1, <1>3, <2>1, ChildrenAreDescendants DEF HoldsChildren
      <3> HIDE DEF S, t2, m
      <3>3. QED
        BY <3>1, <3>2, DescendantsAreLeast DEF S
    <2>3. QED
      BY <2>1, <2>2 DEF IsChecked
  <1>7. CyclesNeedRaces'
    <2>1. o # parent
      BY <1>1 DEF Refers
    <2>2. \A x \in DOMAIN t : t[x] # o
      BY <1>1, <1>3
    <2> HIDE DEF t, t2
    <2>3. Forest(t) => Forest(t2)
      BY <1>1, <1>2, <2>1, <2>2, LeavesKeepForests
    <2>4. QED
      BY <1>1, <2>3 DEF OrgIInv, CyclesNeedRaces, t, t2
  <1>8. QED
    BY <1>4, <1>5, <1>6, <1>7 DEF OrgIInv, ChecksHold

\* A user is assigned to an organization that exists.
LEMMA AssignKeeps ==
  ASSUME OrgIInv, NEW u \in User, NEW o \in Org \cup {None}, Assign(u, o)
  PROVE  OrgIInv'
  <1>1. OrgTypeOK' /\ RefersWithin(organizations, users)'
    BY DEF OrgIInv, Assign, OrgTypeOK, IsTable, RefersWithin, Refers
  <1>2. ChecksHold'
    BY DEF OrgIInv, Assign, ChecksHold, IsChecked
  <1>3. CyclesNeedRaces'
    BY DEF OrgIInv, Assign, CyclesNeedRaces
  <1>4. QED
    BY <1>1, <1>2, <1>3 DEF OrgIInv

\* A move that is written unraced hangs an organization where it does not
\* descend from itself.
LEMMA MoveWrittenKeeps ==
  ASSUME OrgIInv, NEW r \in Mover, MoveWritten(r)
  PROVE  OrgIInv'
  <1> DEFINE t == organizations
             m == move[r]
             t2 == [t EXCEPT ![m.org] = m.parent]
  <1>1. m \in Move /\ m.phase = "write" /\ m.org \in DOMAIN t /\ Refers(t, m.parent)
    BY DEF MoveWritten, Movable, OrgIInv, OrgTypeOK
  <1>2. /\ organizations' = t2 /\ raced' = (raced \/ m.stale) /\ users' = users
        /\ move' = [q \in Mover |->
                       IF q = r THEN Idle
                       ELSE [move[q] EXCEPT !.stale = @ \/ move[q].phase = "write"]]
    BY DEF MoveWritten
  <1>3. IsFiniteSet(DOMAIN t)
    BY TablesAreFinite DEF OrgIInv, OrgTypeOK
  <1>4. OrgTypeOK'
    <2>1. IsTable(t2, Org)
      BY <1>1, OrgAssumption DEF OrgIInv, OrgTypeOK, IsTable, Move
    <2>2. move' \in [Mover -> Move]
      BY <1>2 DEF OrgIInv, OrgTypeOK, Move, Idle
    <2>3. raced' \in BOOLEAN
      BY <1>1, <1>2 DEF OrgIInv, OrgTypeOK, Move
    <2>4. QED
      BY <1>2, <2>1, <2>2, <2>3 DEF OrgIInv, OrgTypeOK
  <1>5. RefersWithin(t2, users)
    BY <1>1 DEF OrgIInv, RefersWithin, Refers
  <1>6. ASSUME NEW q \in Mover
        PROVE  IsChecked(move[q])'
    <2>1. move[q] \in Move
      BY DEF OrgIInv, OrgTypeOK
    <2>2. QED
      BY <1>2, <2>1 DEF IsChecked, OrgIInv, ChecksHold, Move, Idle
  <1>7. CyclesNeedRaces'
    <2>1. SUFFICES ASSUME ~raced, ~m.stale
                   PROVE  Forest(t2)
      BY <1>1, <1>2 DEF CyclesNeedRaces, OrgIInv, OrgTypeOK, Move
    <2>2. Forest(t)
      BY <2>1 DEF OrgIInv, CyclesNeedRaces
    <2>3. m.org # m.parent
      BY <1>1 DEF OrgIInv, ChecksHold, IsChecked
    <2>4. m.parent \notin Descendants(t, m.org)
      <3>1. CASE m.parent = None
        BY <3>1, OrgAssumption, DescendantsAreRows DEF OrgIInv, OrgTypeOK, IsTable
      <3>2. CASE m.parent # None
        BY <1>1, <2>1, <3>2 DEF OrgIInv, ChecksHold, IsChecked
      <3>3. QED
        BY <3>1, <3>2
    <2>5. QED
      BY <1>1, <1>3, <2>2, <2>3, <2>4, MovesKeepForests
  <1>8. QED
    BY <1>2, <1>4, <1>5, <1>6, <1>7 DEF OrgIInv, ChecksHold

\* The steps of a move before and beside its update.
LEMMA MoveKeeps ==
  ASSUME OrgIInv, NEW r \in Mover,
         \/ \E o \in Org, parent \in Org \cup {None} : StartMove(r, o, parent)
         \/ MoveRefused(r) \/ MoveChecked(r) \/ MoveFailed(r) \/ CancelMove(r)
  PROVE  OrgIInv'
  <1>1. UNCHANGED <<organizations, users, raced>>
    BY DEF StartMove, MoveRefused, MoveChecked, MoveFailed, CancelMove
  <1>2. move' \in [Mover -> Move]
    <2>1. move \in [Mover -> Move] /\ Idle \in Move
      BY DEF OrgIInv, OrgTypeOK, Idle, Move
    <2>2. ASSUME NEW o \in Org, NEW parent \in Org \cup {None}, StartMove(r, o, parent)
          PROVE  move' \in [Mover -> Move]
      BY <2>1, <2>2 DEF StartMove, Move
    <2>3. CASE MoveChecked(r)
      BY <2>1, <2>3 DEF MoveChecked, Move
    <2>4. CASE FinishMove(r)
      BY <2>1, <2>4 DEF FinishMove
    <2>5. QED
      BY <2>2, <2>3, <2>4 DEF MoveRefused, MoveFailed, CancelMove
  <1>3. ASSUME NEW q \in Mover
        PROVE  IsChecked(move[q])'
    <2>1. IsChecked(move[q]) /\ move[q] \in Move
      BY DEF OrgIInv, OrgTypeOK, ChecksHold
    <2>2. IsChecked(Idle)
      BY DEF IsChecked, Idle
    <2>3. CASE move'[q] \in {move[q], Idle}
      BY <1>1, <2>1, <2>2, <2>3 DEF IsChecked
    <2>4. CASE q = r /\ MoveChecked(r)
      BY <1>1, <2>1, <2>4
      DEF IsChecked, MoveChecked, CreatesCycle, OrgIInv, OrgTypeOK, Move
    <2>5. CASE q = r /\ \E o \in Org, parent \in Org \cup {None} : StartMove(r, o, parent)
      BY <1>1, <2>1, <2>5 DEF IsChecked, StartMove, OrgIInv, OrgTypeOK
    <2>6. QED
      BY <2>3, <2>4, <2>5
      DEF OrgIInv, OrgTypeOK, StartMove, MoveRefused, MoveChecked, MoveFailed, CancelMove,
          FinishMove
  <1>4. QED
    BY <1>1, <1>2, <1>3
    DEF OrgIInv, OrgTypeOK, ChecksHold, CyclesNeedRaces

\* A step that changes the tree only keeps what is said of jobs and archives.
LEMMA OrganizationsKeep ==
  ASSUME IInv, OrgIInv', UNCHANGED <<files, job>>
  PROVE  IInv'
  BY DEF IInv, OrgIInv, Types, ForeignKeysHold, ExportsAreRead,
      UndisturbedArchivesAreComplete, UndisturbedArchivesRestore

\* The invariant contains that of the tree.
LEMMA OrganizationsHold == IInv => OrgIInv
  BY DEF IInv, OrgIInv, Types, ForeignKeysHold

-----------------------------------------------------------------------------
(* Exports and restores *)

\* A job as it has to be.
IsSoundJob(j) ==
    /\ IsJob(j)
    /\ RefersWithin(j.snapshot.organizations, j.snapshot.users)
    /\ IsRead(j)

\* An archive as it has to be.
IsSoundArchive(file) ==
    /\ IsArchive(file)
    /\ file.undisturbed => file.complete /\ Insertable(file)

\* The invariant as a statement of each job and each archive.
LEMMA JobsAreSound ==
  ASSUME IInv
  PROVE  /\ \A b \in Backup : IsSoundJob(job[b])
         /\ \A file \in files : IsSoundArchive(file)
         /\ job = [b \in Backup |-> job[b]]
  BY DEF IInv, Types, ForeignKeysHold, ExportsAreRead, UndisturbedArchivesAreComplete,
      UndisturbedArchivesRestore, IsSoundJob, IsSoundArchive

\* So it is kept by a step that keeps each job and each archive sound.
LEMMA SoundJobsKeep ==
  ASSUME IInv, OrgIInv', job' = [b \in Backup |-> job'[b]],
         \A b \in Backup : IsSoundJob(job'[b]),
         \A file \in files' : IsSoundArchive(file)
  PROVE  IInv'
  BY DEF IInv, OrgIInv, Types, ForeignKeysHold, ExportsAreRead,
      UndisturbedArchivesAreComplete, UndisturbedArchivesRestore, IsSoundJob,
      IsSoundArchive

\* The steps of one job that leave the organizations and the archives alone.
LEMMA JobKeeps ==
  ASSUME IInv, UNCHANGED <<orgVars, files>>, NEW b \in Backup, NEW j, IsSoundJob(j),
         job' = [job EXCEPT ![b] = j]
  PROVE  IInv'
  <1>1. OrgIInv'
    BY OrganizationsHold
    DEF orgVars, OrgIInv, OrgTypeOK, ChecksHold, IsChecked, CyclesNeedRaces
  <1>2. job' = [c \in Backup |-> IF c = b THEN j ELSE job[c]]
    BY JobsAreSound
  <1>3. \A c \in Backup : IsSoundJob(job'[c])
    BY <1>2, JobsAreSound
  <1>4. QED
    BY <1>1, <1>2, <1>3, JobsAreSound, SoundJobsKeep

\* Updates of the records.
LEMMA UpdatedFirstTable ==
  ASSUME NEW f, IsArchive(f), NEW parent, NEW line
  PROVE  [f EXCEPT !.parent = parent, !.line = line] \in
         [parent : {parent}, line : {line}, users : {f.users},
          complete : {f.complete}, undisturbed : {f.undisturbed}]
  BY DEF IsArchive

\* An archive that its last table is added to, as a record.
LEMMA UpdatedLastTable ==
  ASSUME NEW f, IsArchive(f), NEW us, NEW complete, NEW undisturbed
  PROVE  [f EXCEPT !.users = us, !.complete = complete, !.undisturbed = undisturbed] \in
         [parent : {f.parent}, line : {f.line}, users : {us},
          complete : {complete}, undisturbed : {undisturbed}]
  BY DEF IsArchive

\* A job with another phase and another archive, as a record.
LEMMA UpdatedJob ==
  ASSUME NEW i, IsJob(i), NEW phase, NEW file
  PROVE  [i EXCEPT !.phase = phase, !.file = file] \in
         [phase : {phase}, snapshot : {i.snapshot}, truncated : {i.truncated},
          file : {file}]
  BY DEF IsJob

\* A job that does nothing is sound.
LEMMA NoJobIsSound == IsSoundJob(NoJob)
  BY DEF IsSoundJob, IsJob, IsArchive, IsFile, IsTable, NoJob, NoFile, NoTable, JobPhases,
      RefersWithin, IsRead

\* A job may end at any point.
LEMMA FinishJobKeeps ==
  ASSUME IInv, NEW b \in Backup, FinishJob(b), UNCHANGED <<orgVars, files>>
  PROVE  IInv'
  BY JobKeeps, NoJobIsSound DEF FinishJob

\* An export begins with the snapshot of its first query.
LEMMA StartExportKeeps ==
  ASSUME IInv, NEW b \in Backup, StartExport(b)
  PROVE  IInv'
  <1> DEFINE s == [organizations |-> organizations, users |-> users]
             j == [NoJob EXCEPT !.phase = "export_organizations", !.snapshot = s]
  <1>1. IsTable(organizations, Org) /\ IsTable(users, User) /\ RefersWithin(organizations, users)
    BY OrganizationsHold DEF OrgIInv, OrgTypeOK
  <1>2. j \in [phase : {"export_organizations"}, snapshot : {s}, truncated : {FALSE},
               file : {NoFile}]
    BY DEF NoJob
  <1>3. IsArchive(NoFile)
    BY NoJobIsSound DEF IsSoundJob, IsJob, NoJob
  <1>4. s.organizations = organizations /\ s.users = users
    OBVIOUS
  <1> HIDE DEF j, s
  <1>5. IsJob(j)
    BY <1>1, <1>2, <1>3, <1>4 DEF IsJob, JobPhases
  <1>6. IsSoundJob(j)
    BY <1>1, <1>2, <1>4, <1>5 DEF IsSoundJob, IsRead
  <1>7. QED
    BY <1>6, JobKeeps DEF StartExport, j, s

\* The first table of an archive is the part of the snapshot that the roots lead
\* to, in the order of its lines.
LEMMA ExportOrganizationsKeeps ==
  ASSUME IInv, NEW b \in Backup, ExportOrganizations(b)
  PROVE  IInv'
  <1> DEFINE i == job[b]
             t == Visible(b, i.snapshot.organizations)
             parent == [o \in Rooted(t) |-> t[o]]
             line == [o \in Rooted(t) |-> Line(t, o)]
             file == [i.file EXCEPT !.parent = parent, !.line = line]
             j == [i EXCEPT !.phase = "export_users", !.file = file]
  <1>1. IsSoundJob(i) /\ IsTable(t, Org)
    BY JobsAreSound DEF IsSoundJob, IsJob, Visible, IsTable, NoTable
  <1>2. Rooted(t) \subseteq DOMAIN t
    BY DescendantsAreRows DEF Rooted
  <1>3. job' = [job EXCEPT ![b] = j] /\ UNCHANGED <<orgVars, files>>
    BY DEF ExportOrganizations
  <1>4. IsArchive(i.file)
    BY <1>1 DEF IsSoundJob, IsJob
  <1>5. file \in [parent : {parent}, line : {line}, users : {i.file.users},
                  complete : {i.file.complete}, undisturbed : {i.file.undisturbed}]
    BY <1>4, UpdatedFirstTable
  <1>6. IsTable(parent, Org)
    BY <1>1, <1>2 DEF IsTable
  <1>7. line \in [DOMAIN parent -> Nat]
    BY <1>1, <1>2, LineType DEF IsTable
  <1> HIDE DEF file, parent, line
  <1>8. IsArchive(file)
    BY <1>4, <1>5, <1>6, <1>7 DEF IsArchive, IsFile
  <1>9. j \in [phase : {"export_users"}, snapshot : {i.snapshot},
               truncated : {i.truncated}, file : {file}]
    BY <1>1, UpdatedJob DEF IsSoundJob
  <1>10. ~i.truncated => t = i.snapshot.organizations
    BY DEF Visible
  <1> HIDE DEF j, i
  <1>11. IsJob(j) /\ RefersWithin(j.snapshot.organizations, j.snapshot.users)
    BY <1>1, <1>8, <1>9 DEF IsSoundJob, IsJob, JobPhases
  <1>12. IsRead(j)
    <2>1. SUFFICES ASSUME ~j.truncated
                   PROVE  j.file.parent = parent /\ j.file.line = line
      BY <1>9, <1>10 DEF IsRead, parent, line
    <2>2. QED
      BY <1>5, <1>9
  <1>13. QED
    BY <1>3, <1>11, <1>12, JobKeeps DEF IsSoundJob

\* What an undisturbed export signs.
LEMMA SignedArchives ==
  ASSUME IInv, NEW b \in Backup, job[b].phase = "export_users",
         NEW rows, rows = Visible(b, job[b].snapshot.users)
  PROVE  IsSoundArchive(Signed(b, rows))
  <1> DEFINE i == job[b]
             t == i.snapshot.organizations
             whole == i.file.parent = t /\ rows = i.snapshot.users
             clean == Forest(t) /\ ~i.truncated
             f == Signed(b, rows)
  <1>1. IsSoundJob(i) /\ i.phase = "export_users"
    BY JobsAreSound
  <1>2. IsTable(rows, User) /\ IsTable(t, Org) /\ IsFiniteSet(DOMAIN t)
    BY <1>1, TablesAreFinite DEF IsSoundJob, IsJob, Visible, IsTable, NoTable
  <1>3. f \in [parent : {i.file.parent}, line : {i.file.line}, users : {rows},
               complete : {whole}, undisturbed : {clean}]
    <2>1. IsArchive(i.file)
      BY <1>1 DEF IsSoundJob, IsJob
    <2>2. f = [i.file EXCEPT !.users = rows, !.complete = whole, !.undisturbed = clean]
      BY DEF Signed
    <2>3. \A c, u : [i.file EXCEPT !.users = rows, !.complete = c, !.undisturbed = u] \in
                    [parent : {i.file.parent}, line : {i.file.line}, users : {rows},
                     complete : {c}, undisturbed : {u}]
      BY <2>1, UpdatedLastTable
    <2> HIDE DEF f, whole, clean
    <2>4. QED
      BY <2>2, <2>3, Zenon
  <1> HIDE DEF f
  <1>4. IsArchive(f)
    BY <1>1, <1>2, <1>3 DEF IsSoundJob, IsJob, IsArchive, IsFile
  <1>5. ASSUME f.undisturbed
        PROVE  f.complete /\ Insertable(f)
    <2>1. Forest(t) /\ ~i.truncated /\ rows = i.snapshot.users
      BY <1>3, <1>5 DEF Visible
    <2>2. Rooted(t) = DOMAIN t /\ RefersWithin(t, rows)
      BY <1>1, <1>2, <2>1, ForestsAreRooted DEF IsSoundJob, RefersWithin
    <2>3. f.parent = [o \in DOMAIN t |-> t[o]] /\ f.line = [o \in DOMAIN t |-> Line(t, o)]
      BY <1>1, <1>3, <2>1, <2>2 DEF IsSoundJob, IsRead
    <2>4. f.parent = t
      BY <1>2, <2>3 DEF IsTable
    <2>5. f.complete
      BY <1>3, <2>1, <2>4
    <2>6. \A o \in DOMAIN t : t[o] # None =>
              t[o] \in DOMAIN t /\ Line(t, t[o]) < Line(t, o)
      BY <1>2, <2>1, <2>2, ParentsComeFirst DEF RefersWithin, Refers, IsTable
    <2>7. Insertable(f)
      BY <1>3, <2>2, <2>3, <2>4, <2>6 DEF Insertable, RefersWithin
    <2>8. QED
      BY <2>5, <2>7
  <1>6. QED
    BY <1>4, <1>5 DEF IsSoundArchive, f

\* The last table completes an archive: an undisturbed one has all rows of its
\* snapshot.
LEMMA ExportUsersKeeps ==
  ASSUME IInv, NEW b \in Backup, ExportUsers(b)
  PROVE  IInv'
  <1>1. /\ job[b].phase = "export_users" /\ UNCHANGED orgVars
        /\ files' = files \cup {Signed(b, Visible(b, job[b].snapshot.users))}
        /\ job' = [job EXCEPT ![b] = NoJob]
    BY DEF ExportUsers, FinishJob
  <1>2. OrgIInv'
    BY <1>1, OrganizationsHold
    DEF orgVars, OrgIInv, OrgTypeOK, ChecksHold, IsChecked, CyclesNeedRaces
  <1>3. job' = [c \in Backup |-> IF c = b THEN NoJob ELSE job[c]]
    BY <1>1, JobsAreSound
  <1>4. \A c \in Backup : IsSoundJob(job'[c])
    BY <1>3, JobsAreSound, NoJobIsSound
  <1>5. \A file \in files' : IsSoundArchive(file)
    BY <1>1, JobsAreSound, SignedArchives
  <1>6. QED
    BY <1>2, <1>3, <1>4, <1>5, SoundJobsKeep

\* A restore begins with an archive that was signed.
LEMMA RestoreStarts ==
  ASSUME IInv, NEW b \in Backup, NEW file \in files, StartRestore(b, file)
  PROVE  IInv'
  <1> DEFINE j == [NoJob EXCEPT !.phase = "restore_clear", !.file = file]
  <1>1. IsArchive(file)
    BY JobsAreSound DEF IsSoundArchive
  <1>2. IsSoundJob(NoJob) /\ IsJob(NoJob)
    BY NoJobIsSound DEF IsSoundJob
  <1>3. j \in [phase : {"restore_clear"}, snapshot : {NoJob.snapshot},
               truncated : {NoJob.truncated}, file : {file}]
    BY <1>2, UpdatedJob
  <1> HIDE DEF j
  <1>4. IsSoundJob(j)
    BY <1>1, <1>2, <1>3 DEF IsSoundJob, IsJob, IsRead, JobPhases
  <1>5. QED
    BY <1>4, JobKeeps DEF StartRestore, j

\* TRUNCATE is seen by exports that have read no table, which are disturbed from
\* then on.
LEMMA RestoreClearKeeps ==
  ASSUME IInv, NEW b \in Backup, RestoreClear(b)
  PROVE  IInv'
  <1> DEFINE i == job[b]
             j == [i EXCEPT !.phase = "restore_fill"]
  <1>1. IsSoundJob(i)
    BY JobsAreSound
  <1>2. j \in [phase : {"restore_fill"}, snapshot : {i.snapshot},
               truncated : {i.truncated}, file : {i.file}]
    BY <1>1 DEF IsSoundJob, IsJob
  <1>3. job' = [job EXCEPT ![b] = j] /\ UNCHANGED <<orgVars, files>>
    BY DEF RestoreClear
  <1> HIDE DEF i, j
  <1>4. IsSoundJob(j)
    BY <1>1, <1>2 DEF IsSoundJob, IsJob, IsRead, JobPhases
  <1>5. QED
    BY <1>3, <1>4, JobKeeps

\* The rows of an archive that can be inserted are tables whose foreign keys
\* hold, and a forest if they were one.
LEMMA RestoreCommittedKeeps ==
  ASSUME IInv, NEW b \in Backup, RestoreCommitted(b)
  PROVE  IInv'
  <1> DEFINE file == job[b].file
             j(c) == [job[c] EXCEPT !.truncated = @ \/ job[c].phase = "export_organizations"]
  <1>1. /\ Insertable(file) /\ UNCHANGED <<raced, files>>
        /\ organizations' = file.parent /\ users' = file.users
        /\ move' = [r \in Mover |-> [move[r] EXCEPT !.stale = @ \/ move[r].phase = "write"]]
        /\ job' = [c \in Backup |-> IF c = b THEN NoJob ELSE j(c)]
    BY DEF RestoreCommitted
  <1>2. /\ IsTable(file.parent, Org) /\ IsTable(file.users, User)
        /\ file.line \in [DOMAIN file.parent -> Nat]
    BY JobsAreSound DEF IsSoundJob, IsJob, IsArchive, IsFile
  <1>3. OrgIInv'
    <2>1. OrgTypeOK'
      BY <1>1, <1>2, OrganizationsHold DEF OrgIInv, OrgTypeOK, Move
    <2>2. RefersWithin(organizations, users)'
      BY <1>1 DEF Insertable, RefersWithin, Refers
    <2>3. ASSUME NEW r \in Mover
          PROVE  IsChecked(move[r])'
      <3>1. move[r] \in Move /\ IsChecked(move[r])
        BY OrganizationsHold DEF OrgIInv, OrgTypeOK, ChecksHold
      <3>2. /\ move'[r].phase = move[r].phase /\ move'[r].org = move[r].org
            /\ move'[r].parent = move[r].parent
            /\ move'[r].phase = "write" => move'[r].stale
        BY <1>1, <3>1 DEF Move
      <3>3. QED
        BY <3>1, <3>2 DEF IsChecked
    <2>4. Forest(organizations')
      BY <1>1, <1>2, InsertedTablesAreForests DEF IsTable
    <2>5. QED
      BY <2>1, <2>2, <2>3, <2>4 DEF OrgIInv, ChecksHold, CyclesNeedRaces
  <1>4. ASSUME NEW c \in Backup
        PROVE  IsSoundJob(j(c))
    <2>1. IsSoundJob(job[c]) /\ job[c].truncated \in BOOLEAN
      BY JobsAreSound DEF IsSoundJob, IsJob
    <2>2. ASSUME NEW i, IsSoundJob(i), NEW v \in BOOLEAN, i.truncated => v,
                 NEW k, k = [i EXCEPT !.truncated = v]
          PROVE  IsSoundJob(k)
      <3>1. k \in [phase : {i.phase}, snapshot : {i.snapshot}, truncated : {v},
                   file : {i.file}]
        BY <2>2 DEF IsSoundJob, IsJob
      <3>2. QED
        BY <2>2, <3>1 DEF IsSoundJob, IsJob, IsRead
    <2>3. QED
      BY <2>1, <2>2
  <1> HIDE DEF j
  <1>5. \A c \in Backup : IsSoundJob(job'[c])
    BY <1>1, <1>4, NoJobIsSound
  <1>6. QED
    BY <1>1, <1>3, <1>5, JobsAreSound, SoundJobsKeep

-----------------------------------------------------------------------------
(* Theorems *)

\* Every step keeps the invariant.
LEMMA Inductive == IInv /\ [Next]_vars => IInv'
  <1> SUFFICES ASSUME IInv, [Next]_vars
               PROVE  IInv'
    OBVIOUS
  <1>1. CASE Arrive
    <2>1. ASSUME NEW r \in Mover, NEW o \in Org, NEW parent \in Org \cup {None},
                 StartMove(r, o, parent), UNCHANGED <<files, job>>
          PROVE  IInv'
      BY <2>1, OrganizationsHold, MoveKeeps, OrganizationsKeep
    <2>2. QED
      BY <1>1, <2>1, StartExportKeeps, RestoreStarts DEF Arrive
  <1>2. CASE OrgStatement /\ UNCHANGED <<files, job>>
    <2>1. OrgIInv'
      BY <1>2, OrganizationsHold, CreateOrganizationKeeps, AssignKeeps, MoveWrittenKeeps,
         MoveKeeps
      DEF OrgStatement, HandleMove
    <2>2. QED
      BY <1>2, <2>1, OrganizationsKeep
  <1>3. CASE (\E r \in Mover : CancelMove(r)) /\ UNCHANGED <<files, job>>
    BY <1>3, OrganizationsHold, MoveKeeps, OrganizationsKeep
  <1>4. ASSUME NEW b \in Backup, HandleJob(b) \/ CancelJob(b)
        PROVE  IInv'
    BY <1>4, ExportOrganizationsKeeps, ExportUsersKeeps, RestoreClearKeeps, FinishJobKeeps,
       RestoreCommittedKeeps
    DEF HandleJob, CancelJob, RestoreRefused
  <1>5. CASE UNCHANGED vars
    <2>1. OrgIInv'
      BY <1>5, OrganizationsHold
      DEF vars, orgVars, OrgIInv, OrgTypeOK, ChecksHold, IsChecked, CyclesNeedRaces
    <2>2. QED
      BY <1>5, <2>1, OrganizationsKeep DEF vars
  <1>6. QED
    BY <1>1, <1>2, <1>3, <1>4, <1>5 DEF Next

\* The inductive invariant holds in every state of BackupRestore.
THEOREM BackupInvariance == Spec => []IInv
  BY Initially, Inductive, PTL DEF Spec

\* Tables, moves, jobs and archives stay what the code can make of them.
THEOREM BackupTypes == Spec => []TypeOK
  <1>1. IInv => TypeOK
    BY DEF IInv, Types, TypeOK, IsJob, IsArchive
  <1>2. QED
    BY <1>1, BackupInvariance, PTL

\* Among any number of administrators who create and move organizations and
\* restore backups, a cycle takes a move that is written after another move or a
\* restore has changed the tree it was checked in (updateOrganization).
THEOREM OnlyRacesTieCycles == Spec => []CyclesNeedRaces
  <1>1. IInv => CyclesNeedRaces
    BY DEF IInv
  <1>2. QED
    BY <1>1, BackupInvariance, PTL

\* However large the tree and however many exports, restores and writers run at
\* once, an export that met neither a cycle nor a restore signs all rows of its
\* snapshot (exportBackup).
THEOREM ArchivesHoldTheirSnapshot == Spec => []UndisturbedArchivesAreComplete
  <1>1. IInv => UndisturbedArchivesAreComplete
    BY DEF IInv
  <1>2. QED
    BY <1>1, BackupInvariance, PTL

\* Such an archive can be restored line by line under immediate foreign keys,
\* for every tree and every order of the codes (backupTables, restoreBackup).
THEOREM ArchivesCanBeRestored == Spec => []UndisturbedArchivesRestore
  <1>1. IInv => UndisturbedArchivesRestore
    BY DEF IInv
  <1>2. QED
    BY <1>1, BackupInvariance, PTL
=============================================================================
