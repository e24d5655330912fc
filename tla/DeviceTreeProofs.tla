-------------------------- MODULE DeviceTreeProofs --------------------------
(***************************************************************************)
(* Proofs about DeviceTree, for any disks, partitions, arrays and          *)
(* mappings.                                                               *)
(***************************************************************************)
EXTENDS DeviceTreeLemmas, FiniteSetTheorems

-----------------------------------------------------------------------------
\* The filter never ends a descent: true of all but the search by name.
NeverStops(filter) == \A n \in Names : ~filter[n].stop

\* What each of the simple filters skips.
LEMMA BasicFilters ==
    /\ \A types : TypeFilter(types) \in Filters /\ NeverStops(TypeFilter(types))
                  /\ \A n \in Names : TypeFilter(types)[n].skip <=> Type[n] \notin types
    /\ \A types : FSTypeFilter(types) \in Filters /\ NeverStops(FSTypeFilter(types))
                  /\ \A n \in Names : FSTypeFilter(types)[n].skip <=> FSType(n) \notin types \cup {""}
    /\ MountpointEmpty \in Filters /\ NeverStops(MountpointEmpty)
    /\ \A n \in Names : MountpointEmpty[n].skip <=> MountpointColumn(n) # None
    /\ \A name : NameFilter(name) \in Filters /\ NeverStops(NameFilter(name))
                  /\ \A n \in Names : NameFilter(name)[n].skip <=> n # name
  BY DEF TypeFilter, FSTypeFilter, MountpointEmpty, NameFilter, Answer, Filters, NeverStops

\* Not skips what the filter keeps.
LEMMA NotAnswers ==
    ASSUME NEW filter \in Filters, NeverStops(filter)
    PROVE  /\ Not(filter) \in Filters /\ NeverStops(Not(filter))
           /\ \A n \in Names : Not(filter)[n].skip <=> ~filter[n].skip
  BY DEF Not, Answer, Filters, NeverStops

\* The first element that is selected, if there is one, is one of the selected.
LEMMA FirstOf ==
    ASSUME NEW filters \in Seq(Filters), NEW P
    PROVE  LET found == Among(filters, P) IN
           /\ found = <<>> <=> ToSet(filters) \cap P = {}
           /\ found # <<>> => found[1] \in ToSet(filters) \cap P
<1> DEFINE found == Among(filters, P)
<1>1. found \in Seq(Filters) /\ ToSet(found) = ToSet(filters) \cap P
  BY AmongType
<1> HIDE DEF found
<1>2. ToSet(<<>>) = {}
  BY DEF ToSet
<1>3. found # <<>> => found[1] \in ToSet(found)
  BY <1>1, EmptySeq, LenProperties DEF ToSet
<1> QED
  BY <1>1, <1>2, <1>3 DEF found

\* And of filters that never stop skips what one of them skips.
LEMMA AndAnswers ==
    ASSUME NEW filters \in Seq(Filters), \A i \in DOMAIN filters : NeverStops(filters[i])
    PROVE  /\ And(filters) \in Filters /\ NeverStops(And(filters))
           /\ \A n \in Names : And(filters)[n].skip <=> \E i \in DOMAIN filters : filters[i][n].skip
<1>1. \A f \in ToSet(filters) : f \in Filters /\ NeverStops(f)
  BY LenProperties, ElementOfSeq DEF ToSet
<1>2. ASSUME NEW n \in Names
      PROVE  /\ And(filters)[n] \in [skip : BOOLEAN, stop : BOOLEAN]
             /\ ~And(filters)[n].stop
             /\ And(filters)[n].skip <=> \E f \in ToSet(filters) : f[n].skip
  <2> DEFINE P == {f \in ToSet(filters) : f[n].skip \/ f[n].stop}
             found == Among(filters, P)
  <2>1. /\ found = <<>> <=> ToSet(filters) \cap P = {}
        /\ found # <<>> => found[1] \in ToSet(filters) \cap P
    <3> HIDE DEF P
    <3> QED
      BY FirstOf
  <2>2. And(filters)[n] = IF found = <<>> THEN Answer(FALSE, FALSE) ELSE found[1][n]
    BY DEF And, FirstAnswer
  <2> HIDE DEF found
  <2>3. CASE found = <<>>
    <3>1. And(filters)[n] = [skip |-> FALSE, stop |-> FALSE]
      BY <2>2, <2>3 DEF Answer
    <3>2. ~ \E f \in ToSet(filters) : f[n].skip
      BY <2>1, <2>3
    <3> QED
      BY <3>1, <3>2
  <2>4. CASE found # <<>>
    <3>1. And(filters)[n] = found[1][n] /\ found[1] \in ToSet(filters)
          /\ (found[1][n].skip \/ found[1][n].stop)
      BY <2>1, <2>2, <2>4
    <3>2. found[1] \in Filters /\ ~found[1][n].stop
      BY <1>1, <3>1 DEF NeverStops
    <3> QED
      BY <3>1, <3>2 DEF Filters
  <2> QED
    BY <2>3, <2>4
<1>3. And(filters) \in Filters
  <2>1. And(filters) = [n \in Names |-> And(filters)[n]]
    BY DEF And
  <2> QED
    BY <1>2, <2>1 DEF Filters
<1> QED
  BY <1>2, <1>3 DEF NeverStops, ToSet

\* Or of filters that never stop skips what all of them skip.
LEMMA OrAnswers ==
    ASSUME NEW filters \in Seq(Filters), \A i \in DOMAIN filters : NeverStops(filters[i])
    PROVE  /\ Or(filters) \in Filters /\ NeverStops(Or(filters))
           /\ \A n \in Names : Or(filters)[n].skip <=> \A i \in DOMAIN filters : filters[i][n].skip
<1>1. \A f \in ToSet(filters) : NeverStops(f)
  BY DEF ToSet
<1>2. ASSUME NEW n \in Names
      PROVE  Or(filters)[n] = Answer(\A i \in DOMAIN filters : filters[i][n].skip, FALSE)
  <2> DEFINE P == {f \in ToSet(filters) : f[n].stop}
  <2>1. P = {}
    BY <1>1 DEF NeverStops
  <2>2. Among(filters, P) = <<>>
    <3> HIDE DEF P
    <3> QED
      BY <2>1, FirstOf
  <2> QED
    BY <2>2 DEF Or, FirstAnswer
<1>3. Or(filters) = [n \in Names |-> Or(filters)[n]]
  BY DEF Or
<1>4. ASSUME NEW n \in Names
      PROVE  /\ Or(filters)[n] \in [skip : BOOLEAN, stop : BOOLEAN]
             /\ Or(filters)[n].skip <=> \A i \in DOMAIN filters : filters[i][n].skip
             /\ ~Or(filters)[n].stop
  <2>1. CASE \A i \in DOMAIN filters : filters[i][n].skip
    <3>1. (\A i \in DOMAIN filters : filters[i][n].skip) = TRUE
      BY <2>1
    <3>2. Or(filters)[n] = Answer(TRUE, FALSE)
      BY <1>2, <3>1
    <3> QED
      BY <2>1, <3>2 DEF Answer
  <2>2. CASE ~ \A i \in DOMAIN filters : filters[i][n].skip
    <3>1. (\A i \in DOMAIN filters : filters[i][n].skip) = FALSE
      BY <2>2
    <3>2. Or(filters)[n] = Answer(FALSE, FALSE)
      BY <1>2, <3>1
    <3> QED
      BY <2>2, <3>2 DEF Answer
  <2> QED
    BY <2>1, <2>2
<1> QED
  BY <1>3, <1>4 DEF Filters, NeverStops

\* The same for two filters.
LEMMA FilterPairs ==
    ASSUME NEW f \in Filters, NEW g \in Filters, NeverStops(f), NeverStops(g)
    PROVE  /\ And(<<f, g>>) \in Filters /\ NeverStops(And(<<f, g>>))
           /\ \A n \in Names : And(<<f, g>>)[n].skip <=> f[n].skip \/ g[n].skip
           /\ Or(<<f, g>>) \in Filters /\ NeverStops(Or(<<f, g>>))
           /\ \A n \in Names : Or(<<f, g>>)[n].skip <=> f[n].skip /\ g[n].skip
<1> DEFINE s == <<f, g>>
<1>1. s \in Seq(Filters) /\ DOMAIN s = {1, 2} /\ s[1] = f /\ s[2] = g
  OBVIOUS
<1>2. \A i \in DOMAIN s : NeverStops(s[i])
  BY <1>1
<1> HIDE DEF s
<1>3. /\ And(s) \in Filters /\ NeverStops(And(s))
      /\ \A n \in Names : And(s)[n].skip <=> \E i \in DOMAIN s : s[i][n].skip
  BY <1>1, <1>2, AndAnswers
<1>4. /\ Or(s) \in Filters /\ NeverStops(Or(s))
      /\ \A n \in Names : Or(s)[n].skip <=> \A i \in DOMAIN s : s[i][n].skip
  BY <1>1, <1>2, OrAnswers
<1>5. \A n \in Names : /\ And(s)[n].skip <=> f[n].skip \/ g[n].skip
                       /\ Or(s)[n].skip <=> f[n].skip /\ g[n].skip
  BY <1>1, <1>3, <1>4
<1> QED
  BY <1>3, <1>4, <1>5 DEF s

\* Filters that never stop and skip the same are equal.
LEMMA SameFilter ==
    ASSUME NEW f \in Filters, NEW g \in Filters, NeverStops(f), NeverStops(g),
           \A n \in Names : f[n].skip <=> g[n].skip
    PROVE  f = g
<1>1. ASSUME NEW n \in Names
      PROVE  f[n] = g[n]
  <2>1. f[n] \in [skip : BOOLEAN, stop : BOOLEAN] /\ g[n] \in [skip : BOOLEAN, stop : BOOLEAN]
    BY DEF Filters
  <2>2. f[n].skip = g[n].skip /\ f[n].stop = g[n].stop
    BY <2>1 DEF NeverStops
  <2> QED
    BY <2>1, <2>2
<1> QED
  BY <1>1 DEF Filters

\* What And, Or and Not make of filters that never stop, in any number and
\* nested as deep as one likes, is such a filter again, and GetBlockDevices
\* selects by it from the flat list: what all of them pass, what one of them
\* passes, what the filter does not pass.
CombinedFiltersSelect ==
    /\ \A filter \in Filters : NeverStops(filter) =>
          /\ GetBlockDevices(filter) = Among(All, {n \in Names : ~filter[n].skip})
          /\ Not(filter) \in Filters /\ NeverStops(Not(filter))
          /\ GetBlockDevices(Not(filter)) = Among(All, {n \in Names : filter[n].skip})
    /\ \A filters \in Seq(Filters) : (\A i \in DOMAIN filters : NeverStops(filters[i])) =>
          /\ And(filters) \in Filters /\ NeverStops(And(filters))
          /\ GetBlockDevices(And(filters))
                = Among(All, {n \in Names : \A i \in DOMAIN filters : ~filters[i][n].skip})
          /\ Or(filters) \in Filters /\ NeverStops(Or(filters))
          /\ GetBlockDevices(Or(filters))
                = Among(All, {n \in Names : \E i \in DOMAIN filters : ~filters[i][n].skip})

LEMMA CombinedFiltersSelectOnTrees ==
    ASSUME IsTree
    PROVE  CombinedFiltersSelect
<1>1. ASSUME NEW filter \in Filters, NeverStops(filter)
      PROVE  GetBlockDevices(filter) = Among(All, {n \in Names : ~filter[n].skip})
  BY <1>1, FilterSelects DEF NeverStops
<1>2. ASSUME NEW filter \in Filters, NeverStops(filter)
      PROVE  /\ Not(filter) \in Filters /\ NeverStops(Not(filter))
             /\ GetBlockDevices(Not(filter)) = Among(All, {n \in Names : filter[n].skip})
  <2>1. /\ Not(filter) \in Filters /\ NeverStops(Not(filter))
        /\ \A n \in Names : Not(filter)[n].skip <=> ~filter[n].skip
    BY <1>2, NotAnswers
  <2>2. {n \in Names : ~Not(filter)[n].skip} = {n \in Names : filter[n].skip}
    BY <2>1
  <2> QED
    BY <1>1, <2>1, <2>2
<1>3. ASSUME NEW filters \in Seq(Filters), \A i \in DOMAIN filters : NeverStops(filters[i])
      PROVE  /\ And(filters) \in Filters /\ NeverStops(And(filters))
             /\ GetBlockDevices(And(filters))
                   = Among(All, {n \in Names : \A i \in DOMAIN filters : ~filters[i][n].skip})
  <2>1. /\ And(filters) \in Filters /\ NeverStops(And(filters))
        /\ \A n \in Names : And(filters)[n].skip <=> \E i \in DOMAIN filters : filters[i][n].skip
    BY <1>3, AndAnswers
  <2>2. {n \in Names : ~And(filters)[n].skip}
           = {n \in Names : \A i \in DOMAIN filters : ~filters[i][n].skip}
    BY <2>1
  <2> QED
    BY <1>1, <2>1, <2>2
<1>4. ASSUME NEW filters \in Seq(Filters), \A i \in DOMAIN filters : NeverStops(filters[i])
      PROVE  /\ Or(filters) \in Filters /\ NeverStops(Or(filters))
             /\ GetBlockDevices(Or(filters))
                   = Among(All, {n \in Names : \E i \in DOMAIN filters : ~filters[i][n].skip})
  <2>1. /\ Or(filters) \in Filters /\ NeverStops(Or(filters))
        /\ \A n \in Names : Or(filters)[n].skip <=> \A i \in DOMAIN filters : filters[i][n].skip
    BY <1>4, OrAnswers
  <2>2. {n \in Names : ~Or(filters)[n].skip}
           = {n \in Names : \E i \in DOMAIN filters : ~filters[i][n].skip}
    BY <2>1
  <2> QED
    BY <1>1, <2>1, <2>2
<1> QED
  BY <1>1, <1>2, <1>3, <1>4 DEF CombinedFiltersSelect

\* FiltersSelect holds of every acyclic stacking.
LEMMA FiltersSelectOnTrees ==
    ASSUME IsTree
    PROVE  FiltersSelect
<1> DEFINE fs == FSTypeFilter({"ext4"})
           ty == TypeFilter({"disk", "raid1"})
           Passes(f) == Among(All, {n \in Names : ~f[n].skip})
           Good(f) == f \in Filters /\ NeverStops(f)
<1>1. Good(MountpointEmpty) /\ Good(fs) /\ Good(ty)
  BY BasicFilters
<1> HIDE DEF fs, ty
<1>2. /\ Good(And(<<fs, ty>>)) /\ Good(Or(<<fs, ty>>)) /\ Good(Not(fs)) /\ Good(Not(ty))
      /\ \A n \in Names : And(<<fs, ty>>)[n].skip <=> fs[n].skip \/ ty[n].skip
      /\ \A n \in Names : Not(fs)[n].skip <=> ~fs[n].skip
      /\ \A n \in Names : Not(ty)[n].skip <=> ~ty[n].skip
  BY <1>1, FilterPairs, NotAnswers
<1>3. \A f \in {MountpointEmpty, fs, ty, And(<<fs, ty>>), Or(<<fs, ty>>), Not(fs)} :
         GetBlockDevices(f) = Passes(f)
  <2>1. ASSUME NEW f, Good(f)
        PROVE  GetBlockDevices(f) = Passes(f)
    BY <2>1, FilterSelects DEF NeverStops
  <2> HIDE DEF Passes, Good
  <2> QED
    BY <1>1, <1>2, <2>1
<1>4. Passes(And(<<fs, ty>>)) = Among(Passes(fs), {n \in Names : ~ty[n].skip})
  <2>1. {n \in Names : ~fs[n].skip} \cap {n \in Names : ~ty[n].skip}
           = {n \in Names : ~And(<<fs, ty>>)[n].skip}
    BY <1>2
  <2>2. All \in Seq(Names)
    BY AllIsReached
  <2> QED
    BY <2>1, <2>2, AmongAmong
<1>5. Not(And(<<fs, ty>>)) = Or(<<Not(fs), Not(ty)>>)
  <2>1. /\ Good(Or(<<Not(fs), Not(ty)>>))
        /\ \A n \in Names : Or(<<Not(fs), Not(ty)>>)[n].skip <=> ~fs[n].skip /\ ~ty[n].skip
    BY <1>2, FilterPairs
  <2>2. /\ Good(Not(And(<<fs, ty>>)))
        /\ \A n \in Names : Not(And(<<fs, ty>>))[n].skip <=> ~(fs[n].skip \/ ty[n].skip)
    BY <1>2, NotAnswers
  <2> QED
    BY <2>1, <2>2, SameFilter
<1>6. ASSUME NEW n \in Names
      PROVE  /\ GetBlockDevice(n) = IF n \in ToSet(All) THEN n ELSE NoName
             /\ ToSet(GetBlockDevices(NameFilter(n))) = ToSet(All) \cap {n}
  <2>1. GetBlockDevices(NameFilter(n)) = Among(All, {m \in Names : ~NameFilter(n)[m].skip})
    BY BasicFilters, FilterSelects DEF NeverStops
  <2>2. {m \in Names : ~NameFilter(n)[m].skip} = {n}
    BY BasicFilters
  <2> QED
    BY <2>1, <2>2, SearchFinds, AllIsReached, AmongType
<1> QED
  BY <1>3, <1>4, <1>5, <1>6 DEF FiltersSelect, fs, ty

-----------------------------------------------------------------------------
\* UUIDs of different kinds, or of different devices, are different.
LEMMA UUIDs ==
    /\ None # Root
    /\ \A n : FsUUID(n) \notin {None, Root} /\ PartUUID(n) # None /\ ArrayUUID(n) # None
    /\ \A m, n : FsUUID(m) # PartUUID(n) /\ FsUUID(m) # ArrayUUID(n) /\ PartUUID(m) # ArrayUUID(n)
    /\ \A m, n : FsUUID(m) = FsUUID(n) => m = n
    /\ \A m, n : PartUUID(m) = PartUUID(n) => m = n
<1>1. None[1] = "none" /\ Root[1] = "/"
  BY DEF None, Root
<1>2. ASSUME NEW n
      PROVE  /\ FsUUID(n)[1] = "fs" /\ FsUUID(n)[2] = n
             /\ PartUUID(n)[1] = "part" /\ PartUUID(n)[2] = n
             /\ ArrayUUID(n)[1] = "array"
  BY DEF FsUUID, PartUUID, ArrayUUID
<1> QED
  BY <1>1, <1>2

\* A disk has its partitions on top, or any device one array or mapping.
ShapeInv ==
    \A n \in Names :
        \/ kids[n] = <<>>
        \/ Type[n] = "disk" /\ kids[n] = PartsOf[n]
        \/ \E k \in Names : kids[n] = <<k>> /\ Type[k] \in {"raid1", "crypt"}

\* What is in use hangs off a disk.
AttachedInv == \A n \in Names : kids[n] # <<>> \/ content[n] # "blank" => n \in Reached(kids)

\* A device with something on top shows no filesystem, and a member has its array.
ContentInv ==
    \A n \in Names :
        /\ kids[n] # <<>> => content[n] \in {"blank", "member"}
        /\ content[n] = "member" => kids[n] # <<>>

\* "/" is on one filesystem without our label; the agent's mounts are on
\* filesystems with it, each at the directory of its UUID.
MountInv ==
    \A n \in Names :
        /\ mounted[n] = Root => content[n] \in {"ext4", "xfs"}
        /\ mounted[n] \notin {None, Root} => content[n] = "ours" /\ mounted[n] = FsUUID(n)
        /\ \A m \in Names : mounted[m] = Root /\ mounted[n] = Root => m = n

\* The inductive invariant.
TreeInv == TypeOK /\ Acyclic(kids) /\ ShapeInv /\ AttachedInv /\ ContentInv /\ MountInv

\* A stacking that satisfies the invariant can be walked.
LEMMA InvTree ==
    ASSUME TreeInv
    PROVE  IsTree
  BY DEF TreeInv, TypeOK, IsTree, Lists

\* What ScanUnmounted may list by its type.
Plain == {n \in Names : Type[n] \in {"disk", "part", "loop"}}

\* Partitions: what PartsAssumption says of one disk.
LEMMA PartFacts ==
    ASSUME NEW d \in Names
    PROVE  /\ PartsOf[d] \in Seq(Names)
           /\ \A i \in DOMAIN PartsOf[d] : PartsOf[d][i] \in Names /\ Type[PartsOf[d][i]] = "part"
           /\ \A i, j \in DOMAIN PartsOf[d] : PartsOf[d][i] = PartsOf[d][j] => i = j
           /\ \A e \in Names : \A i \in DOMAIN PartsOf[d], j \in DOMAIN PartsOf[e] :
                 PartsOf[d][i] = PartsOf[e][j] => d = e
<1>1. PartsOf[d] \in Seq(Names)
  BY PartsAssumption
<1> QED
  BY <1>1, PartsAssumption, LenProperties, ElementOfSeq

\* What is on top of a device is a partition of it, or one array or mapping.
LEMMA KidTypes ==
    ASSUME IsTree, ShapeInv, NEW n \in Names, NEW i \in DOMAIN kids[n]
    PROVE  /\ kids[n][i] \in Names
           /\ \/ Type[kids[n][i]] \in {"raid1", "crypt"} /\ \A j \in DOMAIN kids[n] : j = i
              \/ Type[kids[n][i]] = "part" /\ Type[n] = "disk" /\ kids[n] = PartsOf[n]
<1>1. kids[n][i] \in Names /\ kids[n] # <<>>
  BY KidsAreNames DEF IsTree
<1>2. CASE Type[n] = "disk" /\ kids[n] = PartsOf[n]
  BY <1>1, <1>2, PartFacts
<1>3. CASE \E k \in Names : kids[n] = <<k>> /\ Type[k] \in {"raid1", "crypt"}
  BY <1>1, <1>3
<1> QED
  BY <1>1, <1>2, <1>3 DEF ShapeInv

\* Above a device that is not a disk there are only arrays and mappings.
LEMMA StackedReach ==
    ASSUME IsTree, ShapeInv, NEW n \in Names, Type[n] # "disk"
    PROVE  Reach(kids, n) \cap Plain \subseteq {n}
<1> DEFINE C == {n} \cup {x \in Names : Type[x] \in {"raid1", "crypt"}}
<1>1. ASSUME NEW x \in C, NEW i \in DOMAIN kids[x]
      PROVE  kids[x][i] \in C
  <2>1. x \in Names /\ Type[x] # "disk"
    OBVIOUS
  <2> QED
    BY <2>1, KidTypes
<1>2. Closed(kids, C) /\ C \in SUBSET Names /\ n \in C
  BY <1>1 DEF Closed
<1>3. Reach(kids, n) \subseteq C
  <2> HIDE DEF C
  <2> QED
    BY <1>2 DEF Reach
<1> QED
  BY <1>3 DEF Plain

\* A plain device that n reaches is n or a partition of n.
LEMMA PlainReach ==
    ASSUME IsTree, ShapeInv, NEW n \in Names, NEW x \in Reach(kids, n) \cap Plain
    PROVE  \/ x = n
           \/ \E i \in DOMAIN kids[n] : x = kids[n][i] /\ Type[x] = "part" /\ kids[n] = PartsOf[n]
<1>1. CASE \E i \in DOMAIN kids[n] : x \in Reach(kids, kids[n][i])
  <2>1. PICK i \in DOMAIN kids[n] : x \in Reach(kids, kids[n][i])
    BY <1>1
  <2>2. kids[n][i] \in Names /\ Type[kids[n][i]] # "disk"
    BY KidTypes
  <2>3. x = kids[n][i]
    BY <2>1, <2>2, StackedReach
  <2>4. Type[kids[n][i]] \notin {"raid1", "crypt"}
    BY <2>3 DEF Plain
  <2> QED
    BY <2>3, <2>4, KidTypes
<1> QED
  BY <1>1, ReachStep DEF IsTree

\* The flat list repeats at most arrays and what is stacked on them.
LEMMA PlainOnce ==
    ASSUME IsTree, ShapeInv
    PROVE  Once(All, Plain)
<1>1. ASSUME NEW n \in Names, NEW i \in DOMAIN kids[n], n \in Plain
      PROVE  n \notin Reach(kids, kids[n][i])
  <2>1. kids[n][i] \in Names /\ Type[kids[n][i]] # "disk"
    BY KidTypes
  <2>2. kids[n][i] # n
    <3>1. \A T \in SUBSET Names : T # {} => \E m \in T : \A j \in DOMAIN kids[m] : kids[m][j] \notin T
      BY DEF IsTree, Acyclic
    <3>2. \A j \in DOMAIN kids[n] : kids[n][j] \notin {n}
      BY <3>1
    <3> QED
      BY <3>2
  <2> QED
    BY <1>1, <2>1, <2>2, StackedReach
<1>2. ASSUME NEW n \in Names, NEW i \in DOMAIN kids[n], NEW j \in DOMAIN kids[n], i # j
      PROVE  Reach(kids, kids[n][i]) \cap Reach(kids, kids[n][j]) \cap Plain = {}
  <2>1. kids[n] = PartsOf[n] /\ kids[n][i] \in Names /\ kids[n][j] \in Names
        /\ Type[kids[n][i]] = "part" /\ Type[kids[n][j]] = "part"
    BY <1>2, KidTypes
  <2>2. kids[n][i] # kids[n][j]
    BY <1>2, <2>1, PartFacts
  <2> QED
    BY <2>1, <2>2, StackedReach
<1>3. Separate(kids, Plain)
  BY <1>1, <1>2 DEF Separate
<1>4. ASSUME NEW i \in DOMAIN Disks, NEW j \in DOMAIN Disks, i # j,
             NEW x \in Reach(kids, Disks[i]) \cap Reach(kids, Disks[j]) \cap Plain
      PROVE  FALSE
  <2>1. /\ Disks[i] \in Names /\ Disks[j] \in Names /\ Disks[i] # Disks[j]
        /\ Type[Disks[i]] # "part" /\ Type[Disks[j]] # "part"
    BY <1>4, DisksAreNames, DisksAssumption
  <2>2. /\ \/ x = Disks[i]
           \/ \E k \in DOMAIN PartsOf[Disks[i]] : x = PartsOf[Disks[i]][k] /\ Type[x] = "part"
        /\ \/ x = Disks[j]
           \/ \E k \in DOMAIN PartsOf[Disks[j]] : x = PartsOf[Disks[j]][k] /\ Type[x] = "part"
    BY <2>1, PlainReach
  <2> QED
    BY <2>1, <2>2, PartFacts
<1> QED
  BY <1>3, <1>4, AllOnce

-----------------------------------------------------------------------------
\* What the filter of ScanUnmounted keeps.
LEMMA UnmountedFilterAnswers ==
    /\ UnmountedFilter \in Filters /\ NeverStops(UnmountedFilter)
    /\ \A n \in Names :
          ~UnmountedFilter[n].skip <=> /\ MountpointColumn(n) = None
                                       /\ FSType(n) \in {"ext4", ""}
                                       /\ n \in Plain
<1> DEFINE fs == FSTypeFilter({"ext4"})
           ty == TypeFilter({"disk", "part", "loop"})
           s == <<MountpointEmpty, fs, ty>>
<1>1. /\ MountpointEmpty \in Filters /\ fs \in Filters /\ ty \in Filters
      /\ NeverStops(MountpointEmpty) /\ NeverStops(fs) /\ NeverStops(ty)
      /\ \A n \in Names : /\ MountpointEmpty[n].skip <=> MountpointColumn(n) # None
                          /\ fs[n].skip <=> FSType(n) \notin {"ext4"} \cup {""}
                          /\ ty[n].skip <=> Type[n] \notin {"disk", "part", "loop"}
  BY BasicFilters
<1> HIDE DEF fs, ty
<1>2. s \in Seq(Filters) /\ DOMAIN s = {1, 2, 3} /\ s[1] = MountpointEmpty /\ s[2] = fs /\ s[3] = ty
  <2>1. \A f, g, h \in Filters :
           <<f, g, h>> \in Seq(Filters) /\ DOMAIN <<f, g, h>> = {1, 2, 3}
    OBVIOUS
  <2> QED
    BY <1>1, <2>1
<1>3. UnmountedFilter = And(s)
  BY DEF UnmountedFilter, fs, ty
<1> HIDE DEF s
<1>4. \A i \in DOMAIN s : NeverStops(s[i])
  BY <1>1, <1>2
<1>5. /\ And(s) \in Filters /\ NeverStops(And(s))
      /\ \A n \in Names : And(s)[n].skip <=> \E i \in DOMAIN s : s[i][n].skip
  BY <1>2, <1>4, AndAnswers
<1>6. \A n \in Names : And(s)[n].skip <=> MountpointEmpty[n].skip \/ fs[n].skip \/ ty[n].skip
  BY <1>2, <1>5
<1> QED
  BY <1>1, <1>3, <1>5, <1>6 DEF Plain

\* What ScanUnmounted looks for.
ListedDevice(n) ==
    /\ n \in Reached(kids) /\ n \in Plain
    /\ MountpointColumn(n) = None
    /\ FSType(n) \in {"ext4", ""}

\* ScanUnmounted lists such devices, each once, with its UUID or PARTUUID.
LEMMA Listed ==
    ASSUME IsTree, ShapeInv
    PROVE  /\ Len(ScanUnmounted) \in Nat /\ DOMAIN ScanUnmounted = 1..Len(ScanUnmounted)
           /\ \A i \in DOMAIN ScanUnmounted :
                 /\ ListedDevice(ScanUnmounted[i][1])
                 /\ ScanUnmounted[i][2] = UUIDOrPartUUID(ScanUnmounted[i][1])
           /\ \A i, j \in DOMAIN ScanUnmounted :
                 ScanUnmounted[i][1] = ScanUnmounted[j][1] => i = j
<1> DEFINE P == {n \in Names : ~UnmountedFilter[n].skip}
           Q == {n \in Names : ~(Type[n] = "disk" /\ kids[n] # <<>>) /\ n \notin Small}
           some == Among(All, P)
           kept == Among(some, Q)
<1>1. GetBlockDevices(UnmountedFilter) = some
  BY UnmountedFilterAnswers, FilterSelects DEF NeverStops
<1>2. ScanUnmounted = [i \in DOMAIN kept |-> <<kept[i], UUIDOrPartUUID(kept[i])>>]
  BY <1>1 DEF ScanUnmounted
<1> HIDE DEF P, Q, kept
<1>3. All \in Seq(Names) /\ ToSet(All) = Reached(kids) /\ Once(All, Plain)
  BY AllIsReached, PlainOnce
<1>4. some \in Seq(Names) /\ ToSet(some) = Reached(kids) \cap P /\ Once(some, Plain)
  BY <1>3, AmongType, AmongOnce
<1> HIDE DEF some
<1>5. kept \in Seq(Names) /\ ToSet(kept) = Reached(kids) \cap P \cap Q /\ Once(kept, Plain)
  BY <1>4, AmongType, AmongOnce DEF kept
<1>6. Len(kept) \in Nat /\ DOMAIN kept = 1..Len(kept)
  BY <1>5, LenProperties
<1>7. ASSUME NEW i \in DOMAIN kept
      PROVE  ListedDevice(kept[i])
  <2>1. kept[i] \in Reached(kids) /\ kept[i] \in P
    BY <1>5 DEF ToSet
  <2> QED
    BY <2>1, UnmountedFilterAnswers DEF P, ListedDevice
<1>8. /\ DOMAIN ScanUnmounted = 1..Len(kept)
      /\ \A i \in DOMAIN kept : /\ ScanUnmounted[i][1] = kept[i]
                                /\ ScanUnmounted[i][2] = UUIDOrPartUUID(kept[i])
  BY <1>2, <1>6
<1>9. Len(ScanUnmounted) = Len(kept)
  <2>1. ScanUnmounted \in [1..Len(kept) -> {<<kept[i], UUIDOrPartUUID(kept[i])>> : i \in DOMAIN kept}]
    BY <1>2, <1>6
  <2> QED
    BY <1>6, <2>1
<1>10. \A i, j \in DOMAIN kept : kept[i] = kept[j] => i = j
  BY <1>5, <1>7 DEF Once, ListedDevice
<1> QED
  BY <1>6, <1>7, <1>8, <1>9, <1>10

\* The columns of a device, by what is on it.
LEMMA UUIDsOf ==
    ASSUME TypeOK, NEW n \in Names
    PROVE  /\ content[n] \in {"blank", "ours", "ext4", "xfs", "member"}
           /\ content[n] = "blank" => UUIDColumn(n) = None
           /\ content[n] = "member" => UUIDColumn(n) = ArrayUUID(kids[n][1])
           /\ content[n] \in {"ours", "ext4", "xfs"} => UUIDColumn(n) = FsUUID(n)
           /\ PartUUIDColumn(n) \in {None, PartUUID(n)}
           /\ FSType(n) = "" => content[n] = "blank"
           /\ FSType(n) = "ext4" => content[n] \in {"ours", "ext4"}
<1>1. content[n] \in {"blank", "ours", "ext4", "xfs", "member"}
  BY DEF TypeOK
<1> QED
  BY <1>1 DEF UUIDColumn, PartUUIDColumn, FSType

\* The UUID of a device without stacked members leads back to it: no other
\* device has it as UUID or as PARTUUID.
LEMMA Resolved ==
    ASSUME TreeInv, NEW n \in Reached(kids), content[n] \in {"blank", "ours", "ext4"},
           UUIDOrPartUUID(n) # None
    PROVE  ResolveUUID(UUIDOrPartUUID(n)) = n
<1> DEFINE uuid == UUIDOrPartUUID(n)
           P == {m \in Names : uuid \in {UUIDColumn(m), PartUUIDColumn(m)}}
           found == Among(All, P)
<1>1. IsTree /\ TypeOK /\ n \in Names
  BY InvTree DEF TreeInv, Reached
<1>2. uuid \in {FsUUID(n), PartUUID(n)} /\ n \in P
  BY <1>1, UUIDsOf DEF UUIDOrPartUUID
<1>3. ASSUME NEW m \in P
      PROVE  m = n
  <2>1. m \in Names /\ uuid \in {UUIDColumn(m), PartUUIDColumn(m)}
    OBVIOUS
  <2>2. /\ UUIDColumn(m) \in {None, FsUUID(m), ArrayUUID(kids[m][1])}
        /\ PartUUIDColumn(m) \in {None, PartUUID(m)}
    BY <1>1, <2>1, UUIDsOf
  <2> HIDE DEF uuid, P
  <2> QED
    BY <1>2, <2>1, <2>2, UUIDs
<1>4. found \in Seq(Names) /\ ToSet(found) = {n}
  <2>1. P = {n}
    BY <1>2, <1>3
  <2> HIDE DEF P
  <2> QED
    BY <1>1, <2>1, AllIsReached, AmongType
<1>5. ResolveUUID(uuid) = IF found = <<>> THEN NoName ELSE found[1]
  BY DEF ResolveUUID
<1> HIDE DEF found
<1>6. found # <<>>
  <2>1. ToSet(<<>>) = {}
    BY DEF ToSet
  <2> QED
    BY <1>4, <2>1
<1>7. found[1] \in ToSet(found)
  BY <1>4, <1>6, EmptySeq, LenProperties DEF ToSet
<1> QED
  BY <1>4, <1>5, <1>6, <1>7

\* What Mount is given by ScanUnmounted resolves to the device that was listed.
LEMMA MountResolves ==
    ASSUME TreeInv, NEW i \in DOMAIN ScanUnmounted, ScanUnmounted[i][2] # None
    PROVE  /\ ResolveUUID(ScanUnmounted[i][2]) = ScanUnmounted[i][1]
           /\ ScanUnmounted[i][1] \in Reached(kids)
           /\ content[ScanUnmounted[i][1]] = "ours" => ScanUnmounted[i][2] = FsUUID(ScanUnmounted[i][1])
<1> DEFINE n == ScanUnmounted[i][1]
<1>1. IsTree /\ TypeOK /\ ShapeInv
  BY InvTree DEF TreeInv
<1>2. ListedDevice(n) /\ ScanUnmounted[i][2] = UUIDOrPartUUID(n)
  BY <1>1, Listed
<1> HIDE DEF n
<1>3. n \in Reached(kids) /\ n \in Names /\ content[n] \in {"blank", "ours", "ext4"}
  BY <1>1, <1>2, UUIDsOf DEF ListedDevice, Plain
<1>4. content[n] = "ours" => UUIDOrPartUUID(n) = FsUUID(n)
  BY <1>1, <1>3, UUIDsOf, UUIDs DEF UUIDOrPartUUID
<1> QED
  BY <1>2, <1>3, <1>4, Resolved DEF n

\* GetUUID finds, for what the agent has mounted, the UUID it was mounted by.
LEMMA MountedUUID ==
    ASSUME TreeInv, NEW n \in Names, mounted[n] \notin {None, Root}
    PROVE  GetUUID(n) = mounted[n] /\ MountpointColumn(n) # None
<1>1. IsTree /\ TypeOK /\ content[n] = "ours" /\ mounted[n] = FsUUID(n) /\ n \in Reached(kids)
  BY InvTree DEF TreeInv, MountInv, AttachedInv
<1>2. GetBlockDevice(n) = n /\ n # NoName
  BY <1>1, AllIsReached, SearchFinds, NamesAssumption
<1>3. UUIDOrPartUUID(n) = FsUUID(n)
  BY <1>1, UUIDsOf, UUIDs DEF UUIDOrPartUUID
<1> QED
  BY <1>1, <1>2, <1>3 DEF GetUUID, MountpointColumn

-----------------------------------------------------------------------------
\* The invariant implies ListedIsResolved.
LEMMA ListedResolvesInTree ==
    ASSUME TreeInv
    PROVE  ListedIsResolved
<1>1. IsTree /\ ShapeInv
  BY InvTree DEF TreeInv
<1>2. ASSUME NEW i \in DOMAIN ScanUnmounted, NEW j \in DOMAIN ScanUnmounted
      PROVE  /\ ScanUnmounted[i][2] # None
                  => ResolveUUID(ScanUnmounted[i][2]) = ScanUnmounted[i][1]
             /\ ScanUnmounted[i][1] = ScanUnmounted[j][1] => i = j
  BY <1>1, MountResolves, Listed
<1> QED
  BY <1>2 DEF ListedIsResolved

\* The invariant implies ScannedUnderItsUUID.
LEMMA ScannedInTree ==
    ASSUME TreeInv
    PROVE  ScannedUnderItsUUID
<1> DEFINE unmounted == {<<ScanUnmounted[i][1], ScanUnmounted[i][2], "unmounted">> :
                            i \in DOMAIN ScanUnmounted}
<1>1. ScanAll = ScanMounted \cup unmounted
  BY DEF ScanAll
<1>2. ASSUME NEW a \in ScanMounted
      PROVE  /\ a[1] \in Names /\ mounted[a[1]] \notin {None, Root}
             /\ a = <<a[1], mounted[a[1]], "mounted">>
  BY MountedUUID DEF ScanMounted
<1>3. \A n \in Names : mounted[n] \notin {None, Root} => <<n, mounted[n], "mounted">> \in ScanMounted
  BY MountedUUID DEF ScanMounted
<1>4. IsTree /\ ShapeInv
  BY InvTree DEF TreeInv
<1>5. ASSUME NEW a \in unmounted
      PROVE  \E i \in DOMAIN ScanUnmounted :
                /\ a = <<ScanUnmounted[i][1], ScanUnmounted[i][2], "unmounted">>
                /\ a[1] = ScanUnmounted[i][1]
                /\ MountpointColumn(a[1]) = None
  <2>1. PICK i \in DOMAIN ScanUnmounted :
           a = <<ScanUnmounted[i][1], ScanUnmounted[i][2], "unmounted">>
    OBVIOUS
  <2>2. a[1] = ScanUnmounted[i][1]
    BY <2>1
  <2>3. MountpointColumn(ScanUnmounted[i][1]) = None
    BY <1>4, Listed DEF ListedDevice
  <2> QED
    BY <2>1, <2>2, <2>3
<1> HIDE DEF unmounted
<1>6. ASSUME NEW a \in ScanAll, NEW b \in ScanAll, a[1] = b[1]
      PROVE  a = b
  <2>1. CASE a \in ScanMounted /\ b \in ScanMounted
    BY <1>2, <1>6, <2>1
  <2>2. CASE a \in unmounted /\ b \in unmounted
    <3>1. PICK i \in DOMAIN ScanUnmounted :
             /\ a = <<ScanUnmounted[i][1], ScanUnmounted[i][2], "unmounted">>
             /\ a[1] = ScanUnmounted[i][1]
      BY <1>5, <2>2
    <3>2. PICK j \in DOMAIN ScanUnmounted :
             /\ b = <<ScanUnmounted[j][1], ScanUnmounted[j][2], "unmounted">>
             /\ b[1] = ScanUnmounted[j][1]
      BY <1>5, <2>2
    <3>3. i = j
      BY <1>4, <1>6, <3>1, <3>2, Listed
    <3> QED
      BY <3>1, <3>2, <3>3
  <2>3. ASSUME NEW x \in ScanMounted, NEW y \in unmounted, x[1] = y[1]
        PROVE  FALSE
    BY <1>2, <1>5, <2>3, MountedUUID
  <2> QED
    BY <1>1, <1>6, <2>1, <2>2, <2>3
<1> QED
  BY <1>1, <1>3, <1>6 DEF ScannedUnderItsUUID

\* With nothing on top, a device is alone.
LEMMA NothingBelow ==
    ASSUME IsTree, NEW n \in Names, kids[n] = <<>>
    PROVE  Below(n) = {n}
<1>1. Below(n) = Reach(kids, n)
  BY BelowIsReach
<1>2. ASSUME NEW m
      PROVE  m \in Reach(kids, n) <=> m = n
  BY ReachStep DEF IsTree
<1> QED
  BY <1>1, <1>2

\* What Init chooses is a disk without content and with nothing on top.
LEMMA InitFormats ==
    ASSUME NEW n \in ToSet(InitTargets), TypeOK
    PROVE  /\ n \in ToSet(Disks) /\ n \in Names
           /\ kids[n] = <<>> /\ content[n] = "blank"
<1> DEFINE P == {m \in Names :
                    /\ kids[m] = <<>>
                    /\ FSType(m) = "" /\ UUIDColumn(m) = None
                    /\ MountpointColumn(m) = None
                    /\ m \notin Small}
<1>1. InitTargets = Among(Disks, P)
  BY DEF InitTargets
<1>2. n \in ToSet(Disks) /\ n \in P
  <2> HIDE DEF P
  <2> QED
    BY <1>1, DisksAreNames, AmongType
<1> QED
  BY <1>2, UUIDsOf

\* The invariant implies FormatsOnlyFree.
LEMMA FormatsFreeInTree ==
    ASSUME TreeInv
    PROVE  FormatsOnlyFree
<1>1. ASSUME NEW n \in ToSet(InitTargets)
      PROVE  Below(n) = {n} /\ content[n] = "blank" /\ mounted[n] = None
  <2>1. n \in Names /\ kids[n] = <<>> /\ content[n] = "blank"
    BY InitFormats DEF TreeInv
  <2>2. mounted[n] = None
    BY <2>1 DEF TreeInv, MountInv
  <2> QED
    BY <2>1, <2>2, InvTree, NothingBelow
<1> QED
  BY <1>1 DEF FormatsOnlyFree

-----------------------------------------------------------------------------
\* The invariant holds at first.
LEMMA InitInv == Init => TreeInv
<1> SUFFICES ASSUME Init
             PROVE  TreeInv
  OBVIOUS
<1>1. /\ \A n \in Names : kids[n] = <<>> /\ content[n] = "blank" /\ mounted[n] = None
      /\ kids = [n \in Names |-> <<>>] /\ content = [n \in Names |-> "blank"]
      /\ mounted = [n \in Names |-> None] /\ visible \in BOOLEAN
  BY DEF Init
<1>2. TypeOK
  <2>1. <<>> \in Seq(Names)
    BY EmptySeq
  <2> QED
    BY <1>1, <2>1 DEF TypeOK
<1>3. Acyclic(kids)
  BY <1>1 DEF Acyclic
<1> QED
  BY <1>1, <1>2, <1>3, UUIDs DEF TreeInv, ShapeInv, AttachedInv, ContentInv, MountInv

\* A free device has nothing in it, on it or mounted.
LEMMA FreeFacts ==
    ASSUME TreeInv, NEW n, Free(n)
    PROVE  /\ n \in Reached(kids) /\ n \in Names
           /\ kids[n] = <<>> /\ content[n] = "blank" /\ mounted[n] = None
  BY InvTree, AllIsReached DEF Free, Reached

\* A device that hangs off no disk has nothing on it.
LEMMA Unattached ==
    ASSUME TreeInv, NEW n \in Names, n \notin ToSet(All)
    PROVE  kids[n] = <<>> /\ n \notin Reached(kids)
  BY InvTree, AllIsReached DEF TreeInv, AttachedInv

\* Putting an unused device on some others closes no circle.
LEMMA StackedIsTree ==
    ASSUME TreeInv, NEW k \in Names, kids[k] = <<>>, NEW members \in SUBSET Names, k \notin members,
           NEW more, more = [n \in Names |-> IF n \in members THEN <<k>> ELSE kids[n]]
    PROVE  more \in Lists /\ Acyclic(more)
<1>1. kids \in Lists /\ Acyclic(kids)
  BY InvTree DEF IsTree
<1>2. more \in Lists
  <2>1. <<k>> \in Seq(Names)
    OBVIOUS
  <2>2. \A n \in Names : (IF n \in members THEN <<k>> ELSE kids[n]) \in Seq(Names)
    BY <1>1, <2>1 DEF Lists
  <2> QED
    BY <2>2 DEF Lists
<1>3. ASSUME NEW T \in SUBSET Names, T # {}
      PROVE  \E n \in T : \A i \in DOMAIN more[n] : more[n][i] \notin T
  <2>1. CASE k \in T
    <3>1. more[k] = <<>>
      OBVIOUS
    <3> QED
      BY <2>1, <3>1
  <2>2. CASE k \notin T
    <3>1. PICK n \in T : \A i \in DOMAIN kids[n] : kids[n][i] \notin T
      BY <1>1, <1>3 DEF Acyclic
    <3>2. CASE n \in members
      <4>1. more[n] = <<k>>
        BY <3>2
      <4>2. \A i \in DOMAIN <<k>> : <<k>>[i] = k
        OBVIOUS
      <4>3. \A i \in DOMAIN more[n] : more[n][i] \notin T
        BY <2>2, <4>1, <4>2
      <4> QED
        BY <4>3
    <3>3. CASE n \notin members
      BY <3>1, <3>3
    <3> QED
      BY <3>2, <3>3
  <2> QED
    BY <2>1, <2>2
<1> QED
  BY <1>2, <1>3 DEF Acyclic

\* Partitioning a disk closes no circle: disks are on top of nothing.
LEMMA PartitionedIsTree ==
    ASSUME TreeInv, NEW d \in Names, Type[d] = "disk",
           NEW more, more = [kids EXCEPT ![d] = PartsOf[d]]
    PROVE  more \in Lists /\ Acyclic(more)
<1>1. kids \in Lists /\ Acyclic(kids) /\ IsTree /\ ShapeInv
  BY InvTree DEF IsTree, TreeInv
<1>2. /\ more \in Lists /\ more[d] = PartsOf[d]
      /\ \A n \in Names : n # d => more[n] = kids[n]
  BY <1>1, PartFacts DEF Lists
<1>3. \A n \in Names : \A i \in DOMAIN more[n] : more[n][i] # d
  <2>1. \A n \in Names : \A i \in DOMAIN kids[n] : kids[n][i] # d
    BY <1>1, KidTypes
  <2>2. \A i \in DOMAIN PartsOf[d] : PartsOf[d][i] # d
    BY PartFacts
  <2> QED
    BY <1>2, <2>1, <2>2
<1>4. ASSUME NEW T \in SUBSET Names, T # {}
      PROVE  \E n \in T : \A i \in DOMAIN more[n] : more[n][i] \notin T
  <2>1. CASE T \ {d} = {}
    BY <1>3, <1>4, <2>1
  <2>2. CASE T \ {d} # {}
    <3>1. PICK n \in T \ {d} : \A i \in DOMAIN kids[n] : kids[n][i] \notin T \ {d}
      BY <1>1, <2>2 DEF Acyclic
    <3>2. more[n] = kids[n]
      BY <1>2
    <3> QED
      BY <1>3, <3>1, <3>2
  <2> QED
    BY <2>1, <2>2
<1> QED
  BY <1>2, <1>4 DEF Acyclic

-----------------------------------------------------------------------------
\* Partition keeps the invariant.
LEMMA PartitionInv ==
    ASSUME TreeInv, NEW d \in Names, Partition(d)
    PROVE  TreeInv'
<1>1. /\ d \in Reached(kids) /\ kids[d] = <<>> /\ content[d] = "blank" /\ mounted[d] = None
      /\ Type[d] = "disk"
      /\ kids' = [kids EXCEPT ![d] = PartsOf[d]]
      /\ content' = content /\ mounted' = mounted /\ visible' = visible
  BY FreeFacts DEF Partition
<1>2. kids' \in Lists /\ Acyclic(kids') /\ kids \in Lists
  BY <1>1, PartitionedIsTree, InvTree DEF IsTree
<1>3. kids'[d] = PartsOf[d] /\ \A n \in Names : n # d => kids'[n] = kids[n]
  BY <1>1, <1>2 DEF Lists
<1>4. TypeOK'
  BY <1>1, <1>2 DEF TreeInv, TypeOK, Lists
<1>5. ShapeInv'
  BY <1>1, <1>3 DEF TreeInv, ShapeInv
<1>6. AttachedInv'
  <2>1. Reached(kids) \subseteq Reached(kids')
    BY <1>1, <1>2, <1>3, ReachedGrows
  <2> QED
    BY <1>1, <1>3, <2>1 DEF TreeInv, AttachedInv
<1>7. ContentInv'
  BY <1>1, <1>3 DEF TreeInv, ContentInv
<1>8. MountInv'
  BY <1>1 DEF TreeInv, MountInv
<1> QED
  BY <1>2, <1>4, <1>5, <1>6, <1>7, <1>8 DEF TreeInv

\* A device comes on top of some free ones.
LEMMA StackInv ==
    ASSUME TreeInv, NEW k \in Names, Type[k] \in {"raid1", "crypt"}, k \notin ToSet(All),
           NEW members \in SUBSET Names, \A n \in members : Free(n),
           kids' = [n \in Names |-> IF n \in members THEN <<k>> ELSE kids[n]],
           NEW kind \in {"blank", "member"},
           content' = [n \in Names |-> IF n \in members THEN kind ELSE content[n]],
           mounted' = mounted, visible' = visible
    PROVE  TreeInv'
<1>1. \A n \in members : /\ n \in Reached(kids) /\ kids[n] = <<>>
                         /\ content[n] = "blank" /\ mounted[n] = None
  BY FreeFacts
<1>2. kids[k] = <<>> /\ k \notin members
  BY <1>1, Unattached
<1>3. kids' \in Lists /\ Acyclic(kids') /\ kids \in Lists
  BY <1>2, StackedIsTree, InvTree DEF IsTree
<1>4. \A n \in Names : /\ n \in members => kids'[n] = <<k>> /\ content'[n] = kind
                       /\ n \notin members => kids'[n] = kids[n] /\ content'[n] = content[n]
  OBVIOUS
<1>5. TypeOK'
  BY <1>3 DEF TreeInv, TypeOK, Lists
<1>6. ShapeInv'
  BY <1>4 DEF TreeInv, ShapeInv
<1>7. AttachedInv'
  <2>1. Reached(kids) \subseteq Reached(kids')
    BY <1>1, <1>3, <1>4, ReachedGrows
  <2> QED
    BY <1>1, <1>4, <2>1 DEF TreeInv, AttachedInv
<1>8. ContentInv'
  <2>1. <<k>> # <<>>
    OBVIOUS
  <2> QED
    BY <1>4, <2>1 DEF TreeInv, ContentInv
<1>9. MountInv'
  BY <1>1, <1>4, UUIDs DEF TreeInv, MountInv
<1> QED
  BY <1>3, <1>5, <1>6, <1>7, <1>8, <1>9 DEF TreeInv

\* Assemble keeps the invariant.
LEMMA AssembleInv ==
    ASSUME TreeInv, NEW md \in Names, NEW members \in SUBSET Names, Assemble(md, members)
    PROVE  TreeInv'
  BY StackInv DEF Assemble

\* Encrypt keeps the invariant.
LEMMA EncryptInv ==
    ASSUME TreeInv, NEW c \in Names, NEW n \in Names, Encrypt(c, n)
    PROVE  TreeInv'
<1>1. /\ Type[c] = "crypt" /\ c \notin ToSet(All) /\ Free(n)
      /\ kids' = [kids EXCEPT ![n] = <<c>>]
      /\ content' = content /\ mounted' = mounted /\ visible' = visible
  BY DEF Encrypt
<1>2. content[n] = "blank"
  BY <1>1, FreeFacts
<1>3. TypeOK
  BY DEF TreeInv
<1>4. kids' = [m \in Names |-> IF m \in {n} THEN <<c>> ELSE kids[m]]
  BY <1>1, <1>3 DEF TypeOK
<1>5. content' = [m \in Names |-> IF m \in {n} THEN "blank" ELSE content[m]]
  BY <1>1, <1>2, <1>3 DEF TypeOK
<1>6. {n} \in SUBSET Names /\ "blank" \in {"blank", "member"} /\ \A m \in {n} : Free(m)
  BY <1>1
<1>7. Type[c] \in {"raid1", "crypt"}
  BY <1>1
<1> QED
  BY <1>1, <1>4, <1>5, <1>6, <1>7, StackInv

\* Format keeps the invariant.
LEMMA FormatInv ==
    ASSUME TreeInv, NEW n \in Names, NEW kind \in {"ours", "ext4", "xfs"}, Format(n, kind)
    PROVE  TreeInv'
<1>1. /\ n \in Reached(kids) /\ kids[n] = <<>> /\ content[n] = "blank" /\ mounted[n] = None
      /\ content' = [content EXCEPT ![n] = kind]
      /\ kids' = kids /\ mounted' = mounted /\ visible' = visible
  BY FreeFacts DEF Format
<1>2. TypeOK' /\ content'[n] = kind /\ \A m \in Names : m # n => content'[m] = content[m]
  BY <1>1 DEF TreeInv, TypeOK
<1>3. ShapeInv' /\ AttachedInv' /\ ContentInv'
  BY <1>1, <1>2 DEF TreeInv, ShapeInv, AttachedInv, ContentInv
<1>4. MountInv'
  BY <1>1, <1>2, UUIDs DEF TreeInv, MountInv
<1> QED
  BY <1>1, <1>2, <1>3, <1>4 DEF TreeInv

\* MountRoot keeps the invariant.
LEMMA MountRootInv ==
    ASSUME TreeInv, NEW n \in Names, MountRoot(n)
    PROVE  TreeInv'
<1>1. /\ content[n] \in {"ext4", "xfs"} /\ mounted[n] = None
      /\ \A m \in Names : mounted[m] # Root
      /\ mounted' = [mounted EXCEPT ![n] = Root]
      /\ kids' = kids /\ content' = content /\ visible' = visible
  BY DEF MountRoot
<1>2. TypeOK' /\ mounted'[n] = Root /\ \A m \in Names : m # n => mounted'[m] = mounted[m]
  BY <1>1 DEF TreeInv, TypeOK
<1>3. MountInv'
  BY <1>1, <1>2 DEF TreeInv, MountInv
<1> QED
  BY <1>1, <1>2, <1>3 DEF TreeInv, ShapeInv, AttachedInv, ContentInv

\* FormatTargets keeps the invariant.
LEMMA FormatTargetsInv ==
    ASSUME TreeInv, FormatTargets
    PROVE  TreeInv'
<1> DEFINE targets == ToSet(InitTargets)
<1>1. /\ content' = [n \in Names |-> IF n \in targets THEN "ours" ELSE content[n]]
      /\ kids' = kids /\ mounted' = mounted /\ visible' = visible
  BY DEF FormatTargets
<1>2. \A n \in targets : /\ n \in Reached(kids) /\ n \in Names
                         /\ kids[n] = <<>> /\ content[n] = "blank"
  BY InitFormats, ReachedClosed, InvTree DEF TreeInv, IsTree
<1>3. \A n \in targets : mounted[n] = None
  BY <1>2 DEF TreeInv, MountInv
<1> HIDE DEF targets
<1>4. /\ TypeOK'
      /\ \A n \in Names : content'[n] = IF n \in targets THEN "ours" ELSE content[n]
  BY <1>1 DEF TreeInv, TypeOK
<1>5. ShapeInv' /\ AttachedInv' /\ ContentInv'
  BY <1>1, <1>2, <1>4 DEF TreeInv, ShapeInv, AttachedInv, ContentInv
<1>6. MountInv'
  BY <1>1, <1>3, <1>4, UUIDs DEF TreeInv, MountInv
<1> QED
  BY <1>1, <1>4, <1>5, <1>6 DEF TreeInv

\* Mount mounts the device that was listed, at the directory of its UUID, and
\* only with our label and past the root-disk guard.
LEMMA MountListedFacts ==
    ASSUME TreeInv, NEW i \in 1..Len(ScanUnmounted), MountListed(i)
    PROVE  LET n == ScanUnmounted[i][1] IN
           /\ n \in Names /\ content[n] = "ours" /\ ~RefusedAsRoot(n)
           /\ mounted' = [mounted EXCEPT ![n] = FsUUID(n)]
<1>1. i \in DOMAIN ScanUnmounted
  BY InvTree, Listed DEF TreeInv
<1>2. ScanUnmounted[i][2] # None
  BY DEF MountListed
<1>3. /\ ResolveUUID(ScanUnmounted[i][2]) = ScanUnmounted[i][1]
      /\ ScanUnmounted[i][1] \in Names
      /\ content[ScanUnmounted[i][1]] = "ours" => ScanUnmounted[i][2] = FsUUID(ScanUnmounted[i][1])
  BY <1>1, <1>2, MountResolves DEF Reached
<1> QED
  BY <1>3 DEF MountListed, HasOurLabel

\* MountListed keeps the invariant.
LEMMA MountListedInv ==
    ASSUME TreeInv, NEW i \in 1..Len(ScanUnmounted), MountListed(i)
    PROVE  TreeInv'
<1>1. PICK n \in Names : /\ content[n] = "ours"
                         /\ mounted' = [mounted EXCEPT ![n] = FsUUID(n)]
  BY MountListedFacts
<1>2. kids' = kids /\ content' = content /\ visible' = visible
  BY DEF MountListed
<1>3. TypeOK' /\ mounted'[n] = FsUUID(n) /\ \A m \in Names : m # n => mounted'[m] = mounted[m]
  BY <1>1, <1>2 DEF TreeInv, TypeOK
<1>4. MountInv'
  BY <1>1, <1>2, <1>3, UUIDs DEF TreeInv, MountInv
<1> QED
  BY <1>2, <1>3, <1>4 DEF TreeInv, ShapeInv, AttachedInv, ContentInv

\* Unmount keeps the invariant.
LEMMA UnmountInv ==
    ASSUME TreeInv, NEW n \in Names, Unmount(n)
    PROVE  TreeInv'
<1>1. /\ mounted' = [mounted EXCEPT ![n] = None]
      /\ kids' = kids /\ content' = content /\ visible' = visible
  BY DEF Unmount
<1>2. TypeOK' /\ mounted'[n] = None /\ \A m \in Names : m # n => mounted'[m] = mounted[m]
  BY <1>1 DEF TreeInv, TypeOK
<1>3. MountInv'
  BY <1>1, <1>2, UUIDs DEF TreeInv, MountInv
<1> QED
  BY <1>1, <1>2, <1>3 DEF TreeInv, ShapeInv, AttachedInv, ContentInv

\* Every step keeps the invariant.
LEMMA NextInv == TreeInv /\ [Next]_vars => TreeInv'
<1> SUFFICES ASSUME TreeInv, [Next]_vars
             PROVE  TreeInv'
  OBVIOUS
<1>1. CASE \E d \in Names : Partition(d)
  BY <1>1, PartitionInv
<1>2. CASE \E md, m, n \in Names : Assemble(md, {m, n})
  <2>1. PICK md \in Names, m \in Names, n \in Names : Assemble(md, {m, n})
    BY <1>2
  <2>2. {m, n} \in SUBSET Names
    OBVIOUS
  <2> QED
    BY <2>1, <2>2, AssembleInv
<1>3. CASE \E c, n \in Names : Encrypt(c, n)
  BY <1>3, EncryptInv
<1>4. CASE \E n \in Names, kind \in {"ours", "ext4", "xfs"} : Format(n, kind)
  BY <1>4, FormatInv
<1>5. CASE \E n \in Names : MountRoot(n)
  BY <1>5, MountRootInv
<1>6. CASE FormatTargets
  BY <1>6, FormatTargetsInv
<1>7. CASE \E i \in 1..Len(ScanUnmounted) : MountListed(i)
  BY <1>7, MountListedInv
<1>8. CASE \E n \in Names : Unmount(n)
  BY <1>8, UnmountInv
<1>9. CASE UNCHANGED vars
  BY <1>9 DEF vars, TreeInv, TypeOK, ShapeInv, AttachedInv, ContentInv, MountInv
<1> QED
  BY <1>1, <1>2, <1>3, <1>4, <1>5, <1>6, <1>7, <1>8, <1>9 DEF Next

-----------------------------------------------------------------------------
\* The invariant always holds.
LEMMA InvAlways == Spec => []TreeInv
  BY InitInv, NextInv, PTL DEF Spec

\* Every variable always has its type; every mount is at the directory of a
\* filesystem UUID.
THEOREM DeviceTreeTypeCorrect == Spec => []TypeOK
<1>1. TreeInv => TypeOK
  BY DEF TreeInv
<1> QED
  BY <1>1, InvAlways, PTL

\* A disk that Init formats carries nothing, itself or in anything stacked on
\* it, however devices were partitioned, assembled, encrypted or mounted before.
THEOREM FormatsOnlyFreeAlways == Spec => []FormatsOnlyFree
  BY InvAlways, FormatsFreeInTree, PTL

\* ScanUnmounted lists each device once, and the UUID it lists leads Mount
\* back to that device.
THEOREM ListedIsResolvedAlways == Spec => []ListedIsResolved
  BY InvAlways, ListedResolvesInTree, PTL

\* ScanMounted reports each of the agent's mounts with the UUID its directory
\* is named after, and ScanAll no device twice.
THEOREM ScannedUnderItsUUIDAlways == Spec => []ScannedUnderItsUUID
  BY InvAlways, ScannedInTree, PTL

\* On every tree that can be built, GetBlockDevices selects from the flat list
\* exactly what passes, for every filter that never stops and for every And, Or
\* and Not of such filters.
THEOREM CombinedFiltersSelectAlways == Spec => []CombinedFiltersSelect
  BY InvAlways, InvTree, CombinedFiltersSelectOnTrees, PTL

\* On every tree that can be built, GetBlockDevices selects from the flat list
\* by the filters and combinations that FiltersSelect names; an And of the two
\* is the one applied to what the other selects, Not of it their Or of Nots;
\* and a search by name finds the device if it is there.
THEOREM FiltersSelectAlways == Spec => []FiltersSelect
  BY InvAlways, InvTree, FiltersSelectOnTrees, PTL

\* The source of "/" in mountinfo is the device "/" is on.
LEMMA RootIsSeen ==
    ASSUME TreeInv, visible, NEW r \in Names, mounted[r] = Root
    PROVE  RootSource = r
<1>1. \A n \in Names : mounted[n] = Root => n = r
  BY DEF TreeInv, MountInv
<1> QED
  BY <1>1 DEF RootSource

\* The one disk below a device.
LEMMA OneHost ==
    ASSUME NEW r, Cardinality(DisksOf(r)) = 1
    PROVE  \E h : DisksOf(r) = {h}
<1>1. IsFiniteSet(1..Len(Disks))
  BY DisksAreNames, FS_Interval
<1>2. Disks \in Surjection(1..Len(Disks), ToSet(Disks))
  BY DisksAreNames DEF Surjection, ToSet
<1>3. IsFiniteSet(ToSet(Disks))
  BY <1>1, <1>2, FS_Surjection
<1>4. IsFiniteSet(DisksOf(r))
  BY <1>3, FS_Subset DEF DisksOf
<1> QED
  BY <1>4, FS_Singleton

\* What the root-disk guard lets pass shares no disk with "/", if "/" is on one.
LEMMA RefusedOnRootDisk ==
    ASSUME TreeInv, visible, NEW r \in Names, mounted[r] = Root, Cardinality(DisksOf(r)) = 1,
           NEW n, ~RefusedAsRoot(n)
    PROVE  DisksOf(n) \cap DisksOf(r) = {}
<1> DEFINE P == {d \in ToSet(Disks) : r \in Below(d)}
           hosts == Among(Disks, P)
<1>1. PICK h : DisksOf(r) = {h}
  BY OneHost
<1>2. P = {h}
  BY <1>1 DEF DisksOf
<1>3. FindRootDiskDescendants(RootSource) = IF hosts = <<>> THEN {} ELSE Below(hosts[1])
  BY RootIsSeen DEF FindRootDiskDescendants
<1> HIDE DEF P
<1>4. hosts \in Seq(Names) /\ ToSet(hosts) = ToSet(Disks) \cap {h}
  BY <1>2, DisksAreNames, AmongType
<1>5. h \in ToSet(Disks)
  BY <1>1 DEF DisksOf
<1> HIDE DEF hosts
<1>6. hosts # <<>> /\ hosts[1] \in ToSet(hosts)
  <2>1. ToSet(<<>>) = {}
    BY DEF ToSet
  <2> QED
    BY <1>4, <1>5, <2>1, EmptySeq, LenProperties DEF ToSet
<1>7. n \notin Below(h)
  BY <1>3, <1>4, <1>6 DEF RefusedAsRoot
<1> QED
  BY <1>1, <1>7 DEF DisksOf

\* What MountsOnlyManaged asks of a device that is mounted.
Managed(n) ==
    /\ content[n] = "ours" /\ ~InUse(n)
    /\ \A r \in Names :
          visible /\ mounted[r] = Root /\ Cardinality(DisksOf(r)) = 1
             => DisksOf(n) \cap DisksOf(r) = {}

\* Only MountListed makes such a mount, and only of such a device.
LEMMA MountsManaged ==
    ASSUME TreeInv, [Next]_vars, NEW n \in Names,
           mounted[n] = None, mounted'[n] \notin {None, Root}
    PROVE  Managed(n)
<1>1. \E i \in 1..Len(ScanUnmounted) : MountListed(i) /\ n = ScanUnmounted[i][1]
  <2>1. mounted' # mounted
    OBVIOUS
  <2>2. ASSUME NEW m \in Names, MountRoot(m)
        PROVE  FALSE
    <3>1. mounted' = [mounted EXCEPT ![m] = Root]
      BY <2>2 DEF MountRoot
    <3> QED
      BY <3>1 DEF TreeInv, TypeOK
  <2>3. ASSUME NEW m \in Names, Unmount(m)
        PROVE  FALSE
    <3>1. mounted' = [mounted EXCEPT ![m] = None]
      BY <2>3 DEF Unmount
    <3> QED
      BY <3>1 DEF TreeInv, TypeOK
  <2>4. \E i \in 1..Len(ScanUnmounted) : MountListed(i)
    BY <2>1, <2>2, <2>3
    DEF Next, vars, Partition, Assemble, Encrypt, Format, FormatTargets
  <2>5. PICK i \in 1..Len(ScanUnmounted) : MountListed(i)
    BY <2>4
  <2>6. mounted' = [mounted EXCEPT ![ScanUnmounted[i][1]] = FsUUID(ScanUnmounted[i][1])]
    BY <2>5, MountListedFacts
  <2>7. n = ScanUnmounted[i][1]
    BY <2>6 DEF TreeInv, TypeOK
  <2> QED
    BY <2>5, <2>7
<1>2. content[n] = "ours" /\ ~RefusedAsRoot(n)
  BY <1>1, MountListedFacts
<1>3. Below(n) = {n}
  <2>1. kids[n] = <<>>
    BY <1>2 DEF TreeInv, ContentInv
  <2> QED
    BY <2>1, InvTree, NothingBelow
<1> QED
  BY <1>2, <1>3, RefusedOnRootDisk DEF Managed, InUse

\* The agent mounts only filesystems with its label, with nothing in use on
\* top, and, if "/" is seen and on one disk, nothing that shares that disk.
THEOREM MountsOnlyManagedAlways == Spec => MountsOnlyManaged
<1>1. TreeInv /\ [Next]_vars =>
         [\A n \in Names : mounted[n] = None /\ mounted'[n] \notin {None, Root} =>
             /\ content[n] = "ours" /\ ~InUse(n)
             /\ \A r \in Names :
                   visible /\ mounted[r] = Root /\ Cardinality(DisksOf(r)) = 1
                      => DisksOf(n) \cap DisksOf(r) = {}]_vars
  BY MountsManaged DEF Managed
<1> QED
  BY <1>1, InvAlways, PTL DEF Spec, MountsOnlyManaged
=============================================================================
