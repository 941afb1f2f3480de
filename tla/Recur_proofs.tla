---------------------------- MODULE Recur_proofs ----------------------------
(***************************************************************************)
(* Proofs about module Recur, for any file system, limits and caller, while*)
(* leaves are unlinked all the time: the variables keep their types        *)
(* (WalkTypes), the path name agrees with the stack of open directories    *)
(* (NamesAreRight), and a walk that ends has missed nothing                *)
(* (WalkIsComplete).  A walk over paths apart from each other returns      *)
(* nothing twice (NothingTwice).                                           *)
(***************************************************************************)
EXTENDS Recur, SequenceTheorems, TLAPS

WalkStep == RecurNext \/ Caller \/ Others

(***************************************************************************)
(* Types.                                                                  *)
(***************************************************************************)

\* present only ever shrinks.
LEMMA PresentShrinks == ASSUME [WalkStep]_recurVars PROVE present' \subseteq present
  BY DEF WalkStep, recurVars, RecurNext, OpenPath, PathIsItem, PathMissing, PathsDone,
         DirectoryDone, SkipEntry, EnterDirectory, ReturnEntry, Caller, Others, Unlink

\* A sequence without its last element.
LEMMA Shortened ==
    ASSUME NEW S, NEW s \in Seq(S)
    PROVE  /\ SubSeq(s, 1, Len(s) - 1) \in Seq(S)
           /\ s # <<>> => Len(SubSeq(s, 1, Len(s) - 1)) = Len(s) - 1
           /\ \A i \in 1..Len(s) - 1 : SubSeq(s, 1, Len(s) - 1)[i] = s[i]
  <1>1. Len(s) \in Nat /\ (s # <<>> => Len(s) # 0)
    BY LenProperties, EmptySeq
  <1>2. \A i \in 1..Len(s) - 1 : s[i] \in S
    BY <1>1, ElementOfSeq
  <1> DEFINE t == SubSeq(s, 1, Len(s) - 1)
  <1>3. /\ t \in Seq(S)
        /\ Len(t) = IF 1 <= Len(s) - 1 THEN (Len(s) - 1) - 1 + 1 ELSE 0
        /\ \A i \in 1..(Len(s) - 1) - 1 + 1 : t[i] = s[1 + i - 1]
    BY <1>1, <1>2, SubSeqProperties
  <1> HIDE DEF t
  <1>4. ASSUME s # <<>> PROVE Len(t) = Len(s) - 1
    <2>1. \A n \in Nat \ {0} : n - 1 = IF 1 <= n - 1 THEN (n - 1) - 1 + 1 ELSE 0
      OBVIOUS
    <2> QED
      BY <1>1, <1>3, <1>4, <2>1, Zenon
  <1>5. ASSUME NEW i \in 1..Len(s) - 1 PROVE t[i] = s[i]
    <2>1. i \in 1..(Len(s) - 1) - 1 + 1 /\ 1 + i - 1 = i
      BY <1>1
    <2> QED
      BY <1>3, <2>1
  <1> QED
    BY <1>3, <1>4, <1>5 DEF t

\* Names below a listed directory, and the listing itself, consist of nodes.
LEMMA EntryTypes ==
    ASSUME RecurTypeOK, Reading, NEW e \in Top.left
    PROVE  /\ e \in Nodes
           /\ FullName(e) \in Seq(Nodes)
           /\ Without(e) \in Seq([dir : Nodes, left : SUBSET Nodes])
           /\ Len(Without(e)) = Len(stack)
           /\ \A i \in 1..Len(stack) :
                 /\ Without(e)[i].dir = stack[i].dir
                 /\ stack[i].left \ {e} \subseteq Without(e)[i].left
                 /\ i # Len(stack) => Without(e)[i] = stack[i]
  <1>1. Len(stack) \in 1..Len(stack)
    BY EmptySeq, LenProperties DEF RecurTypeOK, Reading
  <1>2. Top \in [dir : Nodes, left : SUBSET Nodes]
    BY <1>1, ElementOfSeq DEF RecurTypeOK, Top, Last
  <1>3. e \in Nodes
    BY <1>2
  <1>4. FullName(e) \in Seq(Nodes)
    BY <1>3, AppendProperties DEF FullName, RecurTypeOK
  <1> DEFINE new == [Top EXCEPT !.left = @ \ {e}]
  <1>5. new \in [dir : Nodes, left : SUBSET Nodes]
    BY <1>2
  <1>6. Without(e) = [stack EXCEPT ![Len(stack)] = new]
    BY <1>1 DEF Without, Top, Last
  <1> HIDE DEF new
  <1>7. /\ Without(e) \in Seq([dir : Nodes, left : SUBSET Nodes])
        /\ Len(Without(e)) = Len(stack)
        /\ \A i \in 1..Len(stack) : Without(e)[i] =
             IF i = Len(stack) THEN new ELSE stack[i]
    BY <1>1, <1>5, <1>6, ExceptSeq DEF RecurTypeOK
  <1>8. ASSUME NEW i \in 1..Len(stack)
        PROVE  /\ Without(e)[i].dir = stack[i].dir
               /\ stack[i].left \ {e} \subseteq Without(e)[i].left
               /\ i # Len(stack) => Without(e)[i] = stack[i]
    <2>1. CASE i = Len(stack)
      BY <1>2, <1>7, <2>1 DEF Top, Last, new
    <2>2. CASE i # Len(stack)
      BY <1>7, <2>2
    <2> QED
      BY <2>1, <2>2
  <1> QED
    BY <1>3, <1>4, <1>7, <1>8

\* A directory that opens is listed by nodes.
LEMMA ListingType ==
    ASSUME RecurTypeOK, NEW n, Opens(n)
    PROVE  n \in Nodes /\ Listing(Follow(n)) \in [dir : Nodes, left : SUBSET Nodes]
  BY DEF RecurTypeOK, Opens, Listing, Children

LEMMA TypeStep == ASSUME RecurTypeOK, [WalkStep]_recurVars PROVE RecurTypeOK'
  <1> USE DEF RecurTypeOK
  <1>0. present' \subseteq Nodes
    BY PresentShrinks
  <1>1. CASE OpenPath
    <2>1. Head(list) \in Nodes /\ Tail(list) \in Seq(Nodes)
      BY <1>1, HeadTailProperties DEF OpenPath, AtPath
    <2>2. Listing(Follow(Head(list))) \in [dir : Nodes, left : SUBSET Nodes]
      BY <1>1, ListingType DEF OpenPath
    <2> QED
      BY <1>0, <1>1, <2>1, <2>2 DEF OpenPath
  <1>2. CASE PathIsItem
    <2>1. Head(list) \in Nodes /\ Tail(list) \in Seq(Nodes)
      BY <1>2, HeadTailProperties DEF PathIsItem, AtPath
    <2>2. <<Head(list)>> \in Seq(Nodes)
      BY <2>1
    <2>3. name' \in Seq(Nodes) /\ returned' \subseteq Seq(Nodes)
      BY <1>2, <2>2 DEF PathIsItem, Returns
    <2> QED
      BY <1>0, <1>2, <2>1, <2>3 DEF PathIsItem, Returns
  <1>3. CASE PathMissing
    <2>1. Tail(list) \in Seq(Nodes)
      BY <1>3, HeadTailProperties DEF PathMissing, AtPath
    <2> QED
      BY <1>0, <1>3, <2>1 DEF PathMissing
  <1>4. CASE PathsDone
    BY <1>0, <1>4 DEF PathsDone
  <1>5. CASE DirectoryDone
    <2>1. stack # <<>>
      BY <1>5 DEF DirectoryDone, Reading
    <2>2. SubSeq(stack, 1, Len(stack) - 1) \in Seq([dir : Nodes, left : SUBSET Nodes])
      BY Shortened
    <2>3. ParentDir(prefix) \in Seq(Nodes)
      BY Shortened DEF ParentDir
    <2> QED
      BY <1>0, <1>5, <2>2, <2>3 DEF DirectoryDone
  <1>6. CASE SkipEntry
    BY <1>0, <1>6, EntryTypes DEF SkipEntry
  <1>7. CASE EnterDirectory
    <2>1. PICK e \in Top.left :
              /\ Opens(e)
              /\ stack' = Append(Without(e), Listing(Follow(e)))
              /\ prefix' = FullName(e)
              /\ Returns(FullName(e))
      BY <1>7 DEF EnterDirectory
    <2>2. /\ FullName(e) \in Seq(Nodes)
          /\ Without(e) \in Seq([dir : Nodes, left : SUBSET Nodes])
      BY <1>7, EntryTypes DEF EnterDirectory
    <2>3. Listing(Follow(e)) \in [dir : Nodes, left : SUBSET Nodes]
      BY <2>1, ListingType
    <2>4. stack' \in Seq([dir : Nodes, left : SUBSET Nodes])
      BY <2>1, <2>2, <2>3, AppendProperties
    <2> QED
      BY <1>0, <1>7, <2>1, <2>2, <2>4 DEF EnterDirectory, Returns
  <1>8. CASE ReturnEntry
    BY <1>0, <1>8, EntryTypes DEF ReturnEntry, Returns
  <1>9. CASE Caller
    <2>1. CASE RecurOpen
      BY <1>0, <2>1 DEF RecurOpen
    <2>2. CASE RecurCall
      BY <1>0, <2>2 DEF RecurCall
    <2>3. CASE RecurClose
      BY <1>0, <2>3 DEF RecurClose
    <2> QED
      BY <1>9, <2>1, <2>2, <2>3 DEF Caller
  <1>10. CASE Others
    BY <1>0, <1>10 DEF Others
  <1>11. CASE UNCHANGED recurVars
    BY <1>11 DEF recurVars
  <1> QED
    BY <1>1, <1>2, <1>3, <1>4, <1>5, <1>6, <1>7, <1>8, <1>9, <1>10, <1>11 DEF WalkStep, RecurNext

\* The variables of the walk keep their types.
THEOREM WalkTypes == RecurSpec => []RecurTypeOK
  <1>1. RecurInit => RecurTypeOK
    BY DEF RecurInit, RecurTypeOK
  <1> QED
    BY <1>1, TypeStep, PTL DEF RecurSpec, WalkStep

(***************************************************************************)
(* The path name and the stack.                                            *)
(***************************************************************************)

LEMMA NamesStep ==
    ASSUME RecurTypeOK, PrefixNamesTheStack, [WalkStep]_recurVars
    PROVE  PrefixNamesTheStack'
  <1> USE DEF PrefixNamesTheStack
  <1>0. /\ Len(stack) \in Nat /\ DOMAIN stack = 1..Len(stack)
        /\ (stack # <<>> => Len(stack) # 0)
        /\ MaxDepth \in Nat \ {0}
    BY LenProperties, EmptySeq, LimitAssumption DEF RecurTypeOK
  <1>1. CASE OpenPath
    <2>1. stack' = <<Listing(Follow(Head(list)))>> /\ prefix' = <<Head(list)>>
      BY <1>1 DEF OpenPath
    <2>2. Len(stack') = 1 /\ Len(prefix') = 1 /\ DOMAIN stack' = {1}
      BY <2>1
    <2>3. stack'[1].dir = Follow(prefix'[1])
      BY <2>1 DEF Listing
    <2> QED
      BY <1>0, <2>2, <2>3
  <1>2. CASE DirectoryDone
    <2>1. stack # <<>> /\ stack' = SubSeq(stack, 1, Len(stack) - 1)
      BY <1>2 DEF DirectoryDone, Reading
    <2>2. CASE Len(stack) = 1
      <3>1. stack' = <<>>
        BY <2>1, <2>2, SubSeqEmpty
      <3> QED
        BY <3>1
    <2>3. CASE Len(stack) # 1
      <3>1. prefix' = SubSeq(prefix, 1, Len(prefix) - 1)
        BY <1>2, <2>3 DEF DirectoryDone, ParentDir
      <3>2. prefix # <<>> /\ Len(prefix) = Len(stack)
        BY <1>0, <2>1, EmptySeq
      <3>3. /\ Len(stack') = Len(stack) - 1
            /\ \A i \in 1..Len(stack) - 1 : stack'[i] = stack[i]
        BY <2>1, Shortened DEF RecurTypeOK
      <3>4. /\ Len(prefix') = Len(stack) - 1
            /\ \A i \in 1..Len(stack) - 1 : prefix'[i] = prefix[i]
        BY <3>1, <3>2, Shortened DEF RecurTypeOK
      <3>5. DOMAIN stack' = 1..Len(stack) - 1
        BY <2>1, <3>3, Shortened, LenProperties DEF RecurTypeOK
      <3>6. Len(stack') <= MaxDepth
        BY <1>0, <2>1, <3>3
      <3>7. \A i \in DOMAIN stack' : stack'[i].dir = Follow(prefix'[i])
        <4>1. \A i \in 1..Len(stack) - 1 : i \in DOMAIN stack
          BY <1>0
        <4> QED
          BY <2>1, <3>3, <3>4, <3>5, <4>1
      <3> QED
        BY <3>3, <3>4, <3>6, <3>7
    <2> QED
      BY <2>2, <2>3
  <1>3. ASSUME NEW e \in Top.left, Reading, stack' = Without(e), prefix' = prefix
        PROVE  PrefixNamesTheStack'
    <2>1. /\ Len(stack') = Len(stack)
          /\ DOMAIN stack' = 1..Len(stack)
          /\ \A i \in 1..Len(stack) : stack'[i].dir = stack[i].dir
      BY <1>3, EntryTypes, LenProperties
    <2> QED
      BY <1>0, <1>3, <2>1 DEF Reading
  <1>4. CASE EnterDirectory
    <2>1. PICK e \in Top.left :
              /\ Fits /\ Opens(e)
              /\ stack' = Append(Without(e), Listing(Follow(e)))
              /\ prefix' = Append(prefix, e)
      BY <1>4 DEF EnterDirectory, FullName
    <2>2. Reading
      BY <1>4 DEF EnterDirectory
    <2>3. /\ Without(e) \in Seq([dir : Nodes, left : SUBSET Nodes])
          /\ Len(Without(e)) = Len(stack)
          /\ \A i \in 1..Len(stack) : Without(e)[i].dir = stack[i].dir
          /\ e \in Nodes
      BY <2>2, EntryTypes
    <2>4. Listing(Follow(e)) \in [dir : Nodes, left : SUBSET Nodes]
      BY <2>1, ListingType
    <2>5. /\ stack' \in Seq([dir : Nodes, left : SUBSET Nodes])
          /\ Len(stack') = Len(stack) + 1
          /\ \A i \in 1..Len(stack) : stack'[i] = Without(e)[i]
          /\ stack'[Len(stack) + 1] = Listing(Follow(e))
      BY <2>1, <2>3, <2>4, AppendProperties
    <2>6. Len(prefix) = Len(stack)
      BY <2>2 DEF Reading
    <2>7. /\ Len(prefix') = Len(stack) + 1
          /\ \A i \in 1..Len(stack) : prefix'[i] = prefix[i]
          /\ prefix'[Len(stack) + 1] = e
      BY <2>1, <2>3, <2>6, AppendProperties DEF RecurTypeOK
    <2>8. DOMAIN stack' = 1..Len(stack) + 1
      BY <2>5, LenProperties
    <2>9. \A i \in 1..Len(stack) : stack'[i].dir = Follow(prefix'[i])
      BY <1>0, <2>2, <2>3, <2>5, <2>7 DEF Reading
    <2>10. stack'[Len(stack) + 1].dir = Follow(prefix'[Len(stack) + 1])
      BY <2>5, <2>7 DEF Listing
    <2>11. Len(stack') <= MaxDepth
      BY <1>0, <2>1, <2>5 DEF Fits
    <2> QED
      BY <1>0, <2>5, <2>7, <2>8, <2>9, <2>10, <2>11
  <1>5. CASE SkipEntry
    BY <1>3, <1>5 DEF SkipEntry
  <1>6. CASE ReturnEntry
    BY <1>3, <1>6 DEF ReturnEntry
  <1>7. CASE PathIsItem \/ PathMissing \/ PathsDone \/ Others \/ UNCHANGED recurVars
    BY <1>7 DEF PathIsItem, PathMissing, PathsDone, Others, recurVars
  <1>8. CASE Caller
    BY <1>8 DEF Caller, RecurOpen, RecurCall, RecurClose
  <1> QED
    BY <1>1, <1>2, <1>4, <1>5, <1>6, <1>7, <1>8 DEF WalkStep, RecurNext

\* recur.c keeps one path name beside the stack of directories it has open; it always
\* names the one readdir is called for, and the stack has room.
THEOREM NamesAreRight == RecurSpec => []PrefixNamesTheStack
  <1>1. RecurInit => RecurTypeOK /\ PrefixNamesTheStack
    BY DEF RecurInit, RecurTypeOK, PrefixNamesTheStack
  <1> QED
    BY <1>1, TypeStep, NamesStep, PTL DEF RecurSpec, WalkStep

(***************************************************************************)
(* Nothing is missed.  While the walk is under way, an entry of a directory*)
(* that has to be listed has been returned or has too long a name, or      *)
(* readdir has it left in a directory on the stack, or the directory is    *)
(* a path not opened yet.                                                  *)
(***************************************************************************)

\* path is the name of the i-th directory on the stack.
Names(path, i) == Len(path) = i /\ \A j \in 1..i : path[j] = prefix[j]

Pending(path, c) ==
    \/ Append(path, c) \in returned \cup LongNames
    \/ \E i \in DOMAIN stack : Names(path, i) /\ c \in stack[i].left
    \/ \E j \in DOMAIN list : path = <<list[j]>>

Candidates == returned \cup {<<n>> : n \in Nodes}

NothingLost ==
    \A path \in Candidates :
        Listed(path) => \A c \in Children(Follow(Last(path))) : Pending(path, c)

EndIsEnd == at = "end" => stack = <<>> /\ list = <<>>

LEMMA CandidateTypes == ASSUME RecurTypeOK PROVE Candidates \subseteq Seq(Nodes)
  <1>1. \A n \in Nodes : <<n>> \in Seq(Nodes)
    OBVIOUS
  <1> QED
    BY <1>1 DEF Candidates, RecurTypeOK

\* What is there now was there before.
LEMMA Shrinking ==
    ASSUME present' \subseteq present, NEW path, NEW d
    PROVE  /\ Exists(path)' => Exists(path)
           /\ Opens(d)' => Opens(d)
           /\ Children(d)' \subseteq Children(d)
  BY DEF Exists, Opens, Children

\* An entry of a directory that exists is found under the name of the directory.
LEMMA ChildExists ==
    ASSUME present \subseteq Nodes, NEW path \in Seq(Nodes), Len(path) >= 1,
           Exists(path), NEW c \in Children(Follow(Last(path))),
           Append(path, c) \notin LongNames
    PROVE  c \in Nodes /\ Append(path, c) \in Seq(Nodes) /\ Exists(Append(path, c))
  <1> DEFINE full == Append(path, c)
  <1>1. c \in present /\ Parent[c] = Follow(Last(path))
    BY DEF Children
  <1>2. /\ full \in Seq(Nodes) /\ Len(full) = Len(path) + 1
        /\ \A i \in 1..Len(path) : full[i] = path[i]
        /\ full[Len(path) + 1] = c
    BY <1>1, AppendProperties
  <1>3. Len(path) \in Nat /\ DOMAIN path = 1..Len(path) /\ DOMAIN full = 1..Len(path) + 1
    BY <1>2, LenProperties
  <1> HIDE DEF full
  <1>4. \A i \in DOMAIN full : full[i] \in present
    BY <1>1, <1>2, <1>3 DEF Exists
  <1>5. ASSUME NEW i \in 2..Len(full) PROVE Parent[full[i]] = Follow(full[i - 1])
    <2>1. CASE i = Len(path) + 1
      <3>1. i - 1 = Len(path) /\ Len(path) \in 1..Len(path)
        BY <1>3, <2>1
      <3>2. full[i - 1] = Last(path) /\ full[i] = c
        BY <1>2, <2>1, <3>1 DEF Last
      <3> QED
        BY <1>1, <3>2
    <2>2. CASE i # Len(path) + 1
      <3>1. i \in 2..Len(path) /\ i \in 1..Len(path) /\ i - 1 \in 1..Len(path)
        BY <1>2, <1>3, <2>2
      <3>2. full[i] = path[i] /\ full[i - 1] = path[i - 1]
        BY <1>2, <3>1
      <3> QED
        BY <3>1, <3>2 DEF Exists
    <2> QED
      BY <2>1, <2>2
  <1> QED
    BY <1>1, <1>2, <1>4, <1>5 DEF Exists, full

\* A directory that has to be listed after a step had to be before it, unless the
\* step returned it or started the walk.
LEMMA Carried ==
    ASSUME RecurTypeOK, NothingLost, present' \subseteq present, paths' = paths,
           NEW path \in Candidates, Listed(path)', path \in returned' => path \in returned,
           NEW c \in Children(Follow(Last(path)))'
    PROVE  /\ Listed(path)
           /\ c \in Children(Follow(Last(path)))
           /\ Pending(path, c)
  <1>1. /\ Exists(path)
        /\ Opens(Last(path))
        /\ c \in Children(Follow(Last(path)))
    BY Shrinking DEF Listed
  <1>2. \/ path \in returned /\ IsDir(Last(path))
        \/ \E i \in DOMAIN paths : path = <<paths[i]>>
    BY DEF Listed
  <1>3. Listed(path)
    BY <1>1, <1>2 DEF Listed
  <1> QED
    BY <1>1, <1>3 DEF NothingLost

\* What is pending while an entry e is read stays so, unless it is e itself.
LEMMA EntryRead ==
    ASSUME RecurTypeOK, PrefixNamesTheStack, Reading, NEW e \in Top.left,
           NEW path \in Seq(Nodes), NEW c, Pending(path, c)
    PROVE  \/ Append(path, c) \in returned \cup LongNames
           \/ Append(path, c) = FullName(e) /\ path = prefix /\ c = e
           \/ \E i \in 1..Len(stack) : Names(path, i) /\ c \in Without(e)[i].left
           \/ \E j \in DOMAIN list : path = <<list[j]>>
  <1>1. DOMAIN stack = 1..Len(stack) /\ Len(stack) \in Nat
    BY LenProperties DEF RecurTypeOK
  <1>2. ASSUME NEW i \in DOMAIN stack, Names(path, i), c \in stack[i].left
        PROVE  \/ path = prefix /\ c = e
               \/ \E k \in 1..Len(stack) : Names(path, k) /\ c \in Without(e)[k].left
    <2>1. CASE i # Len(stack) \/ c # e
      <3>1. i \in 1..Len(stack) /\ c \in Without(e)[i].left
        BY <1>1, <1>2, <2>1, EntryTypes
      <3> QED
        BY <1>2, <3>1
    <2>2. CASE i = Len(stack) /\ c = e
      <3>1. Len(path) = Len(prefix) /\ \A j \in 1..Len(path) : path[j] = prefix[j]
        BY <1>2, <2>2 DEF Names, PrefixNamesTheStack, Reading
      <3>2. path = prefix
        BY <3>1, SeqEqual DEF RecurTypeOK
      <3> QED
        BY <2>2, <3>2
    <2> QED
      BY <2>1, <2>2
  <1> QED
    BY <1>2 DEF Pending, FullName

\* The walk loses no entry when it returns or drops a path of the command line.
LEMMA PathsLoseNothing ==
    ASSUME RecurTypeOK, NothingLost, OpenPath \/ PathIsItem \/ PathMissing
    PROVE  NothingLost'
  <1> SUFFICES ASSUME NEW path \in Candidates', Listed(path)',
                      NEW c \in Children(Follow(Last(path)))'
               PROVE  Pending(path, c)'
    BY DEF NothingLost
  <1>1. /\ present' = present /\ paths' = paths /\ AtPath /\ list' = Tail(list)
        /\ returned \subseteq returned'
    BY DEF OpenPath, PathIsItem, PathMissing, Returns
  <1>2. PICK h \in Nodes : h = Head(list)
    BY <1>1, HeadTailProperties DEF AtPath, RecurTypeOK
  <1>3. /\ h = list[1] /\ Tail(list) \in Seq(Nodes)
        /\ DOMAIN list = 1..Len(list) /\ Len(list) \in Nat \ {0}
        /\ DOMAIN Tail(list) = 1..Len(list) - 1
        /\ \A i \in 1..Len(list) - 1 : Tail(list)[i] = list[i + 1]
    <2>1. list # <<>> /\ list \in Seq(Nodes)
      BY <1>1 DEF AtPath, RecurTypeOK
    <2>2. /\ Tail(list) \in Seq(Nodes) /\ Len(Tail(list)) = Len(list) - 1
          /\ \A i \in 1..Len(Tail(list)) : Tail(list)[i] = list[i + 1]
      BY <2>1, HeadTailProperties
    <2> QED
      BY <1>2, <2>1, <2>2, LenProperties, EmptySeq
  <1>4. ASSUME path = <<h>> PROVE OpenPath /\ Follow(Last(path)) = Follow(h)
    <2>0. path = <<Head(list)>>
      BY <1>2, <1>4
    <2>1. Last(path) = h
      BY <1>4 DEF Last
    <2>2. Opens(h) /\ Exists(path)
      <3>1. Opens(h)' /\ Exists(path)'
        BY <2>1 DEF Listed
      <3> QED
        BY <1>1, <3>1, Shrinking
    <2> QED
      BY <1>2, <2>0, <2>1, <2>2 DEF PathIsItem, PathMissing
  <1>5. CASE path = <<h>>
    <2>1. stack' = <<Listing(Follow(h))>> /\ prefix' = <<h>>
      BY <1>2, <1>4, <1>5 DEF OpenPath
    <2>2. DOMAIN stack' = {1} /\ stack'[1].left = Children(Follow(h))
      BY <2>1 DEF Listing
    <2>3. c \in stack'[1].left
      BY <1>1, <1>4, <1>5, <2>2 DEF Children
    <2>4. Len(path) = 1 /\ \A j \in 1..1 : path[j] = prefix'[j]
      BY <1>5, <2>1
    <2> QED
      BY <2>2, <2>3, <2>4 DEF Pending, Names
  <1>6. CASE path # <<h>>
    <2>1. path \in Candidates /\ (path \in returned' => path \in returned)
      BY <1>2, <1>6 DEF Candidates, OpenPath, PathIsItem, PathMissing, Returns
    <2>2. Pending(path, c)
      BY <1>1, <2>1, Carried
    <2>3. CASE Append(path, c) \in returned \cup LongNames
      BY <1>1, <2>3 DEF Pending
    <2>4. CASE \E j \in DOMAIN list : path = <<list[j]>>
      <3>1. PICK j \in DOMAIN list : path = <<list[j]>>
        BY <2>4
      <3>2. j # 1
        BY <1>3, <1>6, <3>1
      <3>3. j - 1 \in 1..Len(list) - 1 /\ (j - 1) + 1 = j
        BY <1>3, <3>2
      <3>4. j - 1 \in DOMAIN list' /\ path = <<list'[j - 1]>>
        BY <1>1, <1>3, <3>1, <3>3
      <3> QED
        BY <3>4 DEF Pending
    <2>5. ~ \E i \in DOMAIN stack : TRUE
      BY <1>1 DEF AtPath
    <2> QED
      BY <2>2, <2>3, <2>4, <2>5 DEF Pending
  <1> QED
    BY <1>5, <1>6

\* Nor when readdir is at the end of a directory.
LEMMA DoneLosesNothing ==
    ASSUME RecurTypeOK, PrefixNamesTheStack, NothingLost, DirectoryDone
    PROVE  NothingLost'
  <1> SUFFICES ASSUME NEW path \in Candidates', Listed(path)',
                      NEW c \in Children(Follow(Last(path)))'
               PROVE  Pending(path, c)'
    BY DEF NothingLost
  <1>1. /\ present' = present /\ paths' = paths /\ returned' = returned /\ list' = list
        /\ stack # <<>> /\ Top.left = {} /\ stack' = SubSeq(stack, 1, Len(stack) - 1)
        /\ Len(stack) # 1 => prefix' = SubSeq(prefix, 1, Len(prefix) - 1)
    BY DEF DirectoryDone, Reading, ParentDir
  <1>2. Pending(path, c)
    BY <1>1, Carried DEF Candidates
  <1>3. ASSUME NEW i \in DOMAIN stack, Names(path, i), c \in stack[i].left
        PROVE  i \in DOMAIN stack' /\ Names(path, i)' /\ c \in stack'[i].left
    <2>1. /\ Len(stack) \in Nat \ {0} /\ DOMAIN stack = 1..Len(stack)
          /\ Len(prefix) = Len(stack)
      BY <1>1, LenProperties, EmptySeq DEF RecurTypeOK, PrefixNamesTheStack
    <2>2. i \in 1..Len(stack) - 1 /\ Len(stack) # 1
      <3>1. i # Len(stack)
        BY <1>1, <1>3 DEF Top, Last
      <3> QED
        BY <2>1, <3>1
    <2>3. /\ DOMAIN stack' = 1..Len(stack) - 1
          /\ stack'[i] = stack[i]
      <3>1. /\ stack' \in Seq([dir : Nodes, left : SUBSET Nodes])
            /\ Len(stack') = Len(stack) - 1
            /\ \A j \in 1..Len(stack) - 1 : stack'[j] = stack[j]
        BY <1>1, Shortened DEF RecurTypeOK
      <3> QED
        BY <2>2, <3>1, LenProperties
    <2>4. \A j \in 1..i : prefix'[j] = prefix[j]
      <3>1. \A j \in 1..Len(stack) - 1 : prefix'[j] = prefix[j]
        BY <1>1, <2>1, <2>2, Shortened DEF RecurTypeOK
      <3>2. \A j \in 1..i : j \in 1..Len(stack) - 1
        BY <2>1, <2>2
      <3> QED
        BY <3>1, <3>2
    <2> QED
      BY <1>3, <2>2, <2>3, <2>4 DEF Names
  <1> QED
    BY <1>1, <1>2, <1>3 DEF Pending

\* Nor when it skips an entry that is gone or whose name is too long.
LEMMA SkipLosesNothing ==
    ASSUME RecurTypeOK, PrefixNamesTheStack, NothingLost, SkipEntry
    PROVE  NothingLost'
  <1> SUFFICES ASSUME NEW path \in Candidates', Listed(path)',
                      NEW c \in Children(Follow(Last(path)))'
               PROVE  Pending(path, c)'
    BY DEF NothingLost
  <1>1. /\ present' = present /\ paths' = paths /\ returned' = returned /\ list' = list
        /\ prefix' = prefix /\ Reading
    BY DEF SkipEntry
  <1>2. PICK e \in Top.left : Skipped(e) /\ stack' = Without(e)
    BY DEF SkipEntry
  <1>3. /\ Listed(path) /\ c \in Children(Follow(Last(path))) /\ Pending(path, c)
    BY <1>1, Carried DEF Candidates
  <1>4. path \in Seq(Nodes)
    BY <1>1, CandidateTypes DEF Candidates
  <1>5. Append(path, c) = FullName(e) /\ path = prefix => Append(path, c) \in LongNames
    <2> SUFFICES ASSUME Append(path, c) = FullName(e), path = prefix,
                        Append(path, c) \notin LongNames
                 PROVE  FALSE
      OBVIOUS
    <2>1. Len(path) \in Nat \ {0} /\ Exists(path)
      BY <1>1, <1>3, <1>4, LenProperties, EmptySeq
      DEF Listed, Reading, PrefixNamesTheStack, RecurTypeOK
    <2>2. c \in Nodes /\ Exists(Append(path, c))
      <3>1. present \subseteq Nodes /\ Len(path) >= 1
        BY <2>1 DEF RecurTypeOK
      <3> QED
        BY <1>3, <1>4, <2>1, <3>1, ChildExists
    <2> QED
      BY <1>2, <2>2 DEF Skipped
  <1>6. DOMAIN stack' = 1..Len(stack)
    BY <1>1, <1>2, EntryTypes, LenProperties
  <1> QED
    BY <1>1, <1>2, <1>3, <1>4, <1>5, <1>6, EntryRead DEF Pending, Names

\* Nor when it returns an entry without opening it.
LEMMA ReturnLosesNothing ==
    ASSUME RecurTypeOK, PrefixNamesTheStack, NothingLost, ReturnEntry
    PROVE  NothingLost'
  <1> SUFFICES ASSUME NEW path \in Candidates', Listed(path)',
                      NEW c \in Children(Follow(Last(path)))'
               PROVE  Pending(path, c)'
    BY DEF NothingLost
  <1>1. /\ present' = present /\ paths' = paths /\ list' = list
        /\ prefix' = prefix /\ Reading
    BY DEF ReturnEntry
  <1>2. PICK e \in Top.left :
            /\ ~(IsDir(e) /\ Fits /\ Opens(e))
            /\ stack' = Without(e)
            /\ returned' = returned \cup {FullName(e)}
    BY DEF ReturnEntry, Returns
  <1>3. /\ e \in Nodes /\ FullName(e) \in Seq(Nodes)
        /\ Len(FullName(e)) = Len(stack) + 1 /\ Len(stack) \in Nat \ {0}
        /\ Last(FullName(e)) = e
    BY <1>1, EntryTypes, AppendProperties, LenProperties, EmptySeq
    DEF FullName, Last, RecurTypeOK, PrefixNamesTheStack, Reading
  <1>4. path # FullName(e)
    <2> SUFFICES ASSUME path = FullName(e) PROVE FALSE
      OBVIOUS
    <2>1. /\ Opens(e) /\ Len(path) <= MaxDepth
          /\ IsDir(e) \/ \E i \in DOMAIN paths : path = <<paths[i]>>
      BY <1>1, <1>3 DEF Listed, Opens
    <2>2. \A n : path # <<n>>
      BY <1>3
    <2>3. Fits
      BY <1>3, <2>1, LimitAssumption DEF Fits
    <2> QED
      BY <1>2, <2>1, <2>2, <2>3
  <1>5. path \in Candidates /\ (path \in returned' => path \in returned)
    BY <1>2, <1>4 DEF Candidates
  <1>6. path \in Seq(Nodes) /\ Pending(path, c)
    BY <1>1, <1>5, Carried, CandidateTypes
  <1>7. DOMAIN stack' = 1..Len(stack)
    BY <1>1, <1>2, EntryTypes, LenProperties
  <1> QED
    BY <1>1, <1>2, <1>6, <1>7, EntryRead DEF Pending, Names

\* Nor when it enters a directory: all its entries are left to be read.
LEMMA EnterLosesNothing ==
    ASSUME RecurTypeOK, PrefixNamesTheStack, NothingLost, EnterDirectory
    PROVE  NothingLost'
  <1> SUFFICES ASSUME NEW path \in Candidates', Listed(path)',
                      NEW c \in Children(Follow(Last(path)))'
               PROVE  Pending(path, c)'
    BY DEF NothingLost
  <1>1. present' = present /\ paths' = paths /\ list' = list /\ Reading
    BY DEF EnterDirectory
  <1>2. PICK e \in Top.left :
            /\ Opens(e)
            /\ stack' = Append(Without(e), Listing(Follow(e)))
            /\ prefix' = FullName(e)
            /\ returned' = returned \cup {FullName(e)}
    BY DEF EnterDirectory, Returns
  <1>3. /\ e \in Nodes /\ FullName(e) \in Seq(Nodes)
        /\ Len(FullName(e)) = Len(stack) + 1 /\ Len(stack) \in Nat \ {0}
        /\ Last(FullName(e)) = e
        /\ \A j \in 1..Len(stack) : FullName(e)[j] = prefix[j]
    BY <1>1, EntryTypes, AppendProperties, LenProperties, EmptySeq
    DEF FullName, Last, RecurTypeOK, PrefixNamesTheStack, Reading
  <1>4. /\ DOMAIN stack' = 1..Len(stack) + 1
        /\ \A i \in 1..Len(stack) : stack'[i] = Without(e)[i]
        /\ stack'[Len(stack) + 1] = Listing(Follow(e))
    BY <1>1, <1>2, EntryTypes, ListingType, AppendProperties, LenProperties
  <1>5. CASE path = FullName(e)
    <2>1. c \in stack'[Len(stack) + 1].left
      BY <1>1, <1>3, <1>4, <1>5 DEF Listing, Children
    <2>2. /\ Len(path) = Len(stack) + 1
          /\ \A j \in 1..Len(stack) + 1 : path[j] = prefix'[j]
      BY <1>2, <1>3, <1>5
    <2>3. Len(stack) + 1 \in DOMAIN stack'
      BY <1>3, <1>4
    <2> QED
      BY <2>1, <2>2, <2>3 DEF Pending, Names
  <1>6. CASE path # FullName(e)
    <2>1. path \in Candidates /\ (path \in returned' => path \in returned)
      BY <1>2, <1>6 DEF Candidates
    <2>2. path \in Seq(Nodes) /\ Pending(path, c)
      BY <1>1, <2>1, Carried, CandidateTypes
    <2>3. ASSUME NEW i \in 1..Len(stack), Names(path, i), c \in Without(e)[i].left
          PROVE  i \in DOMAIN stack' /\ Names(path, i)' /\ c \in stack'[i].left
      <3>1. \A j \in 1..i : j \in 1..Len(stack)
        BY <1>3
      <3>2. i \in DOMAIN stack' /\ c \in stack'[i].left
        BY <1>3, <1>4, <2>3
      <3>3. Len(path) = i /\ \A j \in 1..i : path[j] = prefix'[j]
        BY <1>2, <1>3, <2>3, <3>1 DEF Names
      <3> QED
        BY <3>2, <3>3 DEF Names
    <2> QED
      BY <1>1, <1>2, <2>2, <2>3, EntryRead DEF Pending
  <1> QED
    BY <1>5, <1>6

LEMMA NothingLostStep ==
    ASSUME RecurTypeOK, PrefixNamesTheStack, NothingLost, [WalkStep]_recurVars
    PROVE  NothingLost'
  <1>0. present' \subseteq present
    BY PresentShrinks
  <1>1. CASE OpenPath \/ PathIsItem \/ PathMissing
    BY <1>1, PathsLoseNothing
  <1>2. CASE DirectoryDone
    BY <1>2, DoneLosesNothing
  <1>3. CASE SkipEntry
    BY <1>3, SkipLosesNothing
  <1>4. CASE EnterDirectory
    BY <1>4, EnterLosesNothing
  <1>5. CASE ReturnEntry
    BY <1>5, ReturnLosesNothing
  <1>6. ASSUME UNCHANGED <<list, stack, prefix, paths, returned>>
        PROVE  NothingLost'
    <2> SUFFICES ASSUME NEW path \in Candidates', Listed(path)',
                        NEW c \in Children(Follow(Last(path)))'
                 PROVE  Pending(path, c)'
      BY DEF NothingLost
    <2>1. Pending(path, c)
      BY <1>0, <1>6, Carried DEF Candidates
    <2> QED
      BY <1>6, <2>1 DEF Pending, Names
  <1>7. ASSUME returned' = {}, paths' = list' PROVE NothingLost'
    <2> SUFFICES ASSUME NEW path \in Candidates', Listed(path)', NEW c
                 PROVE  Pending(path, c)'
      BY DEF NothingLost
    <2>1. \E i \in DOMAIN list' : path = <<list'[i]>>
      BY <1>7 DEF Listed
    <2> QED
      BY <2>1 DEF Pending
  <1>8. CASE Caller
    <2>1. CASE RecurOpen \/ RecurClose
      BY <1>7, <2>1 DEF RecurOpen, RecurClose
    <2>2. CASE RecurCall
      BY <1>6, <2>2 DEF RecurCall
    <2> QED
      BY <1>8, <2>1, <2>2 DEF Caller
  <1>9. CASE PathsDone \/ Others \/ UNCHANGED recurVars
    BY <1>6, <1>9 DEF PathsDone, Others, recurVars
  <1> QED
    BY <1>1, <1>2, <1>3, <1>4, <1>5, <1>8, <1>9 DEF WalkStep, RecurNext

LEMMA EndStep == ASSUME EndIsEnd, [WalkStep]_recurVars PROVE EndIsEnd'
  BY DEF EndIsEnd, WalkStep, recurVars, RecurNext, OpenPath, PathIsItem, PathMissing, PathsDone,
         DirectoryDone, SkipEntry, EnterDirectory, ReturnEntry, Caller, Others, Returns,
         RecurOpen, RecurCall, RecurClose, AtPath, Reading

\* A walk that has come to its end has returned every entry still there of each directory
\* it was given or has returned, but for those too deep, not to be opened or with too long a
\* name, whatever is unlinked on the way.
THEOREM WalkIsComplete == RecurSpec => []NothingMissed
  <1>1. RecurInit => RecurTypeOK /\ PrefixNamesTheStack /\ NothingLost /\ EndIsEnd
    <2> SUFFICES ASSUME RecurInit
                 PROVE  RecurTypeOK /\ PrefixNamesTheStack /\ NothingLost /\ EndIsEnd
      OBVIOUS
    <2>1. RecurTypeOK /\ PrefixNamesTheStack /\ EndIsEnd
      BY DEF RecurInit, RecurTypeOK, PrefixNamesTheStack, EndIsEnd
    <2>2. \A path : ~Listed(path)
      BY DEF RecurInit, Listed
    <2> QED
      BY <2>1, <2>2 DEF NothingLost
  <1>2. NothingLost /\ EndIsEnd => NothingMissed
    BY DEF NothingLost, EndIsEnd, NothingMissed, Pending, Candidates
  <1> QED
    BY <1>1, <1>2, TypeStep, NamesStep, NothingLostStep, EndStep, PTL DEF RecurSpec, WalkStep

(***************************************************************************)
(* Nothing is returned twice, where the paths are apart from each other:   *)
(* no two lead to the same node, and none leads into what is below another *)
(* or below itself.  An entry is returned when it is read from its         *)
(* directory; so each directory must be opened once only.                  *)
(***************************************************************************)

\* s is the name of a directory the walk can come to.
WayDown(s) ==
    /\ \A i \in 2..Len(s) : Parent[s[i]] = Follow(s[i - 1])
    /\ \A i \in 2..Len(s) : IsDir(s[i])

\* What the walk can meet below p.
Below(p) ==
    {n \in Nodes : \E s \in Seq(Nodes) :
        s # <<>> /\ s[1] = p /\ WayDown(s) /\ Parent[n] = Follow(Last(s))}

Elements(s) == {s[i] : i \in DOMAIN s}
Distinct(s) == \A i, j \in DOMAIN s : i # j => s[i] # s[j]

Apart(ps) ==
    /\ Distinct(ps)
    /\ \A p, q \in Elements(ps) :
        /\ p # q => Follow(p) # Follow(q)
        /\ q \notin Below(p) /\ Follow(q) \notin Below(p)

\* The condition on the paths of a walk.
PathsApart == Apart(paths)

\* The walk has not returned n.
Fresh(n) == \A path \in returned : Last(path) # n

\* The paths that recur_next has dealt with, and the directories it has opened.
Taken == Elements(paths) \ Elements(list)
Opened == {Follow(p) : p \in Taken} \cup {n \in Nodes : IsDir(n) /\ ~Fresh(n)}

\* Whatever was returned is such a path, or an entry of an opened directory.
ReturnedInv ==
    \A path \in returned :
        LET n == Last(path)
        IN  n \in Taken \/ (Parent[n] \in Opened /\ \E p \in Elements(paths) : n \in Below(p))

\* The directories on the stack are different ones, opened before, and nothing that
\* readdir has left in them was returned.
StackInv ==
    \A i \in DOMAIN stack :
        /\ stack[i].dir \in Opened
        /\ \A e \in stack[i].left : Parent[e] = stack[i].dir /\ Fresh(e)
        /\ \A j \in DOMAIN stack : i # j => stack[i].dir # stack[j].dir

OnceInv ==
    /\ Distinct(list) /\ Elements(list) \subseteq Elements(paths)
    /\ stack # <<>> => prefix[1] \in Elements(paths) /\ WayDown(prefix)
    /\ ReturnedInv
    /\ StackInv

\* A path not taken yet was not returned: it is not below another one either.
LEMMA PathIsFresh ==
    ASSUME PathsApart, ReturnedInv, NEW h \in Elements(list), h \in Elements(paths)
    PROVE  Fresh(h)
  BY DEF PathsApart, Apart, ReturnedInv, Taken, Fresh

\* Readdir has one entry less left in the directory on top.
LEMMA EntryTaken ==
    ASSUME RecurTypeOK, Reading, NEW e \in Top.left
    PROVE  /\ DOMAIN Without(e) = 1..Len(stack) /\ DOMAIN stack = 1..Len(stack)
           /\ Len(stack) \in Nat \ {0}
           /\ \A i \in 1..Len(stack) :
                 /\ Without(e)[i].dir = stack[i].dir
                 /\ Without(e)[i].left = IF i = Len(stack) THEN stack[i].left \ {e}
                                                           ELSE stack[i].left
  <1>1. Len(stack) \in Nat \ {0} /\ DOMAIN stack = 1..Len(stack)
    BY EmptySeq, LenProperties DEF RecurTypeOK, Reading
  <1>2. Len(stack) \in 1..Len(stack)
    BY <1>1
  <1>3. \A i \in 1..Len(stack) : stack[i] \in [dir : Nodes, left : SUBSET Nodes]
    BY <1>1, ElementOfSeq DEF RecurTypeOK
  <1>4. \A i \in 1..Len(stack) : Without(e)[i] =
            IF i = Len(stack) THEN [stack[i] EXCEPT !.left = @ \ {e}] ELSE stack[i]
    BY <1>1, <1>2 DEF Without
  <1>5. DOMAIN Without(e) = 1..Len(stack)
    BY <1>1 DEF Without
  <1> QED
    BY <1>1, <1>3, <1>4, <1>5

\* The directory on top and what is left in it are where prefix says.
LEMMA TopNamed ==
    ASSUME RecurTypeOK, PrefixNamesTheStack, OnceInv, Reading, NEW e \in Top.left
    PROVE  /\ e \in Nodes /\ Fresh(e)
           /\ Parent[e] = Top.dir /\ Top.dir = Follow(Last(prefix)) /\ Top.dir \in Opened
           /\ prefix[1] \in Elements(paths) /\ e \in Below(prefix[1])
  <1>1. Len(stack) \in DOMAIN stack /\ Top = stack[Len(stack)]
    BY EmptySeq, LenProperties DEF RecurTypeOK, Reading, Top, Last
  <1>2. Parent[e] = Top.dir /\ Fresh(e) /\ Top.dir \in Opened
    BY <1>1 DEF OnceInv, StackInv
  <1>3. Top.dir = Follow(Last(prefix)) /\ prefix \in Seq(Nodes) /\ prefix # <<>>
    BY <1>1, EmptySeq, LenProperties
    DEF PrefixNamesTheStack, Reading, Last, RecurTypeOK
  <1>4. e \in Nodes
    BY EntryTypes
  <1>5. prefix[1] \in Elements(paths) /\ WayDown(prefix)
    BY DEF OnceInv, Reading
  <1>6. e \in Below(prefix[1])
    BY <1>2, <1>3, <1>4, <1>5 DEF Below
  <1> QED
    BY <1>2, <1>3, <1>4, <1>5, <1>6

\* The entries of an entry that is a directory come below the same path.
LEMMA WayOn ==
    ASSUME NEW s \in Seq(Nodes), s # <<>>, WayDown(s), NEW e \in Nodes, IsDir(e),
           Parent[e] = Follow(Last(s))
    PROVE  /\ Append(s, e) \in Seq(Nodes) /\ Append(s, e) # <<>> /\ WayDown(Append(s, e))
           /\ Append(s, e)[1] = s[1] /\ Last(Append(s, e)) = e
  <1> DEFINE t == Append(s, e)
  <1>1. Len(s) \in Nat \ {0}
    BY LenProperties, EmptySeq
  <1>2. /\ t \in Seq(Nodes) /\ Len(t) = Len(s) + 1
        /\ \A i \in 1..Len(s) : t[i] = s[i]
        /\ t[Len(s) + 1] = e
    BY AppendProperties
  <1> HIDE DEF t
  <1>3. ASSUME NEW i \in 2..Len(t) PROVE Parent[t[i]] = Follow(t[i - 1]) /\ IsDir(t[i])
    <2>1. CASE i = Len(s) + 1
      <3>1. i - 1 = Len(s) /\ Len(s) \in 1..Len(s)
        BY <1>1, <2>1
      <3>2. t[i - 1] = Last(s) /\ t[i] = e
        BY <1>2, <2>1, <3>1 DEF Last
      <3> QED
        BY <3>2
    <2>2. CASE i # Len(s) + 1
      <3>1. i \in 2..Len(s) /\ i \in 1..Len(s) /\ i - 1 \in 1..Len(s)
        BY <1>1, <1>2, <2>2
      <3>2. t[i - 1] = s[i - 1] /\ t[i] = s[i]
        BY <1>2, <3>1
      <3> QED
        BY <3>1, <3>2 DEF WayDown
    <2> QED
      BY <2>1, <2>2
  <1>4. WayDown(t)
    BY <1>3 DEF WayDown
  <1>5. t # <<>> /\ t[1] = s[1] /\ Last(t) = e
    BY <1>1, <1>2, EmptySeq DEF Last
  <1> QED
    BY <1>2, <1>4, <1>5 DEF t

\* Nothing in a directory not opened before was returned.
LEMMA EntriesAreFresh ==
    ASSUME PathsApart, ReturnedInv, NEW p \in Elements(paths), NEW d, d \notin Opened,
           NEW c \in Below(p), Parent[c] = d
    PROVE  Fresh(c)
  <1> SUFFICES ASSUME NEW path \in returned, Last(path) = c PROVE FALSE
    BY DEF Fresh
  <1>1. c \in Taken
    BY DEF ReturnedInv
  <1>2. c \in Elements(paths)
    BY <1>1 DEF Taken
  <1> QED
    BY <1>2 DEF PathsApart, Apart

\* A list of different nodes without its first one.
LEMMA TailOfDistinct ==
    ASSUME NEW s \in Seq(Nodes), s # <<>>, Distinct(s)
    PROVE  /\ Head(s) \in Nodes /\ Head(s) \in Elements(s)
           /\ Distinct(Tail(s)) /\ Elements(Tail(s)) = Elements(s) \ {Head(s)}
  <1> DEFINE t == Tail(s)
  <1>1. /\ t \in Seq(Nodes) /\ Len(t) = Len(s) - 1
        /\ \A i \in 1..Len(t) : t[i] = s[i + 1]
        /\ Head(s) = s[1] /\ Head(s) \in Nodes
    BY HeadTailProperties
  <1>2. /\ DOMAIN s = 1..Len(s) /\ Len(s) \in Nat \ {0}
        /\ DOMAIN t = 1..Len(s) - 1
        /\ \A i \in 1..Len(s) - 1 : t[i] = s[i + 1]
    BY <1>1, LenProperties, EmptySeq
  <1> HIDE DEF t
  <1>3. Head(s) \in Elements(s)
    BY <1>1, <1>2 DEF Elements
  <1>4. ASSUME NEW i \in DOMAIN t, NEW j \in DOMAIN t, i # j PROVE t[i] # t[j]
    <2>1. i + 1 \in DOMAIN s /\ j + 1 \in DOMAIN s /\ i + 1 # j + 1
      BY <1>2, <1>4
    <2> QED
      BY <1>2, <1>4, <2>1 DEF Distinct
  <1>5. ASSUME NEW n \in Elements(t) PROVE n \in Elements(s) \ {Head(s)}
    <2>1. PICK i \in DOMAIN t : n = t[i]
      BY <1>5 DEF Elements
    <2>2. i + 1 \in DOMAIN s /\ n = s[i + 1] /\ i + 1 # 1 /\ 1 \in DOMAIN s
      BY <1>2, <2>1
    <2> QED
      BY <1>1, <2>2 DEF Elements, Distinct
  <1>6. ASSUME NEW n \in Elements(s) \ {Head(s)} PROVE n \in Elements(t)
    <2>1. PICK i \in DOMAIN s : n = s[i]
      BY <1>6 DEF Elements
    <2>2. i # 1
      BY <1>1, <1>6, <2>1
    <2>3. i - 1 \in 1..Len(s) - 1 /\ (i - 1) + 1 = i
      BY <1>2, <2>2
    <2>4. i - 1 \in DOMAIN t /\ n = t[i - 1]
      BY <1>2, <2>1, <2>3
    <2> QED
      BY <2>4 DEF Elements
  <1>7. Distinct(t) /\ Elements(t) = Elements(s) \ {Head(s)}
    BY <1>4, <1>5, <1>6 DEF Distinct
  <1> QED
    BY <1>1, <1>3, <1>7 DEF t

\* When the list loses its first path.
LEMMA ListShortened ==
    ASSUME RecurTypeOK, OnceInv, AtPath, list' = Tail(list), paths' = paths
    PROVE  /\ Head(list) \in Nodes /\ Head(list) \in Elements(list)
           /\ Head(list) \in Elements(paths)
           /\ Distinct(list)' /\ (Elements(list) \subseteq Elements(paths))'
           /\ Taken' = Taken \cup {Head(list)}
  <1>1. /\ Head(list) \in Nodes /\ Head(list) \in Elements(list)
        /\ Distinct(Tail(list)) /\ Elements(Tail(list)) = Elements(list) \ {Head(list)}
    BY TailOfDistinct DEF AtPath, RecurTypeOK, OnceInv
  <1>2. Elements(list)' = Elements(list) \ {Head(list)} /\ Distinct(list)'
    BY <1>1 DEF Elements, Distinct
  <1>3. Elements(paths)' = Elements(paths) /\ Elements(list) \subseteq Elements(paths)
    BY DEF OnceInv, Elements
  <1>4. Taken' = Taken \cup {Head(list)}
    BY <1>1, <1>2, <1>3 DEF Taken
  <1> QED
    BY <1>1, <1>2, <1>3, <1>4

\* What is opened stays so, and what was returned stays accounted for.
LEMMA OpenedGrows ==
    ASSUME OnceInv, Taken \subseteq Taken', returned \subseteq returned', paths' = paths
    PROVE  /\ Opened \subseteq Opened'
           /\ \A path \in returned :
                LET n == Last(path)
                IN  \/ n \in Taken'
                    \/ Parent[n] \in Opened' /\ \E p \in Elements(paths)' : n \in Below(p)
  <1>1. Opened \subseteq Opened'
    BY DEF Opened, Fresh
  <1>2. Elements(paths)' = Elements(paths)
    BY DEF Elements
  <1> QED
    BY <1>1, <1>2 DEF OnceInv, ReturnedInv

LEMMA OncePaths ==
    ASSUME RecurTypeOK, PathsApart, OnceInv, OpenPath \/ PathIsItem \/ PathMissing
    PROVE  OnceInv'
  <1>1. AtPath /\ list' = Tail(list) /\ paths' = paths /\ present' = present
    BY DEF OpenPath, PathIsItem, PathMissing
  <1>2. PICK h : h = Head(list)
    OBVIOUS
  <1>3. /\ h \in Nodes /\ h \in Elements(list) /\ h \in Elements(paths)
        /\ Distinct(list)' /\ (Elements(list) \subseteq Elements(paths))'
        /\ Taken' = Taken \cup {h}
    BY <1>1, <1>2, ListShortened
  <1>4. CASE OpenPath
    <2>1. returned' = returned /\ stack' = <<Listing(Follow(h))>> /\ prefix' = <<h>>
      BY <1>2, <1>4 DEF OpenPath
    <2>2. Opened \subseteq Opened' /\ ReturnedInv'
      BY <1>1, <1>3, <2>1, OpenedGrows DEF ReturnedInv
    <2>3. Follow(h) \in Opened'
      BY <1>3 DEF Opened
    <2>4. Follow(h) \notin Opened
      <3>1. ASSUME NEW p \in Taken PROVE Follow(h) # Follow(p)
        BY <1>3, <3>1 DEF Taken, PathsApart, Apart
      <3>2. ASSUME IsDir(Follow(h)), ~Fresh(Follow(h)) PROVE FALSE
        <4>1. PICK path \in returned : Last(path) = Follow(h)
          BY <3>2 DEF Fresh
        <4>2. Follow(h) \in Taken
          BY <1>3, <4>1 DEF OnceInv, ReturnedInv, PathsApart, Apart
        <4>3. Follow(Follow(h)) = Follow(h)
          BY <3>2 DEF IsDir, Follow
        <4> QED
          BY <3>1, <4>2, <4>3
      <3> QED
        BY <3>1, <3>2 DEF Opened
    <2>5. /\ DOMAIN stack' = {1} /\ stack'[1].dir = Follow(h)
          /\ stack'[1].left = Children(Follow(h))
      BY <2>1 DEF Listing
    <2>6. ASSUME NEW e \in Children(Follow(h)) PROVE Parent[e] = Follow(h) /\ Fresh(e)'
      <3>1. Parent[e] = Follow(h) /\ e \in Nodes
        BY DEF Children, RecurTypeOK
      <3>2. <<h>> \in Seq(Nodes) /\ <<h>> # <<>> /\ <<h>>[1] = h /\ Last(<<h>>) = h
        BY <1>3 DEF Last
      <3>3. WayDown(<<h>>)
        BY DEF WayDown
      <3>4. e \in Below(h)
        BY <3>1, <3>2, <3>3 DEF Below
      <3>5. Fresh(e)
        BY <1>3, <2>4, <3>1, <3>4, EntriesAreFresh DEF OnceInv
      <3> QED
        BY <2>1, <3>1, <3>5 DEF Fresh
    <2>7. StackInv'
      BY <2>3, <2>5, <2>6 DEF StackInv
    <2>8. prefix'[1] \in Elements(paths)' /\ WayDown(prefix)'
      BY <1>1, <1>3, <2>1 DEF WayDown, Elements
    <2> QED
      BY <1>3, <2>2, <2>7, <2>8 DEF OnceInv
  <1>5. CASE PathIsItem
    <2>1. /\ returned' = returned \cup {<<h>>} /\ stack' = stack /\ prefix' = prefix
          /\ stack = <<>>
      BY <1>1, <1>2, <1>5 DEF PathIsItem, Returns, AtPath
    <2>2. Last(<<h>>) = h /\ h \in Taken'
      BY <1>3 DEF Last
    <2>3. ReturnedInv'
      BY <1>1, <1>3, <2>1, <2>2, OpenedGrows DEF ReturnedInv
    <2> QED
      BY <1>3, <2>1, <2>3 DEF OnceInv, StackInv
  <1>6. CASE PathMissing
    <2>1. returned' = returned /\ stack' = stack /\ prefix' = prefix /\ stack = <<>>
      BY <1>1, <1>6 DEF PathMissing, AtPath
    <2>2. ReturnedInv'
      BY <1>1, <1>3, <2>1, OpenedGrows DEF ReturnedInv
    <2> QED
      BY <1>3, <2>1, <2>2 DEF OnceInv, StackInv
  <1> QED
    BY <1>4, <1>5, <1>6

LEMMA OnceDone ==
    ASSUME RecurTypeOK, PrefixNamesTheStack, OnceInv, DirectoryDone PROVE OnceInv'
  <1>1. /\ stack # <<>> /\ stack' = SubSeq(stack, 1, Len(stack) - 1)
        /\ Len(stack) # 1 => prefix' = SubSeq(prefix, 1, Len(prefix) - 1)
        /\ UNCHANGED <<list, paths, returned>>
    BY DEF DirectoryDone, Reading, ParentDir
  <1>2. Len(stack) \in Nat \ {0} /\ DOMAIN stack = 1..Len(stack) /\ Len(prefix) = Len(stack)
    BY <1>1, LenProperties, EmptySeq DEF RecurTypeOK, PrefixNamesTheStack
  <1>3. /\ stack' \in Seq([dir : Nodes, left : SUBSET Nodes])
        /\ Len(stack') = Len(stack) - 1
        /\ \A j \in 1..Len(stack) - 1 : stack'[j] = stack[j]
    BY <1>1, Shortened DEF RecurTypeOK
  <1>4. DOMAIN stack' = 1..Len(stack) - 1
    BY <1>3, LenProperties
  <1>5. Taken' = Taken /\ Opened' = Opened /\ ReturnedInv' /\ \A n : Fresh(n)' = Fresh(n)
    BY <1>1 DEF Taken, Opened, Fresh, Elements, OnceInv, ReturnedInv
  <1>6. StackInv'
    <2>1. \A i \in DOMAIN stack' : i \in DOMAIN stack /\ stack'[i] = stack[i]
      BY <1>2, <1>3, <1>4
    <2> QED
      BY <1>5, <2>1 DEF OnceInv, StackInv
  <1>7. ASSUME stack' # <<>> PROVE prefix'[1] \in Elements(paths)' /\ WayDown(prefix)'
    <2>1. Len(stack) # 1
      BY <1>3, <1>7, EmptySeq
    <2>2. prefix # <<>> /\ prefix \in Seq(Nodes) /\ prefix' = SubSeq(prefix, 1, Len(prefix) - 1)
      BY <1>1, <1>2, <2>1, EmptySeq DEF RecurTypeOK
    <2>3. /\ Len(prefix') = Len(prefix) - 1
          /\ \A j \in 1..Len(prefix) - 1 : prefix'[j] = prefix[j]
      BY <2>2, Shortened
    <2>4. prefix[1] \in Elements(paths) /\ WayDown(prefix)
      BY <1>1 DEF OnceInv
    <2>5. 1 \in 1..Len(prefix) - 1
      BY <1>2, <2>1
    <2>6. ASSUME NEW i \in 2..Len(prefix')
          PROVE  Parent[prefix'[i]] = Follow(prefix'[i - 1]) /\ IsDir(prefix'[i])
      <3>1. i \in 2..Len(prefix) /\ i \in 1..Len(prefix) - 1 /\ i - 1 \in 1..Len(prefix) - 1
        BY <1>2, <2>3
      <3> QED
        BY <2>3, <2>4, <3>1 DEF WayDown
    <2> QED
      BY <1>1, <2>3, <2>4, <2>5, <2>6 DEF WayDown, Elements
  <1> QED
    BY <1>1, <1>5, <1>6, <1>7 DEF OnceInv, Elements, Distinct

LEMMA OnceSkip ==
    ASSUME RecurTypeOK, PrefixNamesTheStack, OnceInv, SkipEntry PROVE OnceInv'
  <1>1. /\ Reading /\ UNCHANGED <<list, prefix, paths, returned>>
    BY DEF SkipEntry
  <1>2. PICK e \in Top.left : stack' = Without(e)
    BY DEF SkipEntry
  <1>3. Taken' = Taken /\ Opened' = Opened /\ ReturnedInv' /\ \A n : Fresh(n)' = Fresh(n)
    BY <1>1 DEF Taken, Opened, Fresh, Elements, OnceInv, ReturnedInv
  <1>4. /\ DOMAIN stack' = DOMAIN stack
        /\ \A i \in DOMAIN stack :
              stack'[i].dir = stack[i].dir /\ stack'[i].left \subseteq stack[i].left
    BY <1>1, <1>2, EntryTaken
  <1>5. StackInv'
    BY <1>3, <1>4 DEF OnceInv, StackInv
  <1> QED
    BY <1>1, <1>3, <1>5 DEF OnceInv, Elements, Distinct, Reading

\* An entry that is returned is left nowhere else, and comes from an opened directory.
LEMMA EntryReturned ==
    ASSUME RecurTypeOK, PrefixNamesTheStack, OnceInv, Reading, NEW e \in Top.left,
           returned' = returned \cup {FullName(e)}, paths' = paths, list' = list
    PROVE  /\ Taken' = Taken /\ Opened \subseteq Opened' /\ ReturnedInv'
           /\ \A i \in 1..Len(stack) : \A c \in Without(e)[i].left :
                 Parent[c] = stack[i].dir /\ Fresh(c)'
  <1>1. Taken' = Taken /\ Elements(paths)' = Elements(paths)
    BY DEF Taken, Elements
  <1>2. /\ e \in Nodes /\ Parent[e] = Top.dir /\ Top.dir \in Opened
        /\ prefix[1] \in Elements(paths) /\ e \in Below(prefix[1])
    BY TopNamed
  <1>3. Last(FullName(e)) = e
    BY <1>2, AppendProperties, LenProperties DEF FullName, Last, RecurTypeOK
  <1>4. /\ Opened \subseteq Opened'
        /\ \A path \in returned :
                LET n == Last(path)
                IN  \/ n \in Taken'
                    \/ Parent[n] \in Opened' /\ \E p \in Elements(paths)' : n \in Below(p)
    BY <1>1, OpenedGrows
  <1>5. ReturnedInv'
    BY <1>1, <1>2, <1>3, <1>4 DEF ReturnedInv
  <1>6. ASSUME NEW i \in 1..Len(stack), NEW c \in Without(e)[i].left
        PROVE  Parent[c] = stack[i].dir /\ Fresh(c)'
    <2>0. DOMAIN stack = 1..Len(stack) /\ Len(stack) \in Nat \ {0}
      BY EntryTaken
    <2>1. /\ DOMAIN stack = 1..Len(stack) /\ Len(stack) \in Nat \ {0}
          /\ Without(e)[i].left = IF i = Len(stack) THEN stack[i].left \ {e} ELSE stack[i].left
      BY EntryTaken
    <2>2. Parent[c] = stack[i].dir /\ Fresh(c)
      BY <2>1 DEF OnceInv, StackInv
    <2>3. c # e
      <3>1. CASE i = Len(stack)
        BY <2>1, <3>1
      <3>2. CASE i # Len(stack)
        <4>1. Len(stack) \in DOMAIN stack /\ i \in DOMAIN stack
          BY <2>0
        <4>2. stack[Len(stack)].dir # stack[i].dir
          BY <3>2, <4>1 DEF OnceInv, StackInv
        <4> QED
          BY <1>2, <2>2, <4>2 DEF Top, Last
      <3> QED
        BY <3>1, <3>2
    <2> QED
      BY <1>3, <2>2, <2>3 DEF Fresh
  <1> QED
    BY <1>1, <1>4, <1>5, <1>6

LEMMA OnceReturn ==
    ASSUME RecurTypeOK, PrefixNamesTheStack, OnceInv, ReturnEntry PROVE OnceInv'
  <1>1. Reading /\ UNCHANGED <<list, prefix, paths>>
    BY DEF ReturnEntry
  <1>2. PICK e \in Top.left : stack' = Without(e) /\ returned' = returned \cup {FullName(e)}
    BY DEF ReturnEntry, Returns
  <1>3. /\ Taken' = Taken /\ Opened \subseteq Opened' /\ ReturnedInv'
        /\ \A i \in 1..Len(stack) : \A c \in Without(e)[i].left :
                 Parent[c] = stack[i].dir /\ Fresh(c)'
    BY <1>1, <1>2, EntryReturned
  <1>4. /\ DOMAIN stack' = 1..Len(stack) /\ DOMAIN stack = 1..Len(stack)
        /\ \A i \in 1..Len(stack) : stack'[i].dir = stack[i].dir
    BY <1>1, <1>2, EntryTaken
  <1>5. StackInv'
    BY <1>2, <1>3, <1>4 DEF OnceInv, StackInv
  <1> QED
    BY <1>1, <1>3, <1>5 DEF OnceInv, Elements, Distinct, Reading

LEMMA OnceEnter ==
    ASSUME RecurTypeOK, PathsApart, PrefixNamesTheStack, OnceInv, EnterDirectory PROVE OnceInv'
  <1>1. Reading /\ UNCHANGED <<present, list, paths>>
    BY DEF EnterDirectory
  <1>2. PICK e \in Top.left :
            /\ IsDir(e) /\ Opens(e)
            /\ stack' = Append(Without(e), Listing(Follow(e)))
            /\ prefix' = Append(prefix, e)
            /\ returned' = returned \cup {FullName(e)}
    BY DEF EnterDirectory, Returns, FullName
  <1>3. /\ Taken' = Taken /\ Opened \subseteq Opened' /\ ReturnedInv'
        /\ \A i \in 1..Len(stack) : \A c \in Without(e)[i].left :
                 Parent[c] = stack[i].dir /\ Fresh(c)'
    BY <1>1, <1>2, EntryReturned
  <1>4. /\ e \in Nodes /\ Fresh(e) /\ Parent[e] = Top.dir /\ Top.dir = Follow(Last(prefix))
        /\ prefix[1] \in Elements(paths) /\ e \in Below(prefix[1])
    BY <1>1, TopNamed
  <1>5. prefix \in Seq(Nodes) /\ prefix # <<>> /\ WayDown(prefix)
    BY <1>1, LenProperties, EmptySeq
    DEF OnceInv, RecurTypeOK, PrefixNamesTheStack, Reading
  <1>6. /\ prefix' \in Seq(Nodes) /\ prefix' # <<>> /\ WayDown(prefix')
        /\ prefix'[1] = prefix[1] /\ Last(prefix') = e
    BY <1>2, <1>4, <1>5, WayOn
  <1>7. Follow(e) = e /\ Last(FullName(e)) = e
    BY <1>2, <1>6 DEF IsDir, Follow, FullName
  <1>8. e \notin Opened /\ e \in Opened'
    <2>1. ASSUME NEW p \in Taken PROVE e # Follow(p)
      BY <1>4, <2>1 DEF Taken, PathsApart, Apart
    <2>2. ~Fresh(e)'
      BY <1>2, <1>7 DEF Fresh
    <2> QED
      BY <1>2, <1>4, <2>1, <2>2 DEF Opened
  <1>9. ASSUME NEW c \in Children(e) PROVE Parent[c] = e /\ Fresh(c)'
    <2>1. c \in Nodes /\ Parent[c] = e
      BY DEF Children, RecurTypeOK
    <2>2. c \in Below(prefix[1])
      BY <1>6, <1>7, <2>1 DEF Below
    <2>3. Fresh(c)
      BY <1>4, <1>8, <2>1, <2>2, EntriesAreFresh DEF OnceInv
    <2>4. c # e
      BY <1>1, <1>4, <1>8, <2>1, TopNamed
    <2> QED
      BY <1>2, <1>7, <2>1, <2>3, <2>4 DEF Fresh
  <1>10. /\ DOMAIN stack' = 1..Len(stack) + 1
         /\ DOMAIN stack = 1..Len(stack) /\ Len(stack) \in Nat \ {0}
         /\ \A i \in 1..Len(stack) :
               stack'[i] = Without(e)[i] /\ stack'[i].dir = stack[i].dir
         /\ stack'[Len(stack) + 1].dir = e /\ stack'[Len(stack) + 1].left = Children(e)
    <2>1. /\ Without(e) \in Seq([dir : Nodes, left : SUBSET Nodes])
          /\ Len(Without(e)) = Len(stack)
      BY <1>1, EntryTypes
    <2>2. /\ DOMAIN stack' = 1..Len(stack) + 1
          /\ \A i \in 1..Len(stack) : stack'[i] = Without(e)[i]
          /\ stack'[Len(stack) + 1] = Listing(Follow(e))
      BY <1>1, <1>2, <2>1, ListingType, AppendProperties, LenProperties
    <2>3. /\ DOMAIN stack = 1..Len(stack) /\ Len(stack) \in Nat \ {0}
          /\ \A i \in 1..Len(stack) : Without(e)[i].dir = stack[i].dir
      BY <1>1, EntryTaken
    <2> QED
      BY <1>7, <2>2, <2>3 DEF Listing
  <1>11. StackInv'
    <2>1. ASSUME NEW i \in 1..Len(stack)
          PROVE  /\ stack'[i].dir \in Opened' /\ stack'[i].dir # e
                 /\ \A c \in stack'[i].left : Parent[c] = stack'[i].dir /\ Fresh(c)'
                 /\ \A j \in 1..Len(stack) : i # j => stack'[i].dir # stack'[j].dir
      <3>1. i \in DOMAIN stack /\ stack[i].dir \in Opened
        BY <1>10 DEF OnceInv, StackInv
      <3>2. \A j \in 1..Len(stack) : i # j => stack[i].dir # stack[j].dir
        BY <1>10 DEF OnceInv, StackInv
      <3> QED
        BY <1>3, <1>8, <1>10, <3>1, <3>2
    <2>2. \A i \in DOMAIN stack' : i \in 1..Len(stack) \/ i = Len(stack) + 1
      BY <1>10
    <2> QED
      BY <1>8, <1>9, <1>10, <2>1, <2>2 DEF StackInv
  <1>12. (Distinct(list) /\ Elements(list) \subseteq Elements(paths))'
    BY <1>1 DEF OnceInv, Distinct, Elements
  <1>13. (prefix[1] \in Elements(paths))'
    BY <1>1, <1>4, <1>6 DEF Elements
  <1> QED
    BY <1>3, <1>6, <1>11, <1>12, <1>13 DEF OnceInv

LEMMA OnceStep ==
    ASSUME RecurTypeOK, PrefixNamesTheStack, PathsApart, PathsApart', OnceInv,
           [WalkStep]_recurVars
    PROVE  OnceInv'
  <1>1. CASE OpenPath \/ PathIsItem \/ PathMissing
    BY <1>1, OncePaths
  <1>2. CASE DirectoryDone
    BY <1>2, OnceDone
  <1>3. CASE SkipEntry
    BY <1>3, OnceSkip
  <1>4. CASE EnterDirectory
    BY <1>4, OnceEnter
  <1>5. CASE ReturnEntry
    BY <1>5, OnceReturn
  <1>6. CASE UNCHANGED <<list, stack, prefix, paths, returned>>
    BY <1>6 DEF OnceInv, ReturnedInv, StackInv, Taken, Opened, Fresh, Distinct, Elements
  <1>7. CASE RecurOpen \/ RecurClose
    <2>1. stack' = <<>> /\ returned' = {} /\ list' = paths'
      BY <1>7 DEF RecurOpen, RecurClose
    <2> QED
      BY <2>1 DEF PathsApart, Apart, OnceInv, ReturnedInv, StackInv, Distinct, Elements
  <1>8. CASE RecurCall \/ Others \/ PathsDone \/ UNCHANGED recurVars
    BY <1>6, <1>8 DEF RecurCall, Others, PathsDone, recurVars
  <1> QED
    BY <1>1, <1>2, <1>3, <1>4, <1>5, <1>7, <1>8 DEF WalkStep, RecurNext, Caller

\* What a step returns was not returned before.
LEMMA FreshStep ==
    ASSUME RecurTypeOK, PrefixNamesTheStack, PathsApart, OnceInv, [WalkStep]_recurVars,
           at = "inside", at' = "item"
    PROVE  Fresh(Last(name'))
  <1>1. CASE PathIsItem
    <2>1. name' = <<Head(list)>> /\ AtPath
      BY <1>1 DEF PathIsItem, Returns
    <2>2. Last(name') = Head(list)
      BY <2>1 DEF Last
    <2>3. Head(list) \in Elements(list)
      <3>1. 1 \in DOMAIN list /\ Head(list) = list[1]
        BY <2>1, LenProperties, EmptySeq, HeadTailProperties DEF AtPath, RecurTypeOK
      <3> QED
        BY <3>1 DEF Elements
    <2> QED
      BY <2>2, <2>3, PathIsFresh DEF OnceInv
  <1>2. CASE EnterDirectory \/ ReturnEntry
    <2>1. Reading
      BY <1>2 DEF EnterDirectory, ReturnEntry
    <2>2. PICK e \in Top.left : name' = FullName(e)
      BY <1>2 DEF EnterDirectory, ReturnEntry, Returns
    <2>3. e \in Nodes /\ Fresh(e)
      BY <2>1, TopNamed
    <2>4. Last(name') = e
      BY <2>2, <2>3, AppendProperties, LenProperties DEF FullName, Last, RecurTypeOK
    <2> QED
      BY <2>3, <2>4
  <1>3. CASE OpenPath \/ PathMissing \/ PathsDone \/ DirectoryDone \/ SkipEntry
    BY <1>3 DEF OpenPath, PathMissing, PathsDone, DirectoryDone, SkipEntry
  <1>4. CASE Caller \/ Others \/ UNCHANGED recurVars
    BY <1>4 DEF Caller, RecurOpen, RecurCall, RecurClose, Others, recurVars
  <1> QED
    BY <1>1, <1>2, <1>3, <1>4 DEF WalkStep, RecurNext

ReturnsFresh == at = "inside" /\ at' = "item" => \A path \in returned : Last(path) # Last(name')

\* A walk over paths apart from each other returns no node twice, whatever is unlinked on
\* the way, whichever directories are too deep, and wherever links lead.
THEOREM NothingTwice == RecurSpec /\ []PathsApart => NeverTwice
  <1>1. RecurInit => RecurTypeOK /\ PrefixNamesTheStack
    BY DEF RecurInit, RecurTypeOK, PrefixNamesTheStack
  <1>2. RecurInit => OnceInv
    BY DEF RecurInit, OnceInv, ReturnedInv, StackInv, Distinct, Elements
  <1>3. ASSUME RecurTypeOK, PrefixNamesTheStack, PathsApart, OnceInv, [WalkStep]_recurVars
        PROVE  [ReturnsFresh]_recurVars
    BY <1>3, FreshStep DEF ReturnsFresh, Fresh
  <1> QED
    BY <1>1, <1>2, <1>3, TypeStep, NamesStep, OnceStep, PTL
    DEF RecurSpec, WalkStep, NeverTwice, ReturnsFresh

=============================================================================
