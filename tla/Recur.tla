------------------------------- MODULE Recur -------------------------------
(***************************************************************************)
(* The directory recursion of src/src/recur.c: recur_next returns the      *)
(* entries below the given paths one by one, from a stack of open          *)
(* directories and the path name of the one on top.                        *)
(*                                                                         *)
(* The file system is a forest of nodes that only ever loses leaves: the   *)
(* caller and others unlink them while the walk goes on.  A path name is   *)
(* the sequence of the nodes it names on the way, the first of which is a  *)
(* path of the command line; it resolves as long as each of them is where  *)
(* the name says.                                                          *)
(*                                                                         *)
(* WholePrefix, StatFollows, OneDeeper and NotAdvanced are faulty variants *)
(* of the definition that follows each (PROJECT.json, "mutants").          *)
(***************************************************************************)
EXTENDS Integers, Sequences

CONSTANTS
    Nodes,      \* what the file system contains
    NoNode,     \* the target of a dangling link, the parent of a root
    Parent,     \* the directory of each node
    Kind,       \* its type, as lstat tells it
    Target,     \* what a symbolic link names
    Locked,     \* nodes that cannot be opened
    MaxDepth,   \* RECUR_MAXDEPTH
    LongNames   \* the path names that do not fit into PATH_MAX

Kinds == {"dir", "file", "link", "socket", "other"}

ASSUME TreeAssumption ==
    /\ NoNode \notin Nodes
    /\ Kind \in [Nodes -> Kinds]
    /\ Parent \in [Nodes -> {d \in Nodes : Kind[d] = "dir"} \cup {NoNode}]
    /\ Target \in [Nodes -> {t \in Nodes : Kind[t] # "link"} \cup {NoNode}]
    /\ Locked \subseteq Nodes
ASSUME LimitAssumption == MaxDepth \in Nat \ {0} /\ LongNames \subseteq Seq(Nodes)

VARIABLES
    present,    \* the nodes still there
    at,         \* "closed", "inside" recur_next, "item" or "end" when it has returned
    list,       \* recur->list: the paths not opened yet
    stack,      \* stack->dirs up to pos: the directory and the entries readdir has left
    prefix,     \* stack->prefix
    name,       \* the name recur_next returned last
    paths,      \* history: the paths of this walk
    returned    \* history: the names this walk has returned

recurVars == <<present, at, list, stack, prefix, name, paths, returned>>

\* The node that opening or stat of n leads to.
Follow(n) == IF Kind[n] = "link" THEN Target[n] ELSE n

Children(d) == {n \in present : Parent[n] = d}

Last(s) == s[Len(s)]
Top == Last(stack)

\* lstat succeeds on this name.
Exists(path) ==
    /\ path \notin LongNames
    /\ \A i \in DOMAIN path : path[i] \in present
    /\ \A i \in 2..Len(path) : Parent[path[i]] = Follow(path[i - 1])

\* opendir succeeds on node n.
Opens(n) ==
    LET d == Follow(n)
    IN  n \in present /\ d \in present /\ Kind[d] = "dir" /\ d \notin Locked

Listing(d) == [dir |-> d, left |-> Children(d)]

\* parentdir
WholePrefix(s) == s
ParentDir(s) == SubSeq(s, 1, Len(s) - 1)

\* S_ISDIR of what lstat returned
StatFollows(n) == Follow(n) \in Nodes /\ Kind[Follow(n)] = "dir"
IsDir(n) == Kind[n] = "dir"

\* There is room on the stack for one more directory.
OneDeeper == Len(stack) <= MaxDepth
Fits == Len(stack) < MaxDepth

(***************************************************************************)
(* recur_open and recur_next's loop over the paths.                        *)
(***************************************************************************)

RecurInit ==
    /\ present = Nodes
    /\ at = "closed"
    /\ list = <<>> /\ stack = <<>> /\ prefix = <<>> /\ name = <<>>
    /\ paths = <<>> /\ returned = {}

\* recur_open, on the paths list'; the first of them fits, or there is no walk.
RecurOpen ==
    /\ at = "closed"
    /\ at' = "inside"
    /\ list' \in Seq(Nodes) \ {<<>>} /\ <<Head(list')>> \notin LongNames
    /\ paths' = list'
    /\ stack' = <<>> /\ returned' = {}
    /\ UNCHANGED <<prefix, name>>

\* The caller is done with the name and calls recur_next again.
RecurCall ==
    /\ at = "item"
    /\ at' = "inside"
    /\ UNCHANGED <<list, stack, prefix, name, paths, returned>>

\* recur_close, or the end of the process: the name is not read any more.
RecurClose ==
    /\ at # "closed" /\ at' = "closed"
    /\ list' = <<>> /\ stack' = <<>> /\ prefix' = <<>> /\ name' = <<>>
    /\ paths' = <<>> /\ returned' = {}

Returns(path) ==
    /\ at' = "item"
    /\ name' = path
    /\ returned' = returned \cup {path}

AtPath == at = "inside" /\ stack = <<>> /\ list # <<>>

OpenPath ==
    /\ AtPath /\ Exists(<<Head(list)>>) /\ Opens(Head(list))
    /\ stack' = <<Listing(Follow(Head(list)))>>
    /\ prefix' = <<Head(list)>>
    /\ list' = Tail(list)
    /\ UNCHANGED <<present, at, name, paths, returned>>

\* The path cannot be opened as a directory: it is returned itself.
PathIsItem ==
    /\ AtPath /\ Exists(<<Head(list)>>) /\ ~Opens(Head(list))
    /\ list' = Tail(list)
    /\ Returns(<<Head(list)>>)
    /\ UNCHANGED <<present, stack, prefix, paths>>

PathMissing ==
    /\ AtPath /\ ~Exists(<<Head(list)>>)
    /\ list' = Tail(list)
    /\ UNCHANGED <<present, at, stack, prefix, name, paths, returned>>

PathsDone ==
    /\ at = "inside" /\ stack = <<>> /\ list = <<>>
    /\ at' = "end"
    /\ UNCHANGED <<present, list, stack, prefix, name, paths, returned>>

(***************************************************************************)
(* dirstack_next.                                                          *)
(***************************************************************************)

Reading == at = "inside" /\ stack # <<>>

\* readdir is at the end of the directory on top.
DirectoryDone ==
    /\ Reading /\ Top.left = {}
    /\ stack' = SubSeq(stack, 1, Len(stack) - 1)
    /\ prefix' = IF Len(stack) = 1 THEN prefix ELSE ParentDir(prefix)
    /\ UNCHANGED <<present, at, list, name, paths, returned>>

FullName(e) == Append(prefix, e)

\* The stack after readdir has returned e.
NotAdvanced(e) == stack
Without(e) == [stack EXCEPT ![Len(stack)].left = @ \ {e}]

\* The name is too long, or the entry is gone.
Skipped(e) == ~Exists(FullName(e))

SkipEntry ==
    /\ Reading
    /\ \E e \in Top.left : Skipped(e) /\ stack' = Without(e)
    /\ UNCHANGED <<present, at, list, prefix, name, paths, returned>>

\* A directory is returned and opened: its entries come next.
EnterDirectory ==
    /\ Reading
    /\ \E e \in Top.left :
        /\ ~Skipped(e) /\ IsDir(e) /\ Fits /\ Opens(e)
        /\ stack' = Append(Without(e), Listing(Follow(e)))
        /\ prefix' = FullName(e)
        /\ Returns(FullName(e))
    /\ UNCHANGED <<present, list, paths>>

\* Anything else is only returned, as is a directory too deep or not to be opened.
ReturnEntry ==
    /\ Reading
    /\ \E e \in Top.left :
        /\ ~Skipped(e) /\ ~(IsDir(e) /\ Fits /\ Opens(e))
        /\ stack' = Without(e)
        /\ Returns(FullName(e))
    /\ UNCHANGED <<present, list, prefix, paths>>

\* A leaf is unlinked, by the caller or by others.
Unlink(n) ==
    /\ n \in present /\ Children(n) = {}
    /\ present' = present \ {n}

(***************************************************************************)
(* The specification of the walk, for any caller.                          *)
(***************************************************************************)

RecurNext ==
    \/ OpenPath \/ PathIsItem \/ PathMissing \/ PathsDone
    \/ DirectoryDone \/ SkipEntry \/ EnterDirectory \/ ReturnEntry

\* The caller may unlink a leaf before it calls.
Caller ==
    /\ RecurOpen \/ RecurCall \/ RecurClose
    /\ present' = present \/ \E n \in present : Unlink(n)

Others ==
    /\ \E n \in present : Unlink(n)
    /\ UNCHANGED <<at, list, stack, prefix, name, paths, returned>>

RecurSpec == RecurInit /\ [][RecurNext \/ Caller \/ Others]_recurVars

(***************************************************************************)
(* Properties.                                                             *)
(***************************************************************************)

RecurTypeOK ==
    /\ present \subseteq Nodes
    /\ at \in {"closed", "inside", "item", "end"}
    /\ list \in Seq(Nodes) /\ paths \in Seq(Nodes)
    /\ prefix \in Seq(Nodes) /\ name \in Seq(Nodes)
    /\ stack \in Seq([dir : Nodes, left : SUBSET Nodes])
    /\ returned \subseteq Seq(Nodes)

\* The path name kept beside the stack always names the directories on it, from the
\* path of the command line to the one being read, and they fit on the stack.
PrefixNamesTheStack ==
    stack # <<>> =>
        /\ Len(stack) <= MaxDepth
        /\ Len(prefix) = Len(stack)
        /\ \A i \in DOMAIN stack : stack[i].dir = Follow(prefix[i])

\* The names of directories that recur_next has to list.
Listed(path) ==
    /\ \/ path \in returned /\ IsDir(Last(path))
       \/ \E i \in DOMAIN paths : path = <<paths[i]>>
    /\ Len(path) <= MaxDepth /\ Exists(path) /\ Opens(Last(path))

\* A walk that has ended has returned every entry that is still there of each
\* directory it was given or has returned, unless that is too deep or not to be opened,
\* or the entry's name is too long.
NothingMissed ==
    at = "end" =>
        \A path \in returned \cup {<<n>> : n \in Nodes} :
            Listed(path) =>
                \A c \in Children(Follow(Last(path))) : Append(path, c) \in returned \cup LongNames

\* No walk over paths apart from each other returns a node twice.
NeverTwice ==
    [][at = "inside" /\ at' = "item" =>
        \A path \in returned : Last(path) # Last(name')]_recurVars

=============================================================================
