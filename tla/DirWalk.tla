------------------------------ MODULE DirWalk -------------------------------
(***************************************************************************)
(* The two programs that descend a directory tree: myfind                  *)
(* (Exp_2_Traversing_Directory_Tree/myfind.c: statistics, -comp, -name)    *)
(* and the book's ftw (apue.2e/file/ftw4.c).  Both build every pathname in *)
(* ONE buffer, fullpath, that all the activations of doPath share: each    *)
(* remembers only where its own directory's part ends (ptr).  Other        *)
(* processes change the tree while it is walked.                           *)
(*                                                                         *)
(* A pathname is the sequence of its names and slashes, <<"/","d","/","a">>;*)
(* a place in the tree is the sequence of the names that lead to it from   *)
(* the root.  A file's bytes are a sequence over "x", "y" and "NUL".       *)
(***************************************************************************)
EXTENDS Integers, Sequences, FiniteSets, FiniteSetsExt, SequencesExt

CONSTANTS
    Names,        \* what a file may be called
    Commands,     \* command lines: [prog, mode, start, source, names]
    Places,       \* the places where there may be a file
    Tree,         \* what is there when the program starts: Files, or NoNode
    Nodes,        \* what may come to a place
    NoNode,
    Cwd,          \* the place the program is started in
    Small,        \* 4096 in myfind.c:271
    OpenMax,      \* the descriptors that a process has for directories and files
    MaxChanges    \* changes that other processes make meanwhile

VARIABLES
    command,      \* argv
    fs,           \* the tree
    touched,      \* the places that have been changed
    changes,      \* how many changes there were
    filebuf,      \* -comp: the bytes of the source file
    in_path,      \* where the walk starts
    in_filepath,  \* -comp: the full pathname of the source file
    argi,         \* -name: how many of the names are done
    fullpath,     \* the buffer
    dirs,         \* the activations in their readdir loop: [ptr, left]
    called,       \* what func() is to be called with: [type, node]
    counts,       \* nreg, nsreg, ndir, ...
    seen,         \* history: what was counted, [path, node]
    printed,      \* the pathnames printed, of which found_count is the number
    at            \* where the program is

dirVars == <<command, fs, touched, changes, filebuf, in_path, in_filepath, argi, fullpath, dirs,
             called, counts, seen, printed, at>>

Kinds == {"reg", "dir", "blk", "chr", "fifo", "lnk", "sock"}
Files == [kind : Kinds, open : BOOLEAN, bytes : Seq({"x", "y", "NUL"})]
IsDir(node) == node # NoNode /\ node.kind = "dir"

-----------------------------------------------------------------------------
(* What the programs are run on. *)

Pathnames == Seq(Names \cup {"/", "."}) \ {<<>>}

\* What there may be, and the program's own directory is one.
ASSUME TreeAssumption ==
    /\ {"/", "."} \cap Names = {}
    /\ IsFiniteSet(Places) /\ Places \subseteq Seq(Names)
    /\ \A p \in Places : Prefixes(p) \subseteq Places
    /\ Nodes \subseteq Files \cup {NoNode} /\ Tree \in [Places -> Files \cup {NoNode}]
    /\ Cwd \in Places /\ IsDir(Tree[Cwd]) /\ OpenMax \in Nat \ {0}

\* ftw4 only counts, and the last name of the source file's path is the file's.
ASSUME CommandAssumption ==
    \A c \in Commands :
       /\ c.prog \in {"myfind", "ftw4"} /\ c.mode \in {"stat", "comp", "name"}
       /\ c.prog = "ftw4" => c.mode = "stat"
       /\ c.start \in Pathnames
       /\ c.mode = "comp" => /\ c.source \in Pathnames /\ Last(c.source) \in Names
                             /\ \A i \in 2 .. Len(c.source) : "/" \in {c.source[i - 1], c.source[i]}

-----------------------------------------------------------------------------
(* Pathnames. *)

\* The place a pathname leads to: slashes may be doubled, "." is where we are.
Place(path) ==
    LET names == FlattenSeq([i \in DOMAIN path |->
                                IF path[i] \in {"/", "."} THEN <<>> ELSE <<path[i]>>])
    IN  IF path # <<>> /\ Head(path) = "/" THEN names ELSE Cwd \o names

NodeAt(place) == IF place \in Places THEN fs[place] ELSE NoNode

\* chdir, getcwd, and a slash at the end unless it is the root's.
getAbsPath(place) ==
    <<"/">> \o FlattenSeq([i \in DOMAIN place |-> <<place[i], "/">>])

\* The place of the last slash; 0 for none, and for one that comes first.
getFilenamePos(path) ==
    LET slashes == {i \in DOMAIN path : path[i] = "/"}
    IN  IF slashes \subseteq {1} THEN 0 ELSE Max(slashes)

FileName(path) == SubSeq(path, getFilenamePos(path) + 1, Len(path))

-----------------------------------------------------------------------------
(* Comparison with strcmp of two buffers of the same length that malloc gave *)
(* and read filled: nothing ends the text of a file without a NUL byte, so   *)
(* two equal ones may or may not be found equal.                             *)

CString(bytes) ==
    LET nuls == {i \in DOMAIN bytes : bytes[i] = "NUL"}
    IN  IF nuls = {} THEN bytes ELSE SubSeq(bytes, 1, Min(nuls))

HasEnd(bytes) == "NUL" \in ToSet(bytes)

Matches(b1, b2) == IF CString(b1) # CString(b2) THEN {FALSE}
                   ELSE IF HasEnd(b1) THEN {TRUE} ELSE BOOLEAN

-----------------------------------------------------------------------------
(* The walk. *)

myFTW(path) == /\ fullpath' = path /\ dirs' = <<>> /\ at' = "doPath"

DirInit ==
    /\ command \in Commands /\ fs = Tree /\ touched = {} /\ changes = 0
    /\ filebuf = <<>> /\ in_path = <<>> /\ in_filepath = <<>> /\ argi = 0
    /\ fullpath = <<>> /\ dirs = <<>> /\ called = <<>>
    /\ counts = [k \in Kinds \cup {"small"} |-> 0]
    /\ seen = <<>> /\ printed = <<>> /\ at = "main"

\* myfind changes a pathname that is no directory to the current one.
StartPath ==
    IF command.prog = "myfind" /\ ~IsDir(NodeAt(Place(command.start)))
    THEN <<".">> ELSE command.start

StartStat ==
    /\ command.mode = "stat" /\ in_path' = StartPath /\ myFTW(StartPath)
    /\ UNCHANGED <<filebuf, in_filepath>>

\* The directory of the source file, as the command line names it.
SourceDir == LET pos == getFilenamePos(command.source)
             IN  IF pos = 0 THEN <<".">> ELSE SubSeq(command.source, 1, pos)

StartComp ==
    LET node == NodeAt(Place(command.source))
        start == getAbsPath(Place(StartPath))
    IN  /\ command.mode = "comp"
        /\ filebuf' = node.bytes /\ in_path' = start
        /\ in_filepath' = getAbsPath(Place(SourceDir)) \o FileName(command.source)
        /\ myFTW(start)

StartNames ==
    /\ command.mode = "name" /\ in_path' = getAbsPath(Place(StartPath))
    /\ at' = "names" /\ UNCHANGED <<filebuf, in_filepath, fullpath, dirs>>

\* err_quit and err_sys: there is nothing to walk, or nothing to compare with.
MayStart ==
    /\ command.prog = "myfind" => NodeAt(Place(command.start)) # NoNode
    /\ command.mode = "comp" => LET node == NodeAt(Place(command.source))
                                IN  node # NoNode /\ node.kind = "reg" /\ node.open

DirMain ==
    /\ at = "main"
    /\ IF MayStart THEN StartStat \/ StartComp \/ StartNames
       ELSE at' = "quit" /\ UNCHANGED <<filebuf, in_path, in_filepath, fullpath, dirs>>
    /\ UNCHANGED <<command, fs, touched, changes, argi, called, counts, seen, printed>>

\* Names with a slash are refused; each of the others is a walk of its own.
NextName ==
    /\ at = "names" \/ (at = "reported" /\ command.mode = "name")
    /\ argi < Len(command.names) /\ argi' = argi + 1
    /\ IF "/" \in ToSet(command.names[argi + 1])
       THEN at' = "names" /\ UNCHANGED <<fullpath, dirs>>
       ELSE myFTW(in_path)
    /\ printed' = <<>>
    /\ UNCHANGED <<command, fs, touched, changes, filebuf, in_path, in_filepath, called, counts,
                   seen>>

\* doPath: lstat, which does not follow links, and the call of func it leads to.
Lstat ==
    LET node == NodeAt(Place(fullpath))
        type == IF node = NoNode THEN "FTW_NS" ELSE IF IsDir(node) THEN "FTW_D" ELSE "FTW_F"
    IN  /\ at = "doPath"
        /\ called' = [type |-> type, node |-> node] /\ at' = "func"
        /\ UNCHANGED <<command, fs, touched, changes, filebuf, in_path, in_filepath, argi,
                       fullpath, dirs, counts, seen, printed>>

AfterFunc == at' = IF called.type = "FTW_D" THEN "opendir" ELSE "return"

\* findStat and ftw4's myfunc.
SmallReg(node) == node.kind = "reg" /\ Len(node.bytes) <= Small

findStat ==
    LET node == called.node
    IN  /\ command.mode = "stat"
        /\ IF called.type = "FTW_NS" THEN UNCHANGED <<counts, seen>>
           ELSE /\ counts' = [counts EXCEPT ![node.kind] = @ + 1,
                                            !["small"] = @ + (IF SmallReg(node) THEN 1 ELSE 0)]
                /\ seen' = Append(seen, [path |-> fullpath, node |-> node])
        /\ AfterFunc /\ UNCHANGED printed

\* A directory's stream holds a descriptor until its closedir.
NoneFree == Len(dirs) >= OpenMax

\* The file may have gone or changed since lstat: a short one ends the program.
findComp ==
    LET node == NodeAt(Place(fullpath))
        n == Len(filebuf)
        candidate == /\ called.type = "FTW_F" /\ called.node.kind = "reg"
                     /\ Len(called.node.bytes) = n
    IN  /\ command.mode = "comp"
        /\ IF ~candidate \/ node = NoNode
           THEN AfterFunc /\ UNCHANGED printed
           ELSE IF node.kind = "lnk" \/ ~node.open \/ NoneFree
           THEN AfterFunc /\ UNCHANGED printed
           ELSE IF Len(node.bytes) < n \/ node.kind # "reg"
           THEN at' = "quit" /\ UNCHANGED printed
           ELSE /\ \E equal \in Matches(filebuf, SubSeq(node.bytes, 1, n)) :
                      printed' = IF equal /\ in_filepath # fullpath
                                 THEN Append(printed, fullpath) ELSE printed
                /\ AfterFunc
        /\ UNCHANGED <<counts, seen>>

findName ==
    /\ command.mode = "name"
    /\ printed' = IF called.type = "FTW_F" /\ FileName(fullpath) = command.names[argi]
                  THEN Append(printed, fullpath) ELSE printed
    /\ AfterFunc /\ UNCHANGED <<counts, seen>>

CallFunc ==
    /\ at = "func" /\ (findStat \/ findComp \/ findName)
    /\ UNCHANGED <<command, fs, touched, changes, filebuf, in_path, in_filepath, argi, fullpath,
                   dirs, called>>

\* ftw4 always appends a slash, myfind only where there is none.
Slashed == IF command.prog = "myfind" /\ Last(fullpath) = "/" THEN fullpath
           ELSE Append(fullpath, "/")

Children(place) ==
    {p \in Places : p # <<>> /\ Front(p) = place /\ fs[p] # NoNode}

\* opendir fails on what is no directory any more, on one that we can't read and
\* when no descriptor is free: func is told FTW_DNR, which every func ignores.
Opendir ==
    LET node == NodeAt(Place(fullpath))
    IN  /\ at = "opendir" /\ fullpath' = Slashed
        /\ IF ~IsDir(node) THEN UNCHANGED dirs
           ELSE IF ~node.open \/ NoneFree THEN UNCHANGED dirs
           ELSE dirs' = Append(dirs, [ptr |-> Len(Slashed) + 1,
                              left |-> {Last(p) : p \in Children(Place(fullpath))}])
        /\ at' = "return"
        /\ UNCHANGED <<command, fs, touched, changes, filebuf, in_path, in_filepath, argi, called,
                       counts, seen, printed>>

MutAppendName(dir, name) == Append(fullpath, name)

\* strcpy(ptr, dirp->d_name).
PathOf(dir, name) == Append(SubSeq(fullpath, 1, dir.ptr - 1), name)

\* The innermost readdir loop goes on with the next name.
Readdir ==
    LET dir == Last(dirs)
    IN  /\ at = "return" /\ dirs # <<>>
        /\ \E name \in dir.left :
              /\ fullpath' = PathOf(dir, name)
              /\ dirs' = [dirs EXCEPT ![Len(dirs)].left = @ \ {name}]
        /\ at' = "doPath"
        /\ UNCHANGED <<command, fs, touched, changes, filebuf, in_path, in_filepath, argi, called,
                       counts, seen, printed>>

\* ptr[-1] = 0, closedir, return(ret).
Closedir ==
    LET dir == Last(dirs)
    IN  /\ at = "return" /\ dirs # <<>> /\ dir.left = {}
        /\ fullpath' = SubSeq(fullpath, 1, dir.ptr - 2)
        /\ dirs' = Front(dirs)
        /\ UNCHANGED <<command, fs, touched, changes, filebuf, in_path, in_filepath, argi, called,
                       counts, seen, printed, at>>

\* The walk is over: its result is on the terminal.
Report ==
    /\ at = "return" /\ dirs = <<>> /\ at' = "reported"
    /\ UNCHANGED <<command, fs, touched, changes, filebuf, in_path, in_filepath, argi, fullpath,
                   dirs, called, counts, seen, printed>>

\* What an activation has in front of its name, and the place of its directory.
Stem(i) == SubSeq(fullpath, 1, dirs[i].ptr - 1)
Home(i) == Place(Stem(i))

\* Another process removes, replaces or creates what has nothing below it.  An
\* activation that is reading the directory is still, or again, given the name,
\* or it is not: what readdir returns of what came or went after opendir is not
\* specified.
Change ==
    /\ changes < MaxChanges /\ changes' = changes + 1 /\ at \notin {"main", "quit", "reported"}
    /\ \E p \in Places \ {<<>>}, node \in Nodes, given \in BOOLEAN :
          /\ Children(p) = {} /\ IsDir(fs[Front(p)]) /\ node # fs[p]
          /\ fs' = [fs EXCEPT ![p] = node] /\ touched' = touched \cup {p}
          /\ dirs' = [i \in DOMAIN dirs |->
                [dirs[i] EXCEPT !.left =
                   IF Home(i) # Front(p) THEN @
                   ELSE IF given /\ node # NoNode THEN @ \cup {Last(p)}
                   ELSE IF given THEN @ ELSE @ \ {Last(p)}]]
    /\ UNCHANGED <<command, filebuf, in_path, in_filepath, argi, fullpath, called, counts, seen,
                   printed, at>>

DirNext == \/ DirMain \/ Lstat \/ CallFunc \/ Opendir \/ Readdir \/ Closedir
           \/ Report \/ NextName \/ Change

-----------------------------------------------------------------------------
(* What the walk must report. *)

\* The places nobody changed and that can be reached from the start, by opening
\* no more directories than there are descriptors.
Steady == {p \in Places : /\ Place(in_path) \in Prefixes(p) /\ fs[p] # NoNode
                          /\ Prefixes(p) \cap touched = {}
                          /\ Len(p) <= Len(Place(in_path)) + OpenMax
                          /\ \A q \in Prefixes(p) \ {p} :
                                Place(in_path) \in Prefixes(q) => IsDir(fs[q]) /\ fs[q].open}

TimesPrinted(place) == Cardinality({i \in DOMAIN printed : Place(printed[i]) = place})

SeenAt(place) == {i \in DOMAIN seen : Place(seen[i].path) = place}

\* The statistics count each file once, as what it is.
StatExact ==
    /\ \A p \in Steady : \E i \in DOMAIN seen : SeenAt(p) = {i} /\ seen[i].node = fs[p]
    /\ \A k \in Kinds : counts[k] = Cardinality({i \in DOMAIN seen : seen[i].node.kind = k})
    /\ counts["small"] = Cardinality({i \in DOMAIN seen : SmallReg(seen[i].node)})

\* A file with the size and the text of the source, for whose opening there is a
\* descriptor left.
SameText(p) ==
    /\ fs[p].kind = "reg" /\ fs[p].open /\ Len(p) < Len(Place(in_path)) + OpenMax
    /\ Len(fs[p].bytes) = Len(filebuf) /\ CString(fs[p].bytes) = CString(filebuf)

\* -comp finds each other file with the same size and the same text once, if a
\* NUL byte ends the text, and never the source itself, unless it was given as
\* a file of the root directory.
CompExact ==
    LET source == Place(command.source)
    IN  /\ \A p \in Steady \ {source} :
              /\ TimesPrinted(p) <= (IF SameText(p) THEN 1 ELSE 0)
              /\ SameText(p) /\ HasEnd(filebuf) => TimesPrinted(p) = 1
        /\ Len(source) # 1 \/ Head(command.source) # "/" => TimesPrinted(source) = 0

\* -name finds each file of that name that is no directory once, unless it is
\* directly in the root directory.
NameExact ==
    argi > 0 => \A p \in Steady :
       TimesPrinted(p) = IF /\ fs[p].kind # "dir" /\ Len(p) > 1
                            /\ <<Last(p)>> = command.names[argi] THEN 1 ELSE 0

\* Although all the activations of doPath write into the one buffer and other
\* processes remove, replace and create files meanwhile, and readdir returns
\* those or not and perhaps once more, when a walk has ended every file that
\* nobody changed, and that is not deeper than there are descriptors, has been
\* counted, compared or printed exactly once, as what it is.
WalkExact ==
    at = "reported" =>
        CASE command.mode = "stat" -> StatExact
          [] command.mode = "comp" -> CompExact
          [] command.mode = "name" -> NameExact

=============================================================================
