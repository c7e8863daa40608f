------------------------------- MODULE Files -------------------------------
(***************************************************************************)
(* FilesystemController and UploadController: handlers on several Drogon    *)
(* threads change one tree, each with calls that others may come between,   *)
(* and record afterwards what they did.  The question is what the record    *)
(* is worth.  Requests are well-formed; the contents of a file are the      *)
(* number of the upload.                                                    *)
(***************************************************************************)
EXTENDS FileTree, FiniteSets, SequencesExt

CONSTANTS
    Threads,      \* handler threads
    Trees,        \* trees there may be at first
    Faulty,       \* what may fail: "remove", "mkdir", "save"
    MaxRequests,  \* bound: requests received
    NoRequest     \* a thread that waits

Nodes == {Absent, Dir} \cup [kind : {"file"}, data : Nat]

\* A request with its progress; see Handling.
Request ==
    [op : {"remove", "mkdir", "rename", "upload", "get"}, path : Paths, to : Paths,
     at : {"start", "removing", "remove_all", "create_directories", "save", "emit"},
     todo : SUBSET Paths,
     event : {"none", "file.delete", "dir.delete", "dir.create", "file.rename", "file.move",
              "file.upload", "file.download"},
     result : {"none", "success", "failure"}, data : Nat]

ASSUME FilesAssumption ==
    /\ Trees \subseteq [Paths -> Nodes] /\ \A tree \in Trees : WellFormed(tree)
    /\ Faulty \subseteq {"remove", "mkdir", "save"} /\ MaxRequests \in Nat
    /\ NoRequest \notin Request

VARIABLES
    tree,       \* the tree under nas_root
    request,    \* what each thread handles, the request with its progress
    log,        \* events in the order of EventRecorder::emit
    first,      \* history: the tree at first
    requests,   \* history: requests received
    overlapped, \* history: two requests were handled at the same time
    lapsed      \* history: a call of the file system failed of its own accord

vars == <<tree, request, log, first, requests, overlapped, lapsed>>

MayFail(call) == IF call \in Faulty THEN BOOLEAN ELSE {FALSE}
Content(n) == [kind |-> "file", data |-> n]
Ancestors(p) == {SubSeq(p, 1, i) : i \in 1..Len(p)}

\* Where the entries of the subtree of p go when p is renamed to q.
Target(p, q, r) == q \o SubSeq(r, Len(p) + 1, Len(r))
Moved(t, p, q) ==
    IF p = q THEN t
    ELSE [r \in Paths |->
            CASE r \in Subtree(q) -> LET source == Target(q, p, r) IN
                                     IF source \in Paths THEN t[source] ELSE Absent
              [] r \in Subtree(p) \ Subtree(q) -> Absent
              [] OTHER            -> t[r]]

Init ==
    /\ tree \in Trees /\ first = tree /\ log = <<>>
    /\ request = [t \in Threads |-> NoRequest]
    /\ requests = 0 /\ overlapped = FALSE /\ lapsed = FALSE

-----------------------------------------------------------------------------
(* Handlers *)

Event(type, path, to, result, data) ==
    [type |-> type, path |-> path, to |-> to, result |-> result, data |-> data]

\* Each handler: safePath, a step or more on the tree, emit, the answer.  todo is
\* what a call that works entry by entry has still to do.
Handling(op, path, to) ==
    [op |-> op, path |-> path, to |-> to, at |-> "start", todo |-> {},
     event |-> "none", result |-> "none", data |-> requests + 1]

Receive(t) ==
    /\ request[t] = NoRequest /\ requests < MaxRequests /\ requests' = requests + 1
    /\ \E op \in {"remove", "mkdir", "rename", "upload", "get"}, p, q \in Paths :
          /\ op # "rename" => q = p
          /\ request' = [request EXCEPT ![t] = Handling(op, p, q)]
    /\ overlapped' = (overlapped \/ \E u \in Threads : request[u] # NoRequest)
    /\ UNCHANGED <<tree, log, first, lapsed>>

Is(t, op, at) == request[t] # NoRequest /\ request[t].op = op /\ request[t].at = at

Continue(t, r) ==
    request' = [request EXCEPT ![t] = r] /\ UNCHANGED <<log, first, requests, overlapped>>
Emits(t, type, result) ==
    Continue(t, [request[t] EXCEPT !.at = "emit", !.event = type, !.result = result,
                                   !.todo = {}])

\* What safePath refuses is recorded as a failure.
Types == [remove |-> "file.delete", mkdir |-> "dir.create", rename |-> "file.rename",
          upload |-> "file.upload", get |-> "file.download"]
Refuse(t) ==
    /\ request[t] # NoRequest /\ request[t].at = "start"
    /\ Emits(t, Types[request[t].op], "failure") /\ UNCHANGED <<tree, lapsed>>

\* remove: is_directory decides on the type of the event, then remove_all takes
\* the entries it finds, the deepest first, and the directory itself.
TestKind(t) ==
    /\ Is(t, "remove", "start")
    /\ LET p == request[t].path IN
       Continue(t, [request[t] EXCEPT
           !.at = "removing",
           !.event = IF tree[p] = Dir THEN "dir.delete" ELSE "file.delete"])
    /\ UNCHANGED <<tree, lapsed>>

FindEntries(t) ==
    /\ Is(t, "remove", "removing")
    /\ Continue(t, [request[t] EXCEPT !.at = "remove_all", !.todo =
                       {p \in Subtree(request[t].path) : tree[p] # Absent}])
    /\ UNCHANGED <<tree, lapsed>>

RemoveEntry(t) ==
    /\ Is(t, "remove", "remove_all")
    /\ LET r == request[t] IN
       IF r.todo = {} THEN Emits(t, r.event, "success") /\ UNCHANGED <<tree, lapsed>>
       ELSE \E p \in {x \in r.todo : Below(x) \cap r.todo = {}}, fails \in MayFail("remove") :
              /\ lapsed' = (lapsed \/ fails)
              /\ IF fails \/ \E q \in Below(p) : tree[q] # Absent
                 THEN Emits(t, r.event, "failure") /\ UNCHANGED tree
                 ELSE /\ tree' = Without(tree, {p})
                      /\ Continue(t, [r EXCEPT !.todo = @ \ {p}])

\* mkdir: create_directories makes what is missing, from the top.
FindMissing(t) ==
    /\ Is(t, "mkdir", "start")
    /\ Continue(t, [request[t] EXCEPT !.at = "create_directories", !.todo =
                       {p \in Ancestors(request[t].path) : tree[p] # Dir}])
    /\ UNCHANGED <<tree, lapsed>>

MakeDirectory(t) ==
    /\ Is(t, "mkdir", "create_directories")
    /\ LET r == request[t] IN
       IF r.todo = {} THEN Emits(t, "dir.create", "success") /\ UNCHANGED <<tree, lapsed>>
       ELSE \E p \in {x \in r.todo : Ancestors(x) \cap r.todo = {x}}, fails \in MayFail("mkdir") :
              /\ lapsed' = (lapsed \/ fails)
              /\ IF fails \/ IsFile(tree[p]) \/ ~IsDirIn(tree, Parent(p))
                 THEN Emits(t, "dir.create", "failure") /\ UNCHANGED tree
                 ELSE /\ tree' = [tree EXCEPT ![p] = Dir]
                      /\ Continue(t, [r EXCEPT !.todo = @ \ {p}])

\* rename, one call: it replaces a file by a file, an empty directory by a
\* directory, and nothing by something else.
AnyParent(p, q) == tree[p] # Absent /\ q \notin Below(p)       \* mutant of CanRename
CanRename(p, q) ==
    /\ tree[p] # Absent /\ IsDirIn(tree, Parent(q)) /\ q \notin Below(p)
    /\ p = q \/ tree[q] = Absent \/ (IsFile(tree[p]) /\ IsFile(tree[q]))
       \/ (tree[p] = Dir /\ tree[q] = Dir /\ \A r \in Below(q) : tree[r] = Absent)
\* Bound: what is moved has a name in Paths.
Fits(p, q) == \A r \in Below(p) : tree[r] # Absent => Target(p, q, r) \in Paths
RenameType(p, q) == IF Parent(p) = Parent(q) THEN "file.rename" ELSE "file.move"
DoRename(t) ==
    /\ Is(t, "rename", "start") /\ UNCHANGED lapsed
    /\ LET p == request[t].path q == request[t].to IN
       IF CanRename(p, q)
       THEN Fits(p, q) /\ tree' = Moved(tree, p, q) /\ Emits(t, RenameType(p, q), "success")
       ELSE UNCHANGED tree /\ Emits(t, RenameType(p, q), "failure")

\* upload: the destination is tested, then saveAs writes, and nobody looks at
\* its result.  It cannot replace a directory, which it leaves as it is; a
\* destination that went meanwhile is made anew, or not.
Answer(t) == request' = [request EXCEPT ![t] = NoRequest]
TestDestination(t) ==
    /\ Is(t, "upload", "start") /\ UNCHANGED <<tree, lapsed>>
    /\ IF IsDirIn(tree, Parent(request[t].path))
       THEN Continue(t, [request[t] EXCEPT !.at = "save"])
       ELSE Answer(t) /\ UNCHANGED <<log, first, requests, overlapped>>

Save(t) ==
    /\ Is(t, "upload", "save") /\ Emits(t, "file.upload", "success")
    /\ LET p == request[t].path
           above == Ancestors(p) \ {p}
           made == [r \in Paths |-> IF r \in above THEN Dir ELSE tree[r]]
       IN  \/ /\ tree[p] # Dir /\ \A r \in above : ~IsFile(tree[r])
              /\ tree' = [made EXCEPT ![p] = Content(request[t].data)] /\ UNCHANGED lapsed
           \/ (tree[p] = Dir \/ ~IsDirIn(tree, Parent(p))) /\ UNCHANGED <<tree, lapsed>>
           \/ /\ "save" \in Faulty /\ tree[p] # Dir /\ IsDirIn(tree, Parent(p))
              /\ tree' \in {tree, [tree EXCEPT ![p] = Content(0)]} /\ lapsed' = TRUE

\* get: the event comes before the file is opened for the answer.
TestFile(t) ==
    /\ Is(t, "get", "start") /\ UNCHANGED <<tree, lapsed>>
    /\ IF IsFile(tree[request[t].path]) THEN Emits(t, "file.download", "success")
       ELSE Answer(t) /\ UNCHANGED <<log, first, requests, overlapped>>

FailureUntold(r) ==                                       \* mutant of Recorded
    IF r.result = "failure" /\ r.op = "remove" THEN <<>>
    ELSE <<Event(r.event, r.path, r.to, r.result, r.data)>>
SourceTwice(r) == <<Event(r.event, r.path, r.path, r.result, r.data)>> \* mutant of Recorded
Recorded(r) == <<Event(r.event, r.path, r.to, r.result, r.data)>>
Emit(t) ==
    /\ request[t] # NoRequest /\ request[t].at = "emit"
    /\ log' = log \o Recorded(request[t])
    /\ Answer(t) /\ UNCHANGED <<tree, first, requests, overlapped, lapsed>>

Handle(t) ==
    \/ Refuse(t) \/ TestKind(t) \/ FindEntries(t) \/ RemoveEntry(t)
    \/ FindMissing(t) \/ MakeDirectory(t) \/ DoRename(t)
    \/ TestDestination(t) \/ Save(t) \/ TestFile(t) \/ Emit(t)

Next == \E t \in Threads : Receive(t) \/ Handle(t)

Spec == Init /\ [][Next]_vars

-----------------------------------------------------------------------------
(* Properties *)

\* Types; and no order of the steps leaves anything below a path that is not a
\* directory.
TypeOK ==
    /\ tree \in [Paths -> Nodes] /\ WellFormed(tree)
    /\ \A t \in Threads : request[t] # NoRequest =>
          request[t].todo \subseteq Subtree(request[t].path) \cup Ancestors(request[t].path)
    /\ Len(log) <= requests /\ requests \in Nat
    /\ overlapped \in BOOLEAN /\ lapsed \in BOOLEAN

Idle == \A t \in Threads : request[t] = NoRequest

\* The tree that an event describes, made from the one before it.
After(t, e) ==
    IF e.result = "failure" THEN t ELSE
    CASE e.type \in {"file.delete", "dir.delete"} -> Without(t, Subtree(e.path))
      [] e.type = "dir.create" ->
            [r \in Paths |-> IF r \in Ancestors(e.path) THEN Dir ELSE t[r]]
      [] e.type \in {"file.rename", "file.move"} -> Moved(t, e.path, e.to)
      [] e.type = "file.upload" ->
            IF t[e.path] = Dir THEN t ELSE [t EXCEPT ![e.path] = Content(e.data)]
      [] OTHER -> t

\* The tree made from the events alone, one by one; an upload that is told as a
\* success over a directory cannot have changed it.
Replayed ==
    LET upTo[i \in 0..Len(log)] == IF i = 0 THEN first ELSE After(upTo[i - 1], log[i])
    IN  upTo[Len(log)]

\* The tree can be had back from the events alone, event by event, as long as no
\* two requests overlap and every call does what it is asked; a request answered
\* before the next is sent is recorded before it (FilesystemController.cpp:143-281,
\* UploadController.cpp:63-75).
LogReplays == Idle /\ ~overlapped /\ ~lapsed => Replayed = tree

\* Whatever overlaps or fails, a path that is not as it was at first is named by
\* an event, that of a removal which failed half-way among them
\* (FilesystemController.cpp:146-160, 197-211).
Named(e, p) ==
    CASE e.type \in {"file.delete", "dir.delete"} -> p \in Subtree(e.path)
      [] e.type \in {"dir.create", "file.upload"} -> p \in Ancestors(e.path)
      [] e.type \in {"file.rename", "file.move"}  -> p \in Subtree(e.path) \cup Subtree(e.to)
      [] OTHER -> FALSE
EveryChangeTold ==
    Idle => \A p \in Paths : tree[p] # first[p] => \E e \in Range(log) : Named(e, p)
=============================================================================
