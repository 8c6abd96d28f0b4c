------------------------------- MODULE Storage -------------------------------
(***************************************************************************)
(* lib/structs/storage.py with load() and save() of service.py: the        *)
(* configuration of the daemon or of a client.  Handlers and tasks read    *)
(* and set values in memory by dotted names; some save it, as a whole; on  *)
(* a reload the file is merged into it, name by name at the top.  The user *)
(* edits the file meanwhile.                                               *)
(***************************************************************************)
EXTENDS Naturals, Sequences

CONSTANTS
    Name,        \* names at the top that are not reserved
    Sub,         \* names below one of them
    Value,       \* values that are no dictionary
    None         \* no value

VARIABLES
    data,        \* _data: each name has None, a value or a dictionary
    file,        \* the same of the file
    marked,      \* has the file the name "_"?
    malformed,   \* can the file not be loaded?
    readOnly,    \* _read_only
    wanted,      \* the last values that were set, in memory or in the file
    dirty,       \* names set in memory since it was saved
    edited,      \* names edited in the file since it was loaded
    lapse        \* why a value may be lost: see Lapsed

diskVars == <<file, marked, malformed>>
storageVars == <<data, diskVars, readOnly, wanted, dirty, edited, lapse>>

\* "unsaved": a reload has replaced a name that was set and not saved; "unread": the file was
\* saved over edits that were not loaded; "removed": a name has gone from the file, and a
\* reload keeps it; "torn": a save has failed after the file was emptied.
Lapsed(l, happened) == IF happened THEN {l} ELSE {}

Nothing == [n \in Name |-> None]

StorageInit ==
    /\ data = Nothing /\ file = Nothing /\ wanted = Nothing
    /\ marked = FALSE /\ malformed = FALSE /\ readOnly \in BOOLEAN
    /\ dirty = {} /\ edited = {} /\ lapse = {}

-----------------------------------------------------------------------------
(* Dotted names: of one part, or of two.                                   *)

Path == {<<n>> : n \in Name} \cup {<<n, s>> : n \in Name, s \in Sub}

IsDict(entry) == entry \notin Value \cup {None}

EmptyDict == [s \in Sub |-> None]

Read(tree, p) ==     \* None is what is found where nothing is
    IF Len(p) = 1 THEN tree[p[1]]
    ELSE IF IsDict(tree[p[1]]) THEN tree[p[1]][p[2]] ELSE None

\* Below a value that is no dictionary there is an AttributeError.
Raises(tree, p) == Len(p) = 2 /\ tree[p[1]] \in Value

\* Dictionaries on the way are made.
Put(tree, p, v) ==
    IF Len(p) = 1 THEN [tree EXCEPT ![p[1]] = v]
    ELSE [tree EXCEPT ![p[1]] = [(IF IsDict(@) THEN @ ELSE EmptyDict) EXCEPT ![p[2]] = v]]

-----------------------------------------------------------------------------
(* Handlers and tasks.                                                     *)

Set(p, v) ==     \* set()
    /\ ~Raises(data, p)
    /\ data' = Put(data, p, v)
    /\ wanted' = [wanted EXCEPT ![p[1]] = Put(data, p, v)[p[1]]]
    /\ dirty' = dirty \cup {p[1]}
    /\ UNCHANGED <<diskVars, readOnly, edited, lapse>>

Default(p, v) ==     \* get() with set_non_exist, for what is not there
    /\ Read(data, p) = None
    /\ Set(p, v)

\* save() of the service.  An error is only logged: of a file that cannot be opened, which is
\* left as it is, or of a write, which leaves it empty, and an empty one is not loaded.
Save ==
    /\ ~readOnly
    /\ \/ /\ file' = data /\ marked' = FALSE /\ malformed' = FALSE
          /\ dirty' = {} /\ edited' = {}
          /\ lapse' = lapse \cup Lapsed("unread", edited # {} \/ marked)
       \/ UNCHANGED <<diskVars, dirty, edited, lapse>>
       \/ /\ file' = Nothing /\ marked' = FALSE /\ malformed' = TRUE
          /\ dirty' = Name /\ edited' = {}
          /\ lapse' = lapse \cup {"torn"}
    /\ UNCHANGED <<data, readOnly, wanted>>

Missing(n) == file[n] = None

\* Mutated: what is only in memory is dropped.
Replaced == file

\* update()
Merged == [n \in Name |-> IF Missing(n) THEN data[n] ELSE file[n]]

\* HOOK_RELOAD: load() of the service; a file that cannot be loaded changes nothing.
Load ==
    /\ ~malformed
    /\ data' = Merged
    /\ readOnly' = (readOnly \/ marked)
    /\ dirty' = {n \in dirty : Missing(n)}
    /\ edited' = {}
    /\ lapse' = lapse \cup Lapsed("unsaved", \E n \in dirty : ~Missing(n))
                      \cup Lapsed("removed", \E n \in edited : Missing(n))
    /\ UNCHANGED <<diskVars, wanted>>

-----------------------------------------------------------------------------
(* The user.                                                               *)

Edit(p, v) ==     \* v may be None
    /\ ~Raises(file, p)
    /\ file' = Put(file, p, v)
    /\ marked' \in BOOLEAN
    /\ malformed' \in BOOLEAN
    /\ wanted' = [wanted EXCEPT ![p[1]] = file'[p[1]]]
    /\ edited' = edited \cup {p[1]}
    /\ UNCHANGED <<data, readOnly, dirty, lapse>>

\* Until a value is lost.
StorageNext ==
    /\ lapse = {}
    /\ \/ \E p \in Path, v \in Value : Set(p, v) \/ Default(p, v) \/ Edit(p, v)
       \/ \E n \in Name : Edit(<<n>>, None)
       \/ Save \/ Load

-----------------------------------------------------------------------------
(* Properties.                                                             *)

\* A name that was not edited since the last load has in memory the value that was set last,
\* in memory or in the file, and one that was not set since the last save has it in the file;
\* until a value is lost by one of the ways of Lapsed.
ConfigKept ==
    lapse = {} =>
        \A n \in Name :
            /\ n \in edited \/ data[n] = wanted[n]
            /\ n \in dirty \/ file[n] = wanted[n]
===============================================================================
