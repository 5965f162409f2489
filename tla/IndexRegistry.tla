---------------------------- MODULE IndexRegistry ----------------------------
(***************************************************************************)
(* The server's registry of opened indexes, for one index id.  Requests    *)
(* look the index up and open it if nobody did; others create it.  Each    *)
(* open or create makes an instance of the storage, with caches of its own *)
(* (VectorIndex: row counts), so two instances in use are a hazard.        *)
(***************************************************************************)
EXTENDS Naturals, FiniteSets

CONSTANTS
  Openers,   \* requests that use the index
  Creators   \* requests that create it

Requests == Openers \cup Creators
None == 0

VARIABLES
  onDisk,    \* what exists: "nothing", "directory", "manifest"
  registered,\* the instance in the registry
  request,   \* request[r]: where it is, and the instance it holds
  openings,  \* the instances made by opening
  instances  \* how many instances were made

vars == <<onDisk, registered, request, openings, instances>>

Init ==
  /\ onDisk \in {"nothing", "manifest"}
  /\ registered = None
  /\ request = [r \in Requests |-> [at |-> "start", holds |-> None]]
  /\ openings = {}
  /\ instances = 0

Goto(r, at) == request' = [request EXCEPT ![r].at = at]
Use(r, i) == request' = [request EXCEPT ![r] = [at |-> "using", holds |-> i]]

(* AppState::index: the fast path under the read lock.                     *)
Lookup(r) ==
  /\ r \in Openers /\ request[r].at = "start"
  /\ IF registered # None THEN Use(r, registered) ELSE Goto(r, "missed")
  /\ UNCHANGED <<onDisk, registered, openings, instances>>

CheckManifest(r) ==
  /\ r \in Openers /\ request[r].at = "missed"
  /\ Goto(r, IF onDisk = "manifest" THEN "open" ELSE "notFound")
  /\ UNCHANGED <<onDisk, registered, openings, instances>>

(* Mutant: the registry is not looked at again under the write lock.       *)
OpenUnseen(r) ==
  /\ r \in Openers /\ request[r].at = "open"
  /\ instances' = instances + 1
  /\ openings' = openings \cup {instances'}
  /\ registered' = instances'
  /\ Use(r, instances')
  /\ UNCHANGED onDisk

(* Under the write lock: look again, open, register.                       *)
OpenLocked(r) ==
  /\ r \in Openers /\ request[r].at = "open"
  /\ IF registered # None
     THEN Use(r, registered) /\ UNCHANGED <<registered, openings, instances>>
     ELSE /\ instances' = instances + 1
          /\ openings' = openings \cup {instances'}
          /\ registered' = instances'
          /\ Use(r, instances')
  /\ UNCHANGED onDisk

(* AppState::create_index: the path is checked, then EmbeddedIndex::create *)
(* refuses a manifest, makes the directory and, last, writes the manifest. *)
CheckPath(r) ==
  /\ r \in Creators /\ request[r].at = "start"
  /\ Goto(r, IF onDisk = "nothing" THEN "create" ELSE "conflict")
  /\ UNCHANGED <<onDisk, registered, openings, instances>>

MakeDirectory(r) ==
  /\ r \in Creators /\ request[r].at = "create"
  /\ IF onDisk = "manifest"
     THEN Goto(r, "conflict") /\ UNCHANGED onDisk
     ELSE Goto(r, "files") /\ onDisk' = "directory"
  /\ UNCHANGED <<registered, openings, instances>>

WriteManifest(r) ==
  /\ r \in Creators /\ request[r].at = "files"
  /\ onDisk' = "manifest"
  /\ instances' = instances + 1
  /\ request' = [request EXCEPT ![r] = [at |-> "made", holds |-> instances']]
  /\ UNCHANGED <<registered, openings>>

(* The new instance is registered over whatever is there.                  *)
Register(r) ==
  /\ r \in Creators /\ request[r].at = "made"
  /\ registered' = request[r].holds
  /\ Use(r, request[r].holds)
  /\ UNCHANGED <<onDisk, openings, instances>>

(* The request, or the indexing job it started, lets go of its instance.   *)
Release(r) ==
  /\ request[r].at = "using"
  /\ request' = [request EXCEPT ![r] = [at |-> "done", holds |-> None]]
  /\ UNCHANGED <<onDisk, registered, openings, instances>>

Over == {"done", "notFound", "conflict"}
Done == (\A r \in Requests : request[r].at \in Over) /\ UNCHANGED vars

Next ==
  \/ Done
  \/ \E r \in Requests :
       \/ Lookup(r) \/ CheckManifest(r) \/ OpenLocked(r) \/ Release(r)
       \/ CheckPath(r) \/ MakeDirectory(r) \/ WriteManifest(r) \/ Register(r)

Spec == Init /\ [][Next]_vars

-----------------------------------------------------------------------------
(* However many first requests race, one of them opens the index: a second *)
(* open would never see what the first one's caches know.                  *)
OpenedOnce == Cardinality(openings) <= 1

(* The requests that work on an index at the same time share one instance  *)
(* (state.rs:121): two would append at the same row.                       *)
OneInstanceInUse ==
  \A r, s \in Openers :
    request[r].at = "using" /\ request[s].at = "using" => request[r].holds = request[s].holds
=============================================================================
