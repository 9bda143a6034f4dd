----------------------------- MODULE FolderPath -----------------------------
(***************************************************************************)
(* Making folders by path (proton-drive-rs/src/client.rs:                  *)
(* create_folder_path, create_folder, get_available_name and the lookups   *)
(* under them).                                                            *)
(*                                                                         *)
(* Names are encrypted at the server, so a lookup lists a folder's         *)
(* children and then reads them, in two requests; the server knows only    *)
(* whether a name is taken in a folder, and refuses this client's creation *)
(* when it is, which the lookup after a failed creation relies on.  A      *)
(* folder may hold several entries of one name all the same                *)
(* (get_node_by_path: the API permits it), put there by other clients; the *)
(* first listed wins, and the order of a listing is the server's.  Several *)
(* calls for one path run at once, other clients add and remove entries,   *)
(* and answers get lost.                                                   *)
(***************************************************************************)
EXTENDS Integers, Sequences, FiniteSets

CONSTANTS
    Maker,        \* calls of create_folder_path
    Seeker,       \* calls of get_node_by_path
    Chooser,      \* calls of get_available_name followed by create_folder
    Path,         \* the names along the path
    Batch,        \* NAME_AVAILABILITY_BATCH
    MaxEntries,   \* bound: entries ever created
    MaxTroubles   \* bound: what other clients do, and creations that fail or whose
                  \* answer is lost

ASSUME PathAssumption == Path # <<>> /\ Batch \in Nat \ {0}
ASSUME RolesAssumption == Maker \cap (Seeker \cup Chooser) = {} /\ Seeker \cap Chooser = {}
ASSUME PathBounds == MaxEntries \in Nat /\ MaxTroubles \in Nat

Worker == Maker \cup Seeker \cup Chooser
Top == 0

VARIABLES
    entries,   \* server: [id, parent, name, folder]; a name is a base and a number
    others,    \* what other clients did so far
    tampered,  \* history: an entry was removed
    doubled,   \* history: an entry came beside one of the same name
    faults,    \* creations that failed or whose answer was lost so far
    lateMakes, \* network: creations given up on, as (parent, name)
    wpc,       \* wpc[w]: where call w stands
    current,   \* current[w]: the folder reached
    depth,     \* depth[w]: names of the path done
    listed,    \* listed[w]: ids of the children listed
    wanted,    \* wanted[w]: the name get_available_name gave
    excuse     \* history: excuse[w] a creation of w failed otherwise than by the name, or a
               \* file was in the way

pathVars == <<entries, others, tampered, doubled, faults, lateMakes, wpc, current, depth, listed,
              wanted, excuse>>

PathInit ==
    /\ entries = {} /\ others = 0 /\ tampered = FALSE /\ doubled = FALSE
    /\ faults = 0 /\ lateMakes = {}
    /\ wpc = [w \in Worker |-> "start"]
    /\ current = [w \in Worker |-> Top]
    /\ depth = [w \in Worker |-> 0]
    /\ listed = [w \in Worker |-> {}]
    /\ wanted = [w \in Worker |-> <<Path[1], 0>>]
    /\ excuse = [w \in Worker |-> FALSE]

Children(f) == {e \in entries : e.parent = f}
Taken(f, name) == \E e \in Children(f) : e.name = name
Accepts(f, name) == (f = Top \/ \E e \in entries : e.id = f) /\ ~Taken(f, name)
NextId == 1 + Cardinality(entries) + IF tampered THEN 1 ELSE 0
Segment(w) == <<Path[depth[w] + 1], 0>>

MoreTroubles == others + faults < MaxTroubles

WTo(w, label) == wpc' = [wpc EXCEPT ![w] = label]

-----------------------------------------------------------------------------
(* create_folder_path and get_node_by_path.                                *)

\* The next segment, or the end of the path.
NextSegment(w) ==
    /\ w \in Maker \cup Seeker /\ wpc[w] = "start"
    /\ WTo(w, IF depth[w] = Len(Path) THEN "ok" ELSE "list")
    /\ UNCHANGED <<entries, others, tampered, doubled, faults, lateMakes, current,
                   depth, listed, wanted, excuse>>

\* find_existing_folder and find_child_by_name: the ids of the children.  "again" is
\* the lookup after a failed creation.
ListChildren(w) ==
    /\ wpc[w] \in {"list", "list again"}
    /\ listed' = [listed EXCEPT ![w] = {e.id : e \in Children(current[w])}]
    /\ WTo(w, IF wpc[w] = "list" THEN "read" ELSE "read again")
    /\ UNCHANGED <<entries, others, tampered, doubled, faults, lateMakes, current,
                   depth, wanted, excuse>>

Named(w) == {e \in entries : e.id \in listed[w] /\ e.name = Segment(w)}

\* The children are read and one or more have the name: the first listed, which may
\* be any of them, is gone into, but a file ends a create_folder_path.
FoundChild(w) ==
    /\ wpc[w] \in {"read", "read again"}
    /\ \E e \in Named(w) :
          IF e.folder \/ w \in Seeker
          THEN /\ current' = [current EXCEPT ![w] = e.id]
               /\ depth' = [depth EXCEPT ![w] = @ + 1]
               /\ WTo(w, "start") /\ UNCHANGED excuse
          ELSE /\ WTo(w, "failed")
               /\ excuse' = [excuse EXCEPT ![w] = TRUE]
               /\ UNCHANGED <<current, depth>>
    /\ UNCHANGED <<entries, others, tampered, doubled, faults, lateMakes, listed, wanted>>

\* None has it: nothing is found, the folder is created, or after a failed creation
\* that error is returned.
NoSuchChild(w) ==
    /\ wpc[w] \in {"read", "read again"} /\ Named(w) = {}
    /\ WTo(w, CASE w \in Seeker -> "none"
                [] w \in Maker /\ wpc[w] = "read" -> "create"
                [] OTHER -> "failed")
    /\ UNCHANGED <<entries, others, tampered, doubled, faults, lateMakes, current,
                   depth, listed, wanted, excuse>>

-----------------------------------------------------------------------------
(* create_folder.                                                          *)

NewName(w) == IF w \in Maker THEN Segment(w) ELSE wanted[w]
NewFolder(id, f, name) == [id |-> id, parent |-> f, name |-> name, folder |-> TRUE]

CreateFolder(w) ==
    /\ wpc[w] = "create" /\ Accepts(current[w], NewName(w)) /\ Cardinality(entries) < MaxEntries
    /\ entries' = entries \cup {NewFolder(NextId, current[w], NewName(w))}
    /\ current' = [current EXCEPT ![w] = NextId]
    /\ depth' = [depth EXCEPT ![w] = @ + 1]
    /\ WTo(w, IF w \in Maker THEN "start" ELSE "ok")
    /\ UNCHANGED <<others, tampered, doubled, faults, lateMakes, listed, wanted, excuse>>

\* Mutant of CreateError: the error is returned as it is.
CreateErrorReturned(w) == WTo(w, "failed")

\* A failed creation of a path's folder leads to a second lookup.
CreateError(w) == WTo(w, IF w \in Maker THEN "list again" ELSE "failed")

\* The server refuses: the name was taken, or the folder removed, since the lookup.
CreateRefused(w) ==
    /\ wpc[w] = "create" /\ ~Accepts(current[w], NewName(w))
    /\ CreateError(w)
    /\ UNCHANGED <<entries, others, tampered, doubled, faults, lateMakes, current,
                   depth, listed, wanted, excuse>>

\* The request fails; it may have been applied or still arrive.
CreateFails(w) ==
    /\ wpc[w] = "create" /\ MoreTroubles
    /\ faults' = faults + 1
    /\ excuse' = [excuse EXCEPT ![w] = TRUE]
    /\ CreateError(w)
    /\ lateMakes' \in {lateMakes, lateMakes \cup {<<current[w], NewName(w)>>}}
    /\ UNCHANGED <<entries, others, tampered, doubled, current, depth, listed, wanted>>

CreateArrives ==
    /\ \E late \in lateMakes :
          /\ lateMakes' = lateMakes \ {late}
          /\ entries' = IF Accepts(late[1], late[2])
                        THEN entries \cup {NewFolder(NextId, late[1], late[2])} ELSE entries
    /\ UNCHANGED <<others, tampered, doubled, faults, wpc, current, depth, listed,
                   wanted, excuse>>

-----------------------------------------------------------------------------
(* get_available_name: candidates asked for a batch at a time.             *)

\* The candidates of batch k that checkAvailableHashes reports free: the name itself,
\* then its alternates.
Free(f, k) ==
    {name \in {<<Path[1], i>> : i \in k * Batch .. (k + 1) * Batch - 1} : ~Taken(f, name)}

\* depth counts the batches asked for so far.
AskAvailable(w) ==
    /\ w \in Chooser /\ wpc[w] = "start"
    /\ LET free == Free(Top, depth[w]) IN
       IF free = {} THEN depth' = [depth EXCEPT ![w] = @ + 1] /\ UNCHANGED <<wpc, wanted>>
       ELSE /\ wanted' = [wanted EXCEPT ![w] =
                              CHOOSE n \in free : \A m \in free : n[2] <= m[2]]
            /\ WTo(w, "create") /\ UNCHANGED depth
    /\ UNCHANGED <<entries, others, tampered, doubled, faults, lateMakes, current,
                   listed, excuse>>

-----------------------------------------------------------------------------
(* Other clients.                                                          *)

AddEntry(f, name, folder) ==
    /\ MoreTroubles /\ others' = others + 1
    /\ Cardinality(entries) < MaxEntries
    /\ doubled' = (doubled \/ Taken(f, name))
    /\ entries' = entries \cup {[id |-> NextId, parent |-> f, name |-> name, folder |-> folder]}
    /\ UNCHANGED <<tampered, faults, lateMakes, wpc, current, depth, listed, wanted,
                   excuse>>

RemoveEntry(e) ==
    /\ MoreTroubles /\ others' = others + 1
    /\ ~tampered /\ tampered' = TRUE /\ Children(e.id) = {}
    /\ entries' = entries \ {e}
    /\ UNCHANGED <<doubled, faults, lateMakes, wpc, current, depth, listed, wanted,
                   excuse>>

WorkStep(w) ==
    \/ NextSegment(w) \/ ListChildren(w) \/ FoundChild(w) \/ NoSuchChild(w)
    \/ CreateFolder(w) \/ CreateRefused(w) \/ AskAvailable(w)

PathNext ==
    \/ \E w \in Worker : WorkStep(w) \/ CreateFails(w)
    \/ CreateArrives
    \/ \E i \in {0, 1}, folder \in BOOLEAN : AddEntry(Top, <<Path[1], i>>, folder)
    \/ \E e \in entries : RemoveEntry(e)

PathSpec == PathInit /\ [][PathNext]_pathVars

-----------------------------------------------------------------------------
(* Properties.                                                             *)

\* f is where the path leads, over one or the other of entries with the same name.
LeadsTo(f) ==
    \E s \in [0 .. Len(Path) -> {Top} \cup {e.id : e \in entries}] :
        /\ s[0] = Top /\ s[Len(Path)] = f
        /\ \A i \in 1 .. Len(Path) :
              \E e \in entries : e.id = s[i] /\ e.parent = s[i - 1] /\ e.name = <<Path[i], 0>>

\* mkdir -p: while nothing is removed, a call that succeeds ends where the path leads,
\* and calls for one path end in the same folder, whoever created it, unless another
\* client put an entry beside one of the same name.  A call that loses the race for a
\* name adopts the winner's folder instead of failing, unless a request of it failed
\* or the first entry listed under the name is a file.
OnePathOneFolder ==
    ~tampered =>
        /\ \A w \in Maker : wpc[w] = "ok" => LeadsTo(current[w])
        /\ doubled \/ \A v, w \in Maker :
                         wpc[v] = "ok" /\ wpc[w] = "ok" => current[v] = current[w]
        /\ \A w \in Maker : wpc[w] = "failed" => excuse[w]
=============================================================================
