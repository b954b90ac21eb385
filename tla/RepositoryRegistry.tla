--------------------------- MODULE RepositoryRegistry ---------------------------
(***************************************************************************)
(* The repositories users add (services/repository_registry.py,            *)
(* api/repositories.py): a file of records, written under a lock, and a    *)
(* directory for each name, which no lock protects.                        *)
(*                                                                         *)
(* Clones and deletions run in the thread pool, uploads on the event loop, *)
(* so that two uploads do not overlap.  A directory is known by the        *)
(* requests whose files are in it and whether one of them wrote all of its *)
(* files.  The process may die at any step; the files remain.  A file of   *)
(* records that cannot be read is read as one without records, and what    *)
(* of a directory cannot be removed stays.                                 *)
(***************************************************************************)
EXTENDS Integers, FiniteSets

CONSTANTS
    RegNames, \* names of repositories, after _slugify
    Requests, \* requests of users
    NoRequest

ASSUME RegistryAssumption == NoRequest \notin Requests

VARIABLES
    regDo,      \* what each request is to do, and for which name
    regPc,      \* where it stands
    regRecords, \* for each name the request that registered it, or NoRequest
    regTrees,   \* the directory of each name
    regUnsure,  \* names at which requests overlapped, failed or died, for the properties
    regLeft     \* names whose files stayed when the record went, for the properties

regVars == <<regDo, regPc, regRecords, regTrees, regUnsure, regLeft>>

RegDoing == {"clear", "fill", "register", "abandon", "remove"}
RegOver == {"ok", "error", "dead"}
Kinds == {"upload", "clone", "delete"}

RegTypeOK ==
    /\ regDo \in [Requests -> [kind : Kinds, name : RegNames]]
    /\ regPc \in [Requests -> {"new"} \cup RegDoing \cup RegOver]
    /\ regRecords \in [RegNames -> Requests \cup {NoRequest}]
    /\ regTrees \in [RegNames -> [of : SUBSET Requests, whole : BOOLEAN]]
    /\ regUnsure \subseteq RegNames /\ regLeft \subseteq RegNames

NoTree == [of |-> {}, whole |-> FALSE]

RegInit ==
    /\ regDo \in [Requests -> [kind : Kinds, name : RegNames]]
    /\ regPc = [r \in Requests |-> "new"]
    /\ regRecords = [n \in RegNames |-> NoRequest]
    /\ regTrees = [n \in RegNames |-> NoTree]
    /\ regUnsure = {} /\ regLeft = {}

-----------------------------------------------------------------------------
NameOf(r) == regDo[r].name
Busy(n) == {r \in Requests : NameOf(r) = n /\ regPc[r] \in RegDoing}

RegGo(r, here, there) == regPc[r] = here /\ regPc' = [regPc EXCEPT ![r] = there]
TreeBecomes(r, tree) == regTrees' = [regTrees EXCEPT ![NameOf(r)] = tree]

(* A part of the files is there, those of the requests that were writing them among them. *)
HalfFilled(n) ==
    [of |-> regTrees[n].of \cup {r \in Busy(n) : regPc[r] = "fill"}, whole |-> FALSE]

(* A request of a name at which another one is at work. *)
Meets(r) ==
    regUnsure' = regUnsure \cup (IF Busy(NameOf(r)) = {} THEN {} ELSE {NameOf(r)})

Spoils(r) == regUnsure' = regUnsure \cup {NameOf(r)}

(* The body of an upload is one call on the event loop. *)
Begins(r) ==
    /\ regDo[r].kind # "delete" /\ RegGo(r, "new", "clear")
    /\ regDo[r].kind = "upload" => \A q \in Requests :
           regDo[q].kind = "upload" => regPc[q] \notin RegDoing
    /\ Meets(r) /\ UNCHANGED <<regDo, regRecords, regTrees, regLeft>>

(* No name to make a slug of, a URL that is not HTTP, a file that is no zip. *)
Refused(r) ==
    /\ regDo[r].kind # "delete" /\ RegGo(r, "new", "error")
    /\ UNCHANGED <<regDo, regRecords, regTrees, regUnsure, regLeft>>

(* Mutant: a new upload is written over the old one. *)
ClearsNothing(r) ==
    /\ RegGo(r, "clear", "fill")
    /\ UNCHANGED <<regDo, regRecords, regTrees, regUnsure, regLeft>>

(* What the name had is removed first. *)
Clears(r) ==
    /\ RegGo(r, "clear", "fill")
    /\ TreeBecomes(r, NoTree)
    /\ regLeft' = regLeft \ {NameOf(r)}
    /\ UNCHANGED <<regDo, regRecords, regUnsure>>

(* rmtree, strict here, trips over a file it cannot remove, or a directory another request *)
(* is changing, with a part of the files gone.                                              *)
ClearFails(r) ==
    /\ RegGo(r, "clear", "error")
    /\ regTrees[NameOf(r)] # NoTree \/ Busy(NameOf(r)) # {r}
    /\ TreeBecomes(r, [regTrees[NameOf(r)] EXCEPT !.whole = FALSE])
    /\ Spoils(r) /\ UNCHANGED <<regDo, regRecords, regLeft>>

(* The archive is read and its files are written into the directory, whoever made it. *)
Extracts(r) ==
    /\ regDo[r].kind = "upload" /\ RegGo(r, "fill", "register")
    /\ TreeBecomes(r, [of |-> regTrees[NameOf(r)].of \cup {r}, whole |-> TRUE])
    /\ UNCHANGED <<regDo, regRecords, regUnsure, regLeft>>

(* An archive that is refused, or cannot be read to its end. *)
ExtractFails(r) ==
    /\ regDo[r].kind = "upload" /\ RegGo(r, "fill", "error")
    /\ \/ UNCHANGED regTrees
       \/ TreeBecomes(r, HalfFilled(NameOf(r)))
    /\ Spoils(r) /\ UNCHANGED <<regDo, regRecords, regLeft>>

(* git clones into a directory that is not there, or is empty. *)
Clones(r) ==
    /\ regDo[r].kind = "clone" /\ RegGo(r, "fill", "register")
    /\ regTrees[NameOf(r)].of = {}
    /\ TreeBecomes(r, [of |-> {r}, whole |-> TRUE])
    /\ UNCHANGED <<regDo, regRecords, regUnsure, regLeft>>

(* git fails, of itself or for the directory there is, or has not ended in time. *)
CloneFails(r) ==
    /\ regDo[r].kind = "clone" /\ RegGo(r, "fill", "abandon")
    /\ \/ UNCHANGED regTrees
       \/ TreeBecomes(r, HalfFilled(NameOf(r)))
    /\ Spoils(r) /\ UNCHANGED <<regDo, regRecords, regLeft>>

(* What is there now is removed, whose ever it is, best effort. *)
Abandons(r) ==
    /\ RegGo(r, "abandon", "error")
    /\ \/ TreeBecomes(r, NoTree)
       \/ TreeBecomes(r, [regTrees[NameOf(r)] EXCEPT !.whole = FALSE])
    /\ UNCHANGED <<regDo, regRecords, regUnsure, regLeft>>

(* Under the lock the file is read, changed at the name and replaced. *)
Registers(r) ==
    /\ RegGo(r, "register", "ok")
    /\ regRecords' = [regRecords EXCEPT ![NameOf(r)] = r]
    /\ UNCHANGED <<regDo, regTrees, regUnsure, regLeft>>

(* A file that cannot be read counts as empty: it is replaced by one with the new record alone. *)
RegistersUnread(r) ==
    /\ RegGo(r, "register", "ok")
    /\ regRecords' = [n \in RegNames |-> IF n = NameOf(r) THEN r ELSE NoRequest]
    /\ regLeft' = regLeft \cup {n \in RegNames \ {NameOf(r)} : regRecords[n] # NoRequest}
    /\ UNCHANGED <<regDo, regTrees, regUnsure>>

(* The file cannot be written or replaced. *)
RegisterFails(r) ==
    /\ RegGo(r, "register", "error")
    /\ Spoils(r) /\ UNCHANGED <<regDo, regRecords, regTrees, regLeft>>

DeletesRecord(r) ==
    /\ regDo[r].kind = "delete" /\ RegGo(r, "new", "remove")
    /\ regRecords[NameOf(r)] # NoRequest
    /\ regRecords' = [regRecords EXCEPT ![NameOf(r)] = NoRequest]
    /\ Meets(r) /\ UNCHANGED <<regDo, regTrees, regLeft>>

(* 404, or no record at the second look at the file, also when a file that cannot be read *)
(* counts as empty; or the file cannot be written.                                         *)
FindsNothing(r) ==
    /\ regDo[r].kind = "delete"
    /\ RegGo(r, "new", "error") \/ RegGo(r, "new", "ok")
    /\ UNCHANGED <<regDo, regRecords, regTrees, regUnsure, regLeft>>

(* After the lock the files are removed... *)
RemovesTree(r) ==
    /\ RegGo(r, "remove", "ok")
    /\ TreeBecomes(r, NoTree)
    /\ regLeft' = regLeft \ {NameOf(r)}
    /\ UNCHANGED <<regDo, regRecords, regUnsure>>

(* ... or some or all of them stay: errors are ignored, and the answer is the same. *)
LeavesTree(r) ==
    /\ RegGo(r, "remove", "ok") /\ regTrees[NameOf(r)] # NoTree
    /\ \/ UNCHANGED regTrees
       \/ TreeBecomes(r, [regTrees[NameOf(r)] EXCEPT !.whole = FALSE])
    /\ regLeft' = regLeft \cup {NameOf(r)}
    /\ UNCHANGED <<regDo, regRecords, regUnsure>>

Restart ==
    /\ \E r \in Requests : regPc[r] \in RegDoing
    /\ regPc' = [r \in Requests |-> IF regPc[r] \in RegDoing THEN "dead" ELSE regPc[r]]
    /\ regUnsure' = regUnsure \cup {n \in RegNames : Busy(n) # {}}
    /\ \/ UNCHANGED regTrees
       \/ regTrees' = [n \in RegNames |-> IF Busy(n) = {} THEN regTrees[n] ELSE HalfFilled(n)]
    /\ UNCHANGED <<regDo, regRecords, regLeft>>

RegStep(r) ==
    \/ Begins(r) \/ Refused(r) \/ Clears(r) \/ ClearFails(r) \/ Extracts(r) \/ ExtractFails(r)
    \/ Clones(r) \/ CloneFails(r) \/ Abandons(r)
    \/ Registers(r) \/ RegistersUnread(r) \/ RegisterFails(r)
    \/ DeletesRecord(r) \/ FindsNothing(r) \/ RemovesTree(r) \/ LeavesTree(r)

RegNext == (\E r \in Requests : RegStep(r)) \/ Restart

(* Threads run, and clones have a timeout. *)
RegSpec == RegInit /\ [][RegNext]_regVars /\ \A r \in Requests : WF_regVars(RegStep(r))

-----------------------------------------------------------------------------
(* A record leads to the whole directory of the request that made it, and to nothing else, *)
(* once no request of the name is at work; unless requests of the name overlapped, failed  *)
(* or died.  Files without a record are those a deletion could not remove, or of a record   *)
(* that was not read when another name was registered.                                      *)
RecordHasTree ==
    \A n \in RegNames \ regUnsure :
        Busy(n) = {} =>
            IF regRecords[n] = NoRequest THEN regTrees[n] = NoTree \/ n \in regLeft
            ELSE regTrees[n] = [of |-> {regRecords[n]}, whole |-> TRUE]

(* A request that ends in error changes no record, and no other one gives a name a record   *)
(* but its own: a record goes when its name is deleted, or when the file cannot be read      *)
(* while another name is registered, and its files stay then.                                 *)
OthersAreKept ==
    [][\A n \in RegNames :
           regRecords'[n] # regRecords[n] =>
               \/ \E r \in Requests : NameOf(r) = n /\ regPc'[r] # regPc[r]
                                      /\ regPc'[r] \in {"ok", "remove"}
               \/ /\ regRecords'[n] = NoRequest /\ n \in regLeft'
                  /\ regTrees'[n] = regTrees[n]
                  /\ \E r \in Requests : regPc[r] = "register" /\ regPc'[r] = "ok"]_regVars

(* Every request is answered, unless the process dies. *)
RequestsAreOver == \A r \in Requests : regPc[r] \in RegOver
=============================================================================
