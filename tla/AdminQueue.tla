------------------------------ MODULE AdminQueue ------------------------------
(***************************************************************************)
(* Requests of the PM to the owner (hermes-ops-mcp/server.py files them,   *)
(* cc-mirror-shim shows them, takes the decision and executes).  A request *)
(* is a file named after its id.  The PM has one server, which handles one *)
(* line at a time; the page of the owner is served by threads that share   *)
(* nothing but the files, and a page may stay open for as long as he       *)
(* likes.  Nothing is locked.                                              *)
(***************************************************************************)
EXTENDS Naturals, FiniteSets

CONSTANTS
  Operations,   \* profile_create, soul_write, ...
  Params,       \* the parameters of an operation
  Pages,        \* threads of the shim that handle a decision
  MaxRequests   \* bound: requests filed

ASSUME AdminAssumption == MaxRequests \in Nat

VARIABLES
  queue,     \* the files of ADMIN_QUEUE, by id
  seen,      \* pending requests, as some page of the owner has shown them
  decision,  \* decision[p]: the form thread p handles
  ran        \* executions: what ran, under which id, and what was typed

adminVars == <<queue, seen, decision, ran>>

Ids == 1..MaxRequests

NoDecision == [at |-> "none"]

AdminInit ==
  /\ queue = <<>>
  /\ seen = {}
  /\ decision = [p \in Pages |-> NoDecision]
  /\ ran = {}

(* open(path, "w"), dump: a process that ends in between leaves a file     *)
(* that does not parse.  admin_load passes over it, and it still counts.   *)
Written(id, r) == [i \in DOMAIN queue \cup {id} |-> IF i = id THEN r ELSE queue[i]]

\* Mutant of NextId: the files of decided requests are not counted.
NextIdOfPending == Cardinality({i \in DOMAIN queue : queue[i].status = "pending"}) + 1

NextId == Cardinality(DOMAIN queue) + 1

(* _admin_request.                                                         *)
AdminRequest(op, x, whole) ==
  /\ NextId \in Ids
  /\ queue' = Written(NextId,
       [operation |-> op, params |-> x, status |-> IF whole THEN "pending" ELSE "torn"])
  /\ UNCHANGED <<seen, decision, ran>>

Shown(i) == [id |-> i, operation |-> queue[i].operation, params |-> queue[i].params]

(* GET /admin: a form for each pending request.                            *)
OpensPage ==
  /\ seen' = seen \cup {Shown(i) : i \in {j \in DOMAIN queue : queue[j].status = "pending"}}
  /\ UNCHANGED <<queue, decision, ran>>

(* POST /admin/decide: the form of a request the owner has seen, with what *)
(* he typed; the file is loaded, and must be pending.                      *)
Decides(p, f, approve, typed) ==
  /\ decision[p] = NoDecision
  /\ f.id \in DOMAIN queue
  /\ queue[f.id].status = "pending"
  /\ approve => typed = queue[f.id].operation
  /\ decision' = [decision EXCEPT ![p] =
       [at |-> IF approve THEN "execute" ELSE "save", id |-> f.id, typed |-> typed,
        loaded |-> queue[f.id], outcome |-> "denied"]]
  /\ UNCHANGED <<queue, seen, ran>>

Execution(p) == [id |-> decision[p].id, operation |-> decision[p].loaded.operation,
                 params |-> decision[p].loaded.params, typed |-> decision[p].typed]

(* admin_execute, which may fail half way.                                 *)
Executes(p, ok) ==
  /\ decision[p].at = "execute"
  /\ ran' = ran \cup {Execution(p)}
  /\ decision' = [decision EXCEPT
       ![p].at = "save", ![p].outcome = IF ok THEN "executed" ELSE "failed"]
  /\ UNCHANGED <<queue, seen>>

(* A parameter that is missing, or a command that takes too long: the      *)
(* thread ends with the exception and the request stays pending.           *)
ExecutionRaises(p) ==
  /\ decision[p].at = "execute"
  /\ ran' \in {ran, ran \cup {Execution(p)}}
  /\ decision' = [decision EXCEPT ![p] = NoDecision]
  /\ UNCHANGED <<queue, seen>>

(* admin_save writes the whole request as it was loaded.                   *)
Saves(p) ==
  /\ decision[p].at = "save"
  /\ queue' = Written(decision[p].id, [decision[p].loaded EXCEPT !.status = decision[p].outcome])
  /\ decision' = [decision EXCEPT ![p] = NoDecision]
  /\ UNCHANGED <<seen, ran>>

(* The shim ends with its threads; a file it was writing may be torn.      *)
ShimStops(T) ==
  /\ \E p \in Pages : decision[p] # NoDecision
  /\ T \subseteq {decision[p].id : p \in {q \in Pages : decision[q].at = "save"}}
  /\ queue' = [i \in DOMAIN queue |->
       IF i \in T THEN [queue[i] EXCEPT !.status = "torn"] ELSE queue[i]]
  /\ decision' = [p \in Pages |-> NoDecision]
  /\ UNCHANGED <<seen, ran>>

AdminNext ==
  \/ \E op \in Operations, x \in Params, whole \in BOOLEAN : AdminRequest(op, x, whole)
  \/ OpensPage
  \/ \E p \in Pages :
       \/ \E f \in seen, approve \in BOOLEAN, typed \in Operations : Decides(p, f, approve, typed)
       \/ \E ok \in BOOLEAN : Executes(p, ok)
       \/ ExecutionRaises(p) \/ Saves(p)
  \/ \E T \in SUBSET Ids : ShimStops(T)

AdminSpec == AdminInit /\ [][AdminNext]_adminVars

-----------------------------------------------------------------------------
(* Properties.                                                             *)

AdminTypeOK ==
  /\ DOMAIN queue = 1..Cardinality(DOMAIN queue) /\ DOMAIN queue \subseteq Ids
  /\ \A i \in DOMAIN queue :
       queue[i] \in [operation : Operations, params : Params,
                     status : {"pending", "executed", "failed", "denied", "torn"}]
  /\ seen \subseteq [id : Ids, operation : Operations, params : Params]
  /\ \A p \in Pages : decision[p].at \in {"none", "execute", "save"}
  /\ ran \subseteq [id : Ids, operation : Operations, params : Params, typed : Operations]

(* What runs is a request the owner was shown, under the id he decided on, *)
(* and he typed its name: however old the page, whoever else decides and   *)
(* wherever the shim stops (server.py:253-256).                            *)
RanAsConfirmed ==
  \A r \in ran :
    /\ [id |-> r.id, operation |-> r.operation, params |-> r.params] \in seen
    /\ r.typed = r.operation
=============================================================================
