--------------------------- MODULE SequenceTokens ---------------------------
(***************************************************************************)
(* SequenceToken::Create and SequenceToken::Named, called by any number of *)
(* threads.  Create increments one atomic counter; Named looks a name up,  *)
(* takes an id from the same counter and stores it, under g_named_mutex,   *)
(* which Create does not take.                                             *)
(***************************************************************************)
EXTENDS Integers

CONSTANTS
  Threads,   (* the threads that ask for tokens                             *)
  Names,     (* the names they may give to Named                            *)
  Nobody,    (* no thread                                                   *)
  MaxId      (* bound on the ids handed out; the counter has 64 bits        *)

ASSUME TokenAssumption == Nobody \notin Threads /\ MaxId \in Nat

NoId == 0   (* the id of a default-constructed token: invalid               *)

VARIABLES
  nextId,    (* g_next_token_id                                             *)
  owner,     (* the thread that holds g_named_mutex                         *)
  named,     (* g_named_tokens, NoId for a name that is not in it           *)
  asked,     (* the name a thread inside Named was given                    *)
  fresh,     (* the id a thread inside Named took from the counter          *)
  created,   (* history: how many times Create returned each id             *)
  answers    (* history: the ids Named returned for each name               *)

vars == <<nextId, owner, named, asked, fresh, created, answers>>

Init ==
  /\ nextId = 1
  /\ owner = Nobody
  /\ named = [n \in Names |-> NoId]
  /\ asked \in [Threads -> Names]
  /\ fresh = [p \in Threads |-> NoId]
  /\ created = [i \in 0..MaxId |-> 0]
  /\ answers = [n \in Names |-> {}]

IsValid(id) == id # NoId

(* Faulty: the counter is read and not incremented.                          *)
FetchNext(id) == id = nextId /\ nextId <= MaxId /\ UNCHANGED nextId

FetchAdd(id) == id = nextId /\ nextId <= MaxId /\ nextId' = nextId + 1

(* One call of Create: its only effect on shared state is the fetch_add.     *)
Create(p) ==
  /\ owner # p
  /\ \E id \in 0..MaxId :
       /\ FetchAdd(id)
       /\ created' = [created EXCEPT ![id] = @ + 1]
  /\ UNCHANGED <<owner, named, asked, fresh, answers>>

Answer(n, id) == answers' = [answers EXCEPT ![n] = @ \cup {id}]

(* Named, first step: lock and find.  A name that is there is answered.      *)
NamedFound(p, n) ==
  /\ owner = Nobody /\ named[n] # NoId
  /\ Answer(n, named[n])
  /\ UNCHANGED <<nextId, owner, named, asked, fresh, created>>

(* Faulty: the mutex is not taken for the rest of the call.                  *)
NamedAbsentUnlocked(p, n) ==
  /\ owner = Nobody /\ named[n] = NoId /\ fresh[p] = NoId
  /\ asked' = [asked EXCEPT ![p] = n]
  /\ \E id \in 0..MaxId : FetchAdd(id) /\ fresh' = [fresh EXCEPT ![p] = id]
  /\ UNCHANGED <<owner, named, created, answers>>

NamedAbsent(p, n) ==
  /\ owner = Nobody /\ named[n] = NoId
  /\ owner' = p
  /\ asked' = [asked EXCEPT ![p] = n]
  /\ UNCHANGED <<nextId, named, fresh, created, answers>>

(* Second step: the fetch_add, which a Create may precede or follow.         *)
NamedTake(p) ==
  /\ owner = p /\ fresh[p] = NoId
  /\ \E id \in 0..MaxId : FetchAdd(id) /\ fresh' = [fresh EXCEPT ![p] = id]
  /\ UNCHANGED <<owner, named, asked, created, answers>>

(* Third step: emplace, which does not replace an entry, return and unlock.  *)
NamedStore(p) ==
  /\ fresh[p] # NoId
  /\ LET n == asked[p]
     IN  /\ named' = [named EXCEPT ![n] = IF @ = NoId THEN fresh[p] ELSE @]
         /\ Answer(n, fresh[p])
  /\ owner' = Nobody
  /\ fresh' = [fresh EXCEPT ![p] = NoId]
  /\ UNCHANGED <<nextId, asked, created>>

(* Or emplace throws: the mutex is released, the id is lost.                 *)
NamedThrows(p) ==
  /\ owner = p /\ fresh[p] # NoId
  /\ owner' = Nobody
  /\ fresh' = [fresh EXCEPT ![p] = NoId]
  /\ UNCHANGED <<nextId, named, asked, created, answers>>

Next ==
  \E p \in Threads :
    \/ Create(p)
    \/ \E n \in Names : NamedFound(p, n) \/ NamedAbsent(p, n)
    \/ NamedTake(p) \/ NamedStore(p) \/ NamedThrows(p)

Spec == Init /\ [][Next]_vars

-----------------------------------------------------------------------------
TypeOK ==
  /\ nextId \in 1..MaxId + 1
  /\ owner \in Threads \cup {Nobody}
  /\ named \in [Names -> 0..MaxId]
  /\ asked \in [Threads -> Names]
  /\ fresh \in [Threads -> 0..MaxId]
  /\ created \in [0..MaxId -> Nat]
  /\ answers \in [Names -> SUBSET (0..MaxId)]

(* No id is handed out for two purposes: not by two Creates, not by a Create *)
(* and for a name, not for two names; and the invalid id 0 never is.  Tasks  *)
(* of unrelated sequences are never serialised with one another.             *)
UniqueIds ==
  /\ ~IsValid(NoId) /\ created[NoId] = 0
  /\ \A n \in Names : \A id \in answers[n] :
       /\ IsValid(id) /\ created[id] = 0
       /\ \A m \in Names \ {n} : id \notin answers[m]
  /\ \A id \in 0..MaxId : created[id] <= 1

(* Whoever asks for a name, and whenever, gets the same id, also after an    *)
(* earlier Named of it has failed: modules that share a name share a queue.  *)
NamesStable == \A n \in Names : \A i, j \in answers[n] : i = j

=============================================================================
