--------------------------- MODULE ProxyConnector ---------------------------
(***************************************************************************)
(* proxy::ip_connector: the pool of connections to an origin server.  The  *)
(* operations are predicates on the pool's variables; what the call backs  *)
(* do is up to the module that extends this one.                           *)
(***************************************************************************)
EXTENDS Integers, Sequences, FiniteSets, SequencesExt

CONSTANTS
    Conns,          \* connection objects
    Responses,      \* those that ask for connections
    Limits,         \* what config_->max_connections() may be
    None            \* no response, no connection

ASSUME PoolAssumption ==
    /\ IsFiniteSet(Conns) /\ Limits \subseteq 0 .. Cardinality(Conns)
    /\ None \notin Conns /\ None \notin Responses

VARIABLES
    idle,           \* idle_connections_
    connecting,     \* connecting_connections_
    in_use,         \* in_use_connections_
    call_back,      \* connect_call_back_ of every connection, or None
    attempts,       \* connections with an asynchronous connect
    timer,          \* timer_: "off", or what it was set for: "connect", "idle"
    expired,        \* timeouts that wait to be called, and cannot be cancelled
    posted,         \* call backs in the queue, with their connections
    max_connections \* of config_, which nobody changes

poolVars == <<idle, connecting, in_use, call_back, attempts, timer, expired, posted>>

(* The pool is new, or full of connections that earlier responses left. *)
InitPool ==
    /\ max_connections \in Limits
    /\ idle \in { <<>>, SubSeq(SetToSeq(Conns), 1, max_connections) }
    /\ connecting = {} /\ in_use = {} /\ attempts = {} /\ expired = {} /\ posted = {}
    /\ call_back = [c \in Conns |-> None]
    /\ timer = [c \in Conns |-> IF c \in ToSet(idle) THEN "idle" ELSE "off"]

Known == ToSet(idle) \cup connecting \cup in_use

(* Objects that nothing refers to. *)
Unused ==
    { c \in Conns : /\ c \notin Known \cup attempts
                    /\ timer[c] = "off" /\ \A e \in expired : e[2] # c }

(* Idle connections count, even if one of them could be used. *)
LimitReached == Len(idle) + Cardinality(connecting) + Cardinality(in_use) >= max_connections

(* async_get_proxy_connection(), when the limit is not reached. *)
async_get_proxy_connection(r) ==
    \/ /\ idle = <<>>
       /\ Unused # {}
       /\ LET c == CHOOSE c \in Unused : TRUE
          IN  /\ connecting' = connecting \cup {c}
              /\ attempts' = attempts \cup {c}
              /\ call_back' = [call_back EXCEPT ![c] = r]
              /\ timer' = [timer EXCEPT ![c] = "connect"]
       /\ UNCHANGED <<idle, in_use, expired, posted>>
    \/ /\ idle # <<>>
       /\ idle' = Tail(idle)
       /\ in_use' = in_use \cup {Head(idle)}
       /\ timer' = [timer EXCEPT ![Head(idle)] = "off"]
       /\ posted' = posted \cup {<<r, Head(idle)>>}
       /\ UNCHANGED <<connecting, call_back, attempts, expired>>

(* Mutant: a connection that is not to be used again stays in the list. *)
release_connection_kept(c, keep) ==
    /\ in_use' = IF keep THEN in_use \ {c} ELSE in_use
    /\ idle' = IF keep THEN Append(idle, c) ELSE idle
    /\ timer' = IF keep THEN [timer EXCEPT ![c] = "idle"] ELSE timer
    /\ UNCHANGED <<connecting, call_back, attempts, expired, posted>>

(* release_connection(); keep is false for dismiss_connection() and when   *)
(* the answer has the option close.  What is not kept is destroyed, which  *)
(* closes its socket.                                                      *)
release_connection(c, keep) ==
    /\ in_use' = in_use \ {c}
    /\ idle' = IF keep THEN Append(idle, c) ELSE idle
    /\ timer' = IF keep THEN [timer EXCEPT ![c] = "idle"] ELSE timer
    /\ UNCHANGED <<connecting, call_back, attempts, expired, posted>>

(* connection_handler(): nothing happens when the attempt has timed out.   *)
connection_handler(c, error) ==
    /\ c \in attempts
    /\ attempts' = attempts \ {c}
    /\ connecting' = connecting \ {c}
    /\ in_use' = IF c \in connecting /\ ~error THEN in_use \cup {c} ELSE in_use
    /\ call_back' = [call_back EXCEPT ![c] = None]
    /\ timer' = IF c \in connecting THEN [timer EXCEPT ![c] = "off"] ELSE timer
    /\ UNCHANGED <<idle, expired, posted>>

(* A timer expires: its handler is in the queue. *)
timer_expires(c) ==
    /\ timer[c] # "off"
    /\ expired' = expired \cup {<<timer[c], c>>}
    /\ timer' = [timer EXCEPT ![c] = "off"]
    /\ UNCHANGED <<idle, connecting, in_use, call_back, attempts, posted>>

connect_timeout(c) ==
    /\ <<"connect", c>> \in expired
    /\ expired' = expired \ {<<"connect", c>>}
    /\ connecting' = connecting \ {c}
    /\ call_back' = IF c \in connecting THEN [call_back EXCEPT ![c] = None] ELSE call_back
    /\ UNCHANGED <<idle, in_use, attempts, timer, posted>>

(* connect_idle_timeout(): also one that waited while the connection was   *)
(* used and returned.                                                      *)
connect_idle_timeout(c) ==
    /\ <<"idle", c>> \in expired
    /\ expired' = expired \ {<<"idle", c>>}
    /\ IF c \in ToSet(idle) THEN \E i \in DOMAIN idle : idle[i] = c /\ idle' = RemoveAt(idle, i)
                              ELSE UNCHANGED idle
    /\ UNCHANGED <<connecting, in_use, call_back, attempts, timer, posted>>
=============================================================================
