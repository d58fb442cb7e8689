-------------------------------- MODULE OpcUa --------------------------------
(***************************************************************************)
(* What opcua leaves with the open62541 library and must keep alive or     *)
(* take back: Server's nodes with the contexts of their callbacks, Client's *)
(* monitored items with the map that remove() looks in, and the repeated   *)
(* callbacks of ServerTimer and ClientTimer.                               *)
(*                                                                         *)
(* Every call of the library may fail.  A call of the server is one step;  *)
(* it makes several calls of the library, of which one fails at most.      *)
(***************************************************************************)
EXTENDS Naturals, Sequences, FiniteSets, SequencesExt

CONSTANTS
  Declared,    (* the children of the object types and objects that are     *)
               (* added: sequences of their classes, in the code's order    *)
  MaxNodes,    (* bound: no call once there are so many                     *)
  MaxContexts, (* bound: no callback is set once there are so many contexts *)
  MaxFaults,   (* bound: calls in which the library fails                   *)
  Targets,     (* the nodes that a client monitors                          *)
  Key,         (* Key[t] : identifier.numeric of t's NodeId                 *)
  MaxItems,    (* bound: monitored items that are ever made                 *)
  Slots,       (* the places for timers                                     *)
  MaxTimers,   (* bound: callbacks that timers ever register                *)
  Unset

Children == {"variable", "source", "method"}

OpcUaAssumptions ==
  /\ Declared \subseteq Seq(Children)
  /\ MaxNodes \in Nat /\ MaxContexts \in Nat /\ MaxFaults \in Nat
  /\ MaxItems \in Nat /\ MaxTimers \in Nat
  /\ DOMAIN Key = Targets
  /\ Unset \notin Children \cup Slots

VARIABLES
  space,    (* external: the nodes, in the order in which they were added   *)
  contexts, (* the kinds of the contexts that were made                     *)
  kept,     (* the contexts that _vcb_gc, _dscb_gc and _mcb_gc hold         *)
  answered, (* history: the nodes whose ids their calls returned            *)
  misled,   (* history: nodes whose last setting of a callback failed, or   *)
            (* set one that their class does not have                       *)
  sfaults,
  items,    (* external: items[i] : node, still there                       *)
  map,      (* _monitor_map: the item of a key, 0 if it has none            *)
  running,  (* _client # nullptr                                            *)
  clobbered,(* history: keys monitored while they were in the map           *)
  mfaults,
  timers,   (* timers[o] : alive, has its function, _id                     *)
  due,      (* external: due[i] : the timer that callback i points into,    *)
            (* Unset when it is not registered                               *)
  moved     (* history: callbacks whose timer was moved from or assigned to *)

server == <<space, contexts, kept, answered, misled, sfaults>>
client == <<items, map, running, clobbered, mfaults>>
clocks == <<timers, due, moved>>
opcUaVars == <<server, client, clocks>>

Keys == {Key[t] : t \in Targets}
NoTimer == [alive |-> FALSE, function |-> FALSE, id |-> 0]

OpcUaInit ==
  /\ space = <<>> /\ contexts = <<>> /\ kept = {} /\ answered = {} /\ misled = {}
  /\ items = <<>> /\ map = [k \in Keys |-> 0] /\ running = TRUE /\ clobbered = {}
  /\ timers = [o \in Slots |-> NoTimer] /\ due = <<>> /\ moved = {}
  /\ sfaults = 0 /\ mfaults = 0

-----------------------------------------------------------------------------
(* Adding nodes: s is the server within a call, s.id the id that a call     *)
(* returns, 0 for UA_NODEID_NULL, and the library's call s.fails fails.     *)

Within(k) ==
  [space |-> space, contexts |-> contexts, kept |-> kept, id |-> 0, calls |-> 0, fails |-> k]

Attempt(s) == [s EXCEPT !.calls = @ + 1]
Failed(s) == s.calls = s.fails

AddNode(s, class, parent, declared) ==
  LET t == Attempt(s)
      node == [class |-> class, parent |-> parent, declared |-> declared,
               mandatory |-> FALSE, callback |-> Unset, context |-> 0, wanted |-> 0]
  IN  IF Failed(t) THEN [t EXCEPT !.id = 0]
      ELSE [t EXCEPT !.space = Append(@, node), !.id = Len(s.space) + 1]

(* The context is made first, destroyed with a failing call, and handed to  *)
(* _dscb_gc or _mcb_gc after a good one.                                    *)
AddCalled(s, class, parent) ==
  LET t == AddNode(s, class, parent, <<>>)
      c == Len(s.contexts) + 1
  IN  IF t.id = 0 THEN t
      ELSE [t EXCEPT !.contexts = Append(@, class), !.kept = @ \cup {c},
                     !.space[t.id] = [@ EXCEPT !.callback = class, !.context = c, !.wanted = c]]

(* A reference from a node that was not added fails, too. *)
AddMandatory(s) ==
  LET t == Attempt(s)
  IN  IF Failed(t) \/ t.id = 0 THEN [t EXCEPT !.id = 0]
      ELSE [t EXCEPT !.space[t.id].mandatory = TRUE]

AddMethodNode(s, parent) ==
  LET t == AddCalled(s, "method", parent) IN IF t.id = 0 THEN t ELSE AddMandatory(t)

AddChild(s, parent, class) ==
  CASE class = "variable" -> AddNode(s, class, parent, <<>>)
    [] class = "source" -> AddCalled(s, class, parent)
    [] class = "method" -> AddMethodNode(s, parent)

(* A mutant: a child that was not added is passed over. *)
AddTypeChildPassing(s, parent, class) ==
  LET t == AddChild(s, parent, class)
  IN  [IF class = "method" THEN t ELSE AddMandatory(t) EXCEPT !.id = parent]

(* A variable that is not made mandatory ends the call; a method that is    *)
(* not added does not.                                                      *)
AddTypeChild(s, parent, class) ==
  LET t == AddChild(s, parent, class)
      u == IF class = "method" THEN t ELSE AddMandatory(t)
  IN  IF s.id = 0 THEN s
      ELSE [u EXCEPT !.id = IF class # "method" /\ @ = 0 THEN 0 ELSE parent]

(* What addObjectNode's children return is not looked at. *)
AddDeclared(s, parent, of, class) ==
  IF of = "object" THEN [AddChild(s, parent, class) EXCEPT !.id = parent]
  ELSE AddTypeChild(s, parent, class)

AddNodeWith(s, class, declared) ==
  LET t == AddNode(s, class, 0, declared)
      added[i \in 0 .. Len(declared)] ==
        IF i = 0 THEN t ELSE AddDeclared(added[i - 1], t.id, class, declared[i])
  IN  IF t.id = 0 THEN t ELSE added[Len(declared)]

AddObjectTypeNode(s, declared) == AddNodeWith(s, "type", declared)

AddObjectNode(s, declared) == AddNodeWith(s, "object", declared)

Those(declared, class) == {i \in DOMAIN declared : declared[i] = class}

(* The properties of an event are all variables. *)
AddEventTypeNode(s, declared) ==
  AddNodeWith(s, "event", [i \in 1 .. Cardinality(Those(declared, "variable")) |-> "variable"])

Faulty(f) == sfaults' = sfaults + (IF f THEN 1 ELSE 0) /\ sfaults' <= MaxFaults

Becomes(s) ==
  /\ s.fails <= s.calls
  /\ space' = s.space /\ contexts' = s.contexts /\ kept' = s.kept
  /\ answered' = answered \cup ({s.id} \ {0})
  /\ Faulty(s.fails > 0)
  /\ UNCHANGED <<misled, client, clocks>>

MaxCalls == 1 + 2 * Max({Len(declared) : declared \in Declared})

Add ==
  /\ Len(space) < MaxNodes /\ Len(contexts) < MaxContexts
  /\ \E k \in 0 .. MaxCalls :
       \/ \E class \in Children : Becomes(AddChild(Within(k), 0, class))
       \/ \E declared \in Declared :
            \/ Becomes(AddObjectTypeNode(Within(k), declared))
            \/ Becomes(AddEventTypeNode(Within(k), declared))
            \/ Becomes(AddObjectNode(Within(k), declared))

-----------------------------------------------------------------------------
(* Setting callbacks *)

(* A new context for the node n; and its callback, if all goes well.        *)
SetContext(n, kind, hold, good) ==
  LET c == Len(contexts) + 1
      node == space[n]
  IN  /\ Len(contexts) < MaxContexts
      /\ contexts' = Append(contexts, kind)
      /\ kept' = IF hold THEN kept \cup {c} ELSE kept
      /\ space' = [space EXCEPT ![n] =
                     [node EXCEPT !.context = c,
                                  !.callback = IF good THEN kind ELSE node.callback,
                                  !.wanted = IF good THEN c ELSE node.wanted]]
      /\ misled' = IF good THEN misled \ {n} ELSE misled \cup {n}

(* The first call of the library fails: the new context is destroyed. *)
SetNothing(n) ==
  /\ Faulty(TRUE) /\ UNCHANGED <<space, contexts, kept, answered, misled, client, clocks>>

(* A mutant: nobody keeps the context. *)
AddVariableNodeValueCallbackBare(n) ==
  SetContext(n, "variable", FALSE, TRUE) /\ UNCHANGED <<answered, sfaults, client, clocks>>

(* The context goes to _vcb_gc before the callback is set.  A node of       *)
(* another class keeps its callback and has the context nevertheless: the   *)
(* library takes the callback for a data source, and refuses a method.      *)
AddVariableNodeValueCallback(n) ==
  \/ SetNothing(n)
  \/ \E ok \in BOOLEAN :
       /\ SetContext(n, "variable", TRUE, ok /\ space[n].class = "variable")
       /\ Faulty(~ok)
       /\ UNCHANGED <<answered, client, clocks>>

(* The context goes to _mcb_gc only after both calls: when the second       *)
(* fails, the node has a context that is destroyed.                         *)
SetMethodNodeCallBack(n) ==
  \/ SetNothing(n)
  \/ \E ok \in BOOLEAN :
       /\ SetContext(n, "method", ok, ok)
       /\ Faulty(~ok)
       /\ UNCHANGED <<answered, client, clocks>>

SetCallback ==
  \E n \in DOMAIN space :
    \/ space[n].class \in Children /\ AddVariableNodeValueCallback(n)
    \/ space[n].class = "method" /\ SetMethodNodeCallBack(n)

ServerNext == Add \/ SetCallback

-----------------------------------------------------------------------------
(* Client *)

MFaulty(f) == mfaults' = mfaults + (IF f THEN 1 ELSE 0) /\ mfaults' <= MaxFaults

(* A subscription is made, and an item in it; either fails and returns      *)
(* false.  The entry of an earlier item is overwritten.                     *)
Monitor(t) ==
  /\ running
  /\ \/ MFaulty(TRUE) /\ UNCHANGED <<items, map, clobbered>>
     \/ /\ Len(items) < MaxItems /\ MFaulty(FALSE)
        /\ items' = Append(items, [node |-> t, there |-> TRUE])
        /\ map' = [map EXCEPT ![Key[t]] = Len(items) + 1]
        /\ clobbered' = IF map[Key[t]] = 0 THEN clobbered ELSE clobbered \cup {Key[t]}
  /\ UNCHANGED <<running, server, clocks>>

(* A mutant: the entry stays. *)
RemoveMonitorOnly(t) ==
  /\ running /\ map[Key[t]] # 0
  /\ items' = [items EXCEPT ![map[Key[t]]].there = FALSE]
  /\ UNCHANGED <<map, running, clobbered, mfaults, server, clocks>>

(* remove() returns true when it ends here, and false where it does not     *)
(* find the node or the library fails, which changes nothing.               *)
RemoveMonitor(t) ==
  /\ running /\ map[Key[t]] # 0
  /\ items' = [items EXCEPT ![map[Key[t]]].there = FALSE]
  /\ map' = [map EXCEPT ![Key[t]] = 0]
  /\ UNCHANGED <<running, clobbered, mfaults, server, clocks>>

(* The items end with the session; the map is left as it is. *)
Shutdown ==
  /\ running /\ running' = FALSE
  /\ items' = [i \in DOMAIN items |-> [items[i] EXCEPT !.there = FALSE]]
  /\ UNCHANGED <<map, clobbered, mfaults, server, clocks>>

ClientNext ==
  \/ \E t \in Targets : Monitor(t) \/ RemoveMonitor(t)
  \/ Shutdown

-----------------------------------------------------------------------------
(* ServerTimer and ClientTimer, which are alike *)

Free(o) == ~timers[o].alive

(* Registration fails: the timer lives with _id = 0. *)
Construct(o) ==
  /\ Free(o)
  /\ \/ /\ timers' = [timers EXCEPT ![o] = [alive |-> TRUE, function |-> TRUE, id |-> 0]]
        /\ UNCHANGED due
     \/ /\ Len(due) < MaxTimers
        /\ timers' = [timers EXCEPT ![o] =
             [alive |-> TRUE, function |-> TRUE, id |-> Len(due) + 1]]
        /\ due' = Append(due, o)
  /\ UNCHANGED <<moved, server, client>>

(* The library ignores the id of a callback that it does not have. *)
Unregistered(id) == IF id = 0 THEN due ELSE [due EXCEPT ![id] = Unset]

Cancel(o) ==
  /\ timers[o].id # 0
  /\ due' = Unregistered(timers[o].id)
  /\ timers' = [timers EXCEPT ![o].id = 0]
  /\ UNCHANGED <<moved, server, client>>

(* A mutant: the destructor does not cancel. *)
DestroyOnly(o) ==
  /\ timers[o].alive
  /\ timers' = [timers EXCEPT ![o] = NoTimer]
  /\ UNCHANGED <<due, moved, server, client>>

Destroy(o) ==
  /\ timers[o].alive
  /\ due' = Unregistered(timers[o].id)
  /\ timers' = [timers EXCEPT ![o] = NoTimer]
  /\ UNCHANGED <<moved, server, client>>

(* The default moves take the function and copy the id; what is registered  *)
(* points to the old place, and what p had registered stays so.             *)
Move(o, p) ==
  /\ o # p /\ timers[o].alive
  /\ timers' = [timers EXCEPT ![p] = timers[o], ![o].function = FALSE]
  /\ moved' = moved \cup ({timers[o].id, timers[p].id} \ {0})
  /\ UNCHANGED <<due, server, client>>

TimersNext ==
  \E o \in Slots :
    \/ Construct(o) \/ Cancel(o) \/ Destroy(o)
    \/ \E p \in Slots : Move(o, p)

-----------------------------------------------------------------------------
OpcUaNext == ServerNext \/ ClientNext \/ TimersNext

OpcUaSpec == OpcUaInit /\ [][OpcUaNext]_opcUaVars

-----------------------------------------------------------------------------
(* What the library calls: the context that it has for a node is one that   *)
(* the server keeps, of the kind that the node's callback takes it for, and *)
(* the one that was last set with success.                                  *)
ContextsHold ==
  \A n \in DOMAIN space \ misled :
    space[n].callback # Unset =>
      /\ space[n].context \in kept
      /\ contexts[space[n].context] = space[n].callback
      /\ space[n].context = space[n].wanted

(* A type of objects or of events whose id was returned has every variable  *)
(* and data source that was declared for it, mandatory, so that every       *)
(* object of the type gets one; a method whose id was returned is mandatory. *)
TypesWhole ==
  /\ \A n \in answered : space[n].class \in {"type", "event"} =>
       \A class \in {"variable", "source"} :
         Cardinality({m \in DOMAIN space : /\ space[m].parent = n
                                           /\ space[m].class = class
                                           /\ space[m].mandatory})
           = Cardinality(Those(space[n].declared, class))
  /\ \A n \in answered : space[n].class = "method" => space[n].mandatory

(* While a client runs, the items that the server has for it are those in   *)
(* its map, each under its node: remove() finds what monitor() made.  Only  *)
(* where two monitors had one key, of one node or of two, is an item left   *)
(* that nothing can remove.                                                 *)
RemovesWhatItMade ==
  running =>
    /\ \A k \in Keys : map[k] # 0 => items[map[k]].there /\ Key[items[map[k]].node] = k
    /\ \A i \in DOMAIN items :
         items[i].there /\ Key[items[i].node] \notin clobbered => map[Key[items[i].node]] = i

(* A callback that is registered points into a timer that lives, has its    *)
(* function, and knows the callback, so that its end takes the callback     *)
(* back; where the timer was never moved or assigned to.                    *)
TimersHeld ==
  \A i \in DOMAIN due \ moved : due[i] # Unset => timers[due[i]] =
    [alive |-> TRUE, function |-> TRUE, id |-> i]

(* The four together: whatever the library fails to do, the callbacks that   *)
(* Server, Client and the timers left with it are still there to be called, *)
(* complete, and can be taken back.                                          *)
CallbacksServed == ContextsHold /\ TypesWhole /\ RemovesWhatItMade /\ TimersHeld
=============================================================================
