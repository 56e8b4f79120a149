------------------------------ MODULE Network ------------------------------
(***************************************************************************)
(* The interception network of one cluster run (modelfuzz/network.py).     *)
(*                                                                         *)
(* Two threads share the mailboxes and the event trace:                    *)
(*  - the aiohttp loop thread runs the handlers /replica, /message and     *)
(*    /event, one request at a time (no handler awaits after reading its   *)
(*    body), but each handler takes the lock only around part of its work; *)
(*  - the orchestrator's main thread calls schedule_node, which pops the   *)
(*    mailbox of one edge one message per lock acquisition, then records   *)
(*    a DeliverMessage event per popped message and posts it.              *)
(* A message is a record [id, fr, to]; its payload is abstracted away.     *)
(***************************************************************************)
EXTENDS ClusterNodes, Sequences, SequencesExt, FiniteSets

CONSTANTS
  MaxSent,      \* bound on the messages the targets intercept-post
  MaxMsgs,      \* the max_messages cap of a Schedule step
  MaxTrace,     \* bound on the trace length that /event may reach
  Data          \* client-request payloads an append_entries_request may carry

ASSUME MaxSent \in Nat /\ MaxMsgs \in Nat \ {0}

VARIABLES
  mailboxes,    \* Network.mailboxes: edge -> FIFO of messages
  replicas,     \* Network.replicas: the registered node ids
  trace,        \* Network.event_trace
  leaderId,     \* EventMapper.leader_id
  hPending,     \* message /message enqueued but whose SendMessage is not yet added
  sn,           \* frame of the schedule_node call in progress on the main thread
  msgCtr,       \* number of messages intercepted so far (fresh ids)
  hLook,        \* handle_message's params: stage of get_request_number, its result
  reqMap,       \* EventMapper.request_map: payload -> number (0: absent)
  reqCtr        \* EventMapper.request_ctr

netVars == <<mailboxes, replicas, trace, leaderId, hPending, sn, msgCtr, hLook, reqMap, reqCtr>>

NoLeader == -1
NoData == "none"
NoMsg == [id |-> 0, fr |-> 0, to |-> 0, data |-> NoData]
Edges == {e \in Nodes \X Nodes : e[1] # e[2]}
Msg == [id : 1..MaxSent, fr : Nodes, to : Nodes, data : Data \cup {NoData}]
Event ==
       [name : {"SendMessage", "DeliverMessage"}, msg : Msg, req : 0..(2 * MaxSent + 1)]
  \cup [name : {"BecomeLeader", "Timeout", "Remove", "Add"}, node : Nodes]
  \cup [name : {"ClientRequest"}, leader : Nodes]
\* Progress through get_request_number (network.py:295-300): "check" is the
\* membership test, "set" the map write, "incr" the counter increment, "read"
\* the returned lookup, "record" the add_event that follows; req: the result.
Lookup == [stage : {"check", "set", "incr", "read", "record"}, req : 0..(2 * MaxSent + 1)]
SNFrame ==
  [phase : {"idle", "pop", "deliver"}, fr : Nodes \cup {0}, to : Nodes \cup {0},
   max : 0..MaxMsgs, i : Nat, popped : Seq(Msg), toCrashed : BOOLEAN, look : Lookup]

LookStart == [stage |-> "record", req |-> 0]
\* Entries with data call get_request_number; a message without data does not.
StartLook(m) == [stage |-> IF m.data = NoData THEN "record" ELSE "check", req |-> 0]
SNIdle == [phase |-> "idle", fr |-> 0, to |-> 0, max |-> 0, i |-> 0,
           popped |-> <<>>, toCrashed |-> FALSE, look |-> LookStart]

NetInit ==
  /\ mailboxes = [e \in Edges |-> <<>>]
  /\ replicas = {}
  /\ trace = <<>>
  /\ leaderId = NoLeader
  /\ hPending = NoMsg
  /\ sn = SNIdle
  /\ msgCtr = 0
  /\ hLook = LookStart
  /\ reqMap = [d \in Data |-> 0]
  /\ reqCtr = 1

\* add_event: append under the lock.
add_event(e) == trace' = Append(trace, e)

-----------------------------------------------------------------------------
(* Handlers, run on the network's event-loop thread.                       *)

\* handle_replica: register or update a node's address.
HandleReplica(n) ==
  /\ hPending = NoMsg
  /\ replicas' = replicas \cup {n}
  /\ UNCHANGED <<mailboxes, trace, leaderId, hPending, sn, msgCtr, hLook, reqMap, reqCtr>>

\* handle_message, first half: under the lock, append to mailbox fr_to.
\* The lock is released before the SendMessage event is built and added.
HandleMessageEnqueue(fr, to, d) ==
  LET m == [id |-> msgCtr + 1, fr |-> fr, to |-> to, data |-> d] IN
  /\ hPending = NoMsg
  /\ msgCtr < MaxSent
  /\ mailboxes' = [mailboxes EXCEPT ![<<fr, to>>] = Append(@, m)]
  /\ msgCtr' = msgCtr + 1
  /\ hPending' = m
  /\ hLook' = StartLook(m)
  /\ UNCHANGED <<replicas, trace, leaderId, sn, reqMap, reqCtr>>

\* One line of get_request_number(d), at stage look.stage, taken without the
\* lock by whichever thread maps the message (handle_message on the loop
\* thread, schedule_node on the main thread).
get_request_number(look, d) ==
  CASE look.stage = "check" -> [look EXCEPT !.stage = IF reqMap[d] = 0 THEN "set" ELSE "read"]
    [] look.stage = "set"   -> [look EXCEPT !.stage = "incr"]
    [] look.stage = "incr"  -> [look EXCEPT !.stage = "read"]
    [] look.stage = "read"  -> [stage |-> "record", req |-> reqMap[d]]
RequestMapAfter(look, d) ==
  IF look.stage = "set" THEN [reqMap EXCEPT ![d] = reqCtr] ELSE reqMap
RequestCtrAfter(look) == IF look.stage = "incr" THEN reqCtr + 1 ELSE reqCtr

\* handle_message, between the lock release and add_event: the params of an
\* append_entries_request number the entry's data.
HandleMessageParams ==
  /\ hPending # NoMsg
  /\ hLook.stage # "record"
  /\ hLook' = get_request_number(hLook, hPending.data)
  /\ reqMap' = RequestMapAfter(hLook, hPending.data)
  /\ reqCtr' = RequestCtrAfter(hLook)
  /\ UNCHANGED <<mailboxes, replicas, trace, leaderId, hPending, sn, msgCtr>>

\* handle_message, last: add the SendMessage event with the mapped params.
HandleMessageRecord ==
  /\ hPending # NoMsg
  /\ hLook.stage = "record"
  /\ add_event([name |-> "SendMessage", msg |-> hPending, req |-> hLook.req])
  /\ hPending' = NoMsg
  /\ UNCHANGED <<mailboxes, replicas, leaderId, sn, msgCtr, hLook, reqMap, reqCtr>>

\* Fault: Timeout resets the leader hint to 0 instead of -1.
map_event_leader_zero(kind, n) == IF kind = "BecomeLeader" THEN n ELSE 0

\* map_event_params: BecomeLeader sets the leader hint, Timeout resets it.
map_event_leader(kind, n) == IF kind = "BecomeLeader" THEN n ELSE NoLeader

\* handle_event for the lifecycle events that the properties tell apart.
HandleEvent(kind, n) ==
  /\ hPending = NoMsg
  /\ Len(trace) < MaxTrace
  /\ leaderId' = map_event_leader(kind, n)
  /\ add_event([name |-> kind, node |-> n])
  /\ UNCHANGED <<mailboxes, replicas, hPending, sn, msgCtr, hLook, reqMap, reqCtr>>

-----------------------------------------------------------------------------
(* schedule_node(fr, to, max_msgs, to_crashed), run on the main thread.    *)
(* It enumerates the mailbox list while popping from its front: iteration *)
(* i runs while i < len(list), and pops only when i < max_msgs.            *)

SNStart(fr, to, max, toCrashed) ==
  /\ sn.phase = "idle"
  /\ sn' = [SNIdle EXCEPT !.phase = "pop", !.fr = fr, !.to = to,
                          !.max = max, !.toCrashed = toCrashed]
  /\ UNCHANGED <<mailboxes, replicas, trace, leaderId, hPending, msgCtr, hLook, reqMap, reqCtr>>

\* Fault: the head is read (mailbox[0]) but not popped.
SNRemainingKeep(mb, i, max) == mb

\* One iteration of the enumerate loop; the pop is under the lock.
SNPopMessage(mb, i, max) == IF i < max /\ mb # <<>> THEN <<Head(mb)>> ELSE <<>>
SNRemaining(mb, i, max) == IF i < max /\ mb # <<>> THEN Tail(mb) ELSE mb

SNPop ==
  LET e == <<sn.fr, sn.to>> IN
  /\ sn.phase = "pop"
  /\ sn.i < Len(mailboxes[e])
  /\ mailboxes' = [mailboxes EXCEPT ![e] = SNRemaining(@, sn.i, sn.max)]
  /\ sn' = [sn EXCEPT !.i = @ + 1,
                      !.popped = @ \o SNPopMessage(mailboxes[e], sn.i, sn.max)]
  /\ UNCHANGED <<replicas, trace, leaderId, hPending, msgCtr, hLook, reqMap, reqCtr>>

\* The list iterator is exhausted: index i has reached the list's length.
\* addr = replicas[str(to)] follows; it raises KeyError for an unregistered
\* receiver, which no caller reaches (see NetNext and Cluster's steps).
SNEndPop ==
  /\ sn.phase = "pop"
  /\ sn.to \in replicas
  /\ sn.i >= Len(mailboxes[<<sn.fr, sn.to>>])
  /\ sn' = [sn EXCEPT !.phase = "deliver",
                      !.look = IF sn.popped = <<>> THEN @ ELSE StartLook(Head(sn.popped))]
  /\ UNCHANGED <<mailboxes, replicas, trace, leaderId, hPending, msgCtr, hLook, reqMap, reqCtr>>

\* get_message_event_params for the next popped message, one line of
\* get_request_number per step.
SNParams ==
  /\ sn.phase = "deliver"
  /\ sn.popped # <<>>
  /\ sn.look.stage # "record"
  /\ sn' = [sn EXCEPT !.look = get_request_number(@, Head(sn.popped).data)]
  /\ reqMap' = RequestMapAfter(sn.look, Head(sn.popped).data)
  /\ reqCtr' = RequestCtrAfter(sn.look)
  /\ UNCHANGED <<mailboxes, replicas, trace, leaderId, hPending, msgCtr, hLook>>

\* Record DeliverMessage for the next popped message and post it unless the
\* receiver is crashed; a failed post is swallowed, so the post leaves no state.
SNDeliver ==
  /\ sn.phase = "deliver"
  /\ sn.popped # <<>>
  /\ sn.look.stage = "record"
  /\ add_event([name |-> "DeliverMessage", msg |-> Head(sn.popped), req |-> sn.look.req])
  /\ sn' = [sn EXCEPT !.popped = Tail(@),
                      !.look = IF Len(sn.popped) > 1 THEN StartLook(sn.popped[2]) ELSE @]
  /\ UNCHANGED <<mailboxes, replicas, leaderId, hPending, msgCtr, hLook, reqMap, reqCtr>>

SNReturn ==
  /\ sn.phase = "deliver"
  /\ sn.popped = <<>>
  /\ sn' = SNIdle
  /\ UNCHANGED <<mailboxes, replicas, trace, leaderId, hPending, msgCtr, hLook, reqMap, reqCtr>>

\* The steps of the handler thread; the caller picks who may send.
HandlerStep(Senders) ==
  \/ \E n \in Nodes : HandleReplica(n)
  \/ \E e \in Edges, d \in Data \cup {NoData} :
       e[1] \in Senders /\ HandleMessageEnqueue(e[1], e[2], d)
  \/ HandleMessageParams
  \/ HandleMessageRecord
  \/ \E kind \in {"BecomeLeader", "Timeout"}, n \in Senders : HandleEvent(kind, n)

\* The steps of a schedule_node call already started.
SNStep == SNPop \/ SNEndPop \/ SNParams \/ SNDeliver \/ SNReturn

-----------------------------------------------------------------------------
(* Definitions used by the properties.                                     *)

\* The messages of edge e recorded as delivered, in trace order.
DeliveredOn(e) ==
  LET evs == SelectSeq(trace, LAMBDA ev : ev.name = "DeliverMessage"
                                          /\ <<ev.msg.fr, ev.msg.to>> = e)
  IN [k \in 1..Len(evs) |-> evs[k].msg]

\* The messages of edge e popped by schedule_node but not yet recorded.
InFlightOn(e) == IF <<sn.fr, sn.to>> = e THEN sn.popped ELSE <<>>

NetTypeOK ==
  /\ mailboxes \in [Edges -> Seq(Msg)]
  /\ replicas \subseteq Nodes
  /\ trace \in Seq(Event)
  /\ leaderId \in Nodes \cup {NoLeader}
  /\ hPending \in Msg \cup {NoMsg}
  /\ sn \in SNFrame
  /\ msgCtr \in 0..MaxSent
  /\ hLook \in Lookup
  /\ reqMap \in [Data -> 0..(2 * MaxSent + 1)]
  /\ reqCtr \in 1..(2 * MaxSent + 1)

-----------------------------------------------------------------------------
(* The network on its own: the targets post at will and the main thread    *)
(* issues schedule_node calls for any edge and any max_msgs, once every    *)
(* node has registered: its only caller, Cluster.run, starts the steps     *)
(* only when get_num_replicas() equals the node count, and the lookup     *)
(* replicas[str(to)] after the pop loop needs the receiver registered.    *)

NetNext ==
  \/ HandlerStep(Nodes)
  \/ \E e \in Edges, max \in 1..MaxMsgs :
       replicas = Nodes /\ SNStart(e[1], e[2], max, FALSE)
  \/ SNStep

NetSpec == NetInit /\ [][NetNext]_netVars

\* The network implements the abstract per-edge channel: a message is
\* appended by handle_message and taken from the head of its edge's queue by
\* schedule_node, one message per step, never lost, duplicated or reordered.
Chan == INSTANCE Channel WITH chan <- mailboxes,
                             taken <- [e \in Edges |-> DeliveredOn(e) \o InFlightOn(e)]

ChannelRefinement == Chan!Spec

\* Every DeliverMessage event of the trace comes after the SendMessage event
\* of the same message (spec: every DeliverMessage was preceded by a
\* SendMessage on the same edge).
SendBeforeDeliver ==
  \A k \in 1..Len(trace) :
    trace[k].name = "DeliverMessage" =>
      \E j \in 1..(k - 1) : trace[j].name = "SendMessage" /\ trace[j].msg = trace[k].msg

\* When schedule_node stops popping, it has popped max_msgs messages or the
\* mailbox is empty (spec: pop up to max_msgs head messages).
DrainContract ==
  [][SNEndPop => \/ Len(sn.popped) = sn.max
                 \/ mailboxes[<<sn.fr, sn.to>>] = <<>>]_netVars

\* Every SendMessage and DeliverMessage event for entries with the same data
\* carries the same request number (spec 4.1: a payload's number is assigned
\* on first sight; spec 4.7: every writer of the mapper holds the mutex).
RequestNumberStable ==
  \A k, j \in 1..Len(trace) :
    /\ trace[k].name \in {"SendMessage", "DeliverMessage"}
    /\ trace[j].name \in {"SendMessage", "DeliverMessage"}
    /\ trace[k].msg.data = trace[j].msg.data
    /\ trace[k].msg.data # NoData
    => trace[k].req = trace[j].req

=============================================================================
