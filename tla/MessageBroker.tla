---------------------------- MODULE MessageBroker ----------------------------
(***************************************************************************)
(* MessageBroker, for one channel (channels and patterns share nothing but *)
(* the map and the list of names; psubscribe and punsubscribe are the same *)
(* code, but no 'pmessage' listener is attached, so that the handlers of a *)
(* pattern are never called): handlers in a Set under the channel,         *)
(* SUBSCRIBE and UNSUBSCRIBE on one connection, whose replies come in the  *)
(* order of the commands, and messages in between.  Each Set is an object: *)
(* a call that awaits SUBSCRIBE keeps the one it has put into the map.     *)
(* Counters are left out.                                                  *)
(***************************************************************************)
EXTENDS Integers, Sequences

CONSTANTS
    Handlers,        \* handlers of the subscribers
    MaxBrokerCalls,  \* bound on calls of subscribe and unsubscribe
    MaxMessages,     \* bound on messages published
    MaxBrokerFaults  \* bound on commands rejected

ASSUME BrokerAssumption ==
    MaxBrokerCalls \in Nat /\ MaxMessages \in Nat /\ MaxBrokerFaults \in Nat

BrokerCalls == 1 .. MaxBrokerCalls

VARIABLES
    entry,        \* the Set in the map, by the call that made it; 0 if none
    members,      \* the handlers in each Set
    channels,     \* how often the channel is in stats.channels
    subscribed,   \* Redis has the subscription
    wire,         \* the commands Redis has not read: <<call, verb>>
    inbox,        \* what the subscriber has not read: replies and messages
    brokerCall,   \* where each call stands
    handler,      \* the handler of each subscribe
    reached,      \* the handlers the last message was given to
    messages, brokerFaults

brokerVars == <<entry, members, channels, subscribed, wire, inbox, brokerCall,
                handler, reached, messages, brokerFaults>>

Verbs == {"SUBSCRIBE", "UNSUBSCRIBE"}
NoHandler == "none"

-----------------------------------------------------------------------------
(* Mutations: plausible bugs in the definitions below; BrokerNext uses     *)
(* none.                                                                   *)

\* the entry of a channel without handlers stays
BugForget(c) == UNCHANGED entry

-----------------------------------------------------------------------------
BrokerInit ==
    /\ entry = 0
    /\ members = [c \in BrokerCalls |-> {}]
    /\ channels = 0 /\ subscribed = FALSE
    /\ wire = <<>> /\ inbox = <<>>
    /\ brokerCall = [c \in BrokerCalls |-> "idle"]
    /\ handler = [c \in BrokerCalls |-> NoHandler]
    /\ reached = {} /\ messages = 0 /\ brokerFaults = 0

\* calls are numbered in the order they are made
MayCall(c) ==
    brokerCall[c] = "idle" /\ \A b \in 1 .. c - 1 : brokerCall[b] # "idle"

Send(c, verb) ==
    /\ wire' = Append(wire, <<c, verb>>)
    /\ brokerCall' = [brokerCall EXCEPT ![c] = "sent"]

Ends(c) == brokerCall' = [brokerCall EXCEPT ![c] = "done"]

Forget(c) == entry' = 0

-----------------------------------------------------------------------------
(* subscribe and psubscribe                                                *)

\* the first handler: an empty Set goes into the map before SUBSCRIBE is sent
Subscribe(c, h) ==
    /\ MayCall(c) /\ entry = 0
    /\ entry' = c
    /\ handler' = [handler EXCEPT ![c] = h]
    /\ Send(c, "SUBSCRIBE")
    /\ UNCHANGED <<members, channels, subscribed, inbox, reached, messages,
                   brokerFaults>>

\* another one joins at once, whether SUBSCRIBE has been answered or not
Join(c, h) ==
    /\ MayCall(c) /\ entry # 0
    /\ members' = [members EXCEPT ![entry] = @ \cup {h}]
    /\ Ends(c)
    /\ UNCHANGED <<entry, channels, subscribed, wire, inbox, handler, reached,
                   messages, brokerFaults>>

\* after the reply: into the Set it made, which may have left the map
Subscribed(c) ==
    /\ members' = [members EXCEPT ![c] = @ \cup {handler[c]}]
    /\ channels' = channels + 1

-----------------------------------------------------------------------------
(* unsubscribe and punsubscribe; without an entry they return              *)

\* one handler goes, and with the last one the entry
Leave(c, h) ==
    /\ MayCall(c) /\ entry # 0
    /\ members' = [members EXCEPT ![entry] = @ \ {h}]
    /\ IF members'[entry] = {}
       THEN Forget(c) /\ Send(c, "UNSUBSCRIBE")
       ELSE Ends(c) /\ UNCHANGED <<entry, wire>>
    /\ UNCHANGED <<channels, subscribed, inbox, handler, reached, messages,
                   brokerFaults>>

\* all handlers go; close does this for each channel of the list
LeaveAll(c) ==
    /\ MayCall(c) /\ entry # 0
    /\ Forget(c) /\ Send(c, "UNSUBSCRIBE")
    /\ UNCHANGED <<members, channels, subscribed, inbox, handler, reached, messages,
                   brokerFaults>>

Unsubscribed(c) ==
    /\ channels' = IF channels > 0 THEN channels - 1 ELSE 0
    /\ UNCHANGED members

-----------------------------------------------------------------------------
(* Redis and the subscriber connection                                     *)

Execute ==
    /\ wire # <<>>
    /\ subscribed' = (Head(wire)[2] = "SUBSCRIBE")
    /\ inbox' = Append(inbox, Head(wire))
    /\ wire' = Tail(wire)
    /\ UNCHANGED <<entry, members, channels, brokerCall, handler, reached, messages,
                   brokerFaults>>

\* a command is rejected: the call throws, and what it has done stays done
Reject ==
    /\ wire # <<>> /\ brokerFaults < MaxBrokerFaults
    /\ brokerFaults' = brokerFaults + 1
    /\ wire' = Tail(wire)
    /\ brokerCall' = [brokerCall EXCEPT ![Head(wire)[1]] = "thrown"]
    /\ UNCHANGED <<entry, members, channels, subscribed, inbox, handler, reached,
                   messages>>

ReadReply ==
    /\ inbox # <<>> /\ Head(inbox)[2] \in Verbs
    /\ LET c == Head(inbox)[1]
       IN  /\ IF Head(inbox)[2] = "SUBSCRIBE" THEN Subscribed(c) ELSE Unsubscribed(c)
           /\ Ends(c)
    /\ inbox' = Tail(inbox)
    /\ UNCHANGED <<entry, subscribed, wire, handler, reached, messages, brokerFaults>>

\* publish, by this broker or another, to a channel it is subscribed to
Publish(own) ==
    /\ messages < MaxMessages /\ subscribed
    /\ messages' = messages + 1
    /\ inbox' = Append(inbox, <<0, IF own THEN "own" ELSE "message">>)
    /\ UNCHANGED <<entry, members, channels, subscribed, wire, brokerCall, handler,
                   reached, brokerFaults>>

\* handleMessage, of a channel: its own messages are skipped, others go to the
\* handlers of now
HandleMessage ==
    /\ inbox # <<>> /\ Head(inbox)[2] \in {"own", "message"}
    /\ reached' = IF Head(inbox)[2] = "own" \/ entry = 0 THEN {} ELSE members[entry]
    /\ inbox' = Tail(inbox)
    /\ UNCHANGED <<entry, members, channels, subscribed, wire, brokerCall, handler,
                   messages, brokerFaults>>

BrokerNext ==
    \/ \E c \in BrokerCalls :
           \/ \E h \in Handlers : Subscribe(c, h) \/ Join(c, h) \/ Leave(c, h)
           \/ LeaveAll(c)
    \/ Execute \/ Reject \/ ReadReply \/ HandleMessage
    \/ \E own \in BOOLEAN : Publish(own)

BrokerSpec == BrokerInit /\ [][BrokerNext]_brokerVars

-----------------------------------------------------------------------------
BrokerTypeOK ==
    /\ entry \in 0 .. MaxBrokerCalls
    /\ members \in [BrokerCalls -> SUBSET Handlers]
    /\ channels \in Nat /\ subscribed \in BOOLEAN
    /\ wire \in Seq(BrokerCalls \X Verbs)
    /\ inbox \in Seq((0 .. MaxBrokerCalls) \X (Verbs \cup {"own", "message"}))
    /\ brokerCall \in [BrokerCalls -> {"idle", "sent", "done", "thrown"}]
    /\ handler \in [BrokerCalls -> Handlers \cup {NoHandler}]
    /\ reached \subseteq Handlers
    /\ messages \in 0 .. MaxMessages /\ brokerFaults \in 0 .. MaxBrokerFaults

\* However subscribes and unsubscribes of several callers overlap, once all
\* are answered and none was rejected, Redis has the subscription exactly if
\* the map has the channel, and the list of channels shows it once or not at
\* all.  (A rejected SUBSCRIBE leaves an entry behind that later subscribes
\* join without sending one.)  MessageBroker.subscribe, unsubscribe.
MapFollowsRedis ==
    wire = <<>> /\ inbox = <<>> /\ brokerFaults = 0 =>
        /\ subscribed <=> entry # 0
        /\ channels = IF subscribed THEN 1 ELSE 0
=============================================================================
