------------------------------- MODULE SseHub -------------------------------
(***************************************************************************)
(* The in-process event hub of internal/sse/hub.go: replay buffers per     *)
(* key, their bounds, and the two halves of Publish.  Under the lock an    *)
(* event gets its id, enters the buffer of its key and takes a snapshot of *)
(* the subscribers; after the unlock it is sent to each of them without    *)
(* blocking.  Between the halves anything may happen.                      *)
(*                                                                         *)
(* A subscriber is a connection number; SseStream decides who they are.    *)
(* A definition named Slip... is a plausible mistake in the definition     *)
(* after it; nothing uses it.  The runs are required to catch each one.    *)
(***************************************************************************)
EXTENDS Integers, SequencesExt, Functions

CONSTANTS
    MaxBuf,      \* events kept per key (maxBuf)
    MaxKeys,     \* keys kept (maxKeys)
    ChanCap      \* capacity of a subscriber's channel

ASSUME HubAssumption == {MaxBuf, MaxKeys, ChanCap} \subseteq Nat \ {0}

VARIABLES
    seq,         \* last event id
    buffers,     \* key -> events still replayed
    order,       \* keys in the order they were first published
    subs,        \* key -> live subscribers
    chan,        \* subscriber -> its channel's contents
    closed,      \* Close was called
    shut         \* subscribers whose channel Close has closed

hubVars == <<seq, buffers, order, subs, chan, closed, shut>>

HubInit(Keys) ==
    /\ seq = 0 /\ buffers = <<>> /\ order = <<>> /\ chan = <<>>
    /\ subs = [k \in Keys |-> {}]
    /\ closed = FALSE /\ shut = {}

Buffer(k) == IF k \in DOMAIN buffers THEN buffers[k] ELSE <<>>

(* What a subscriber that has seen lastID is given first: the events with  *)
(* larger ids, which are the last ones of the buffer, as ids ascend there. *)
Replay(k, lastID) ==
    LET seen == CHOOSE n \in 0..Len(Buffer(k)) :
                   \A i \in DOMAIN Buffer(k) : Buffer(k)[i].id > lastID <=> i > n
    IN  SubSeq(Buffer(k), seen + 1, Len(Buffer(k)))

(* Subscribe: register and take the replay in one critical section.        *)
Subscribe(k, s) ==
    /\ subs' = [subs EXCEPT ![k] = @ \cup {s}]
    /\ chan' = [c \in DOMAIN chan \cup {s} |-> IF c = s THEN <<>> ELSE chan[c]]
    /\ UNCHANGED <<seq, buffers, order, closed, shut>>

Unsubscribe(k, s) ==
    /\ subs' = [subs EXCEPT ![k] = @ \ {s}]
    /\ UNCHANGED <<seq, buffers, order, chan, closed, shut>>

(* The newest n elements.                                                  *)
Newest(s, n) == SubSeq(s, IF Len(s) > n THEN Len(s) - n + 1 ELSE 1, Len(s))

SlipOrderEveryTime(k) == Append(order, k)

(* A key joins the order when its buffer is created.                       *)
OrderWith(k) == IF k \in DOMAIN buffers THEN order ELSE Append(order, k)

(* Keys beyond the limit lose their buffer, oldest first.                  *)
Evicted(k) == {OrderWith(k)[i] : i \in 1..Len(OrderWith(k)) - MaxKeys}

(* The locked half of Publish: the event enters the buffer.                *)
Enter(k, content) ==
    LET ev == [id |-> seq + 1, content |-> content]
    IN  /\ seq' = seq + 1
        /\ order' = Newest(OrderWith(k), MaxKeys)
        /\ buffers' = Restrict([b \in DOMAIN buffers \cup {k} |->
                                   IF b = k THEN Newest(Append(Buffer(k), ev), MaxBuf)
                                   ELSE buffers[b]],
                               (DOMAIN buffers \cup {k}) \ Evicted(k))
        /\ UNCHANGED <<subs, chan, closed, shut>>

SlipDropsLate(s) == Len(chan[s]) > ChanCap

(* The unlocked half, for one recipient: send, or drop when it is full.    *)
Drops(s) == Len(chan[s]) >= ChanCap
Send(s, ev) ==
    /\ chan' = [chan EXCEPT ![s] = IF Drops(s) THEN @ ELSE Append(@, ev)]
    /\ UNCHANGED <<seq, buffers, order, subs, closed, shut>>

(* Receive the head of the channel.                                        *)
Receive(s) ==
    /\ chan' = [chan EXCEPT ![s] = Tail(@)]
    /\ UNCHANGED <<seq, buffers, order, subs, closed, shut>>

(* Close: every live subscriber's channel is closed.                       *)
Close ==
    /\ closed' = TRUE
    /\ shut' = shut \cup UNION {subs[k] : k \in DOMAIN subs}
    /\ subs' = [k \in DOMAIN subs |-> {}]
    /\ UNCHANGED <<seq, buffers, order, chan>>

=============================================================================
