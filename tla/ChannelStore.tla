---------------------------- MODULE ChannelStore ----------------------------
(***************************************************************************)
(* What apktag promises its callers: an APK is a small store with one slot  *)
(* per channel pair ID and one for the ZIP comment.  A call either fills    *)
(* exactly one empty slot, or empties the slots it names, or is refused and *)
(* changes nothing; a refusal tells the truth about the slots.  Signing,    *)
(* outside apktag, rebuilds the block and keeps the comment.                *)
(***************************************************************************)
CONSTANTS
    PairSlots,    \* IDs a channel pair may have
    Comment,      \* the slot of the V1 suffix; no pair ID
    Channels,
    None,         \* an empty slot
    Unreadable,   \* a slot whose content is no channel
    Refusals      \* error results of a call

VARIABLES
    store,   \* the content of each slot
    reply    \* the result of the last call

Slots == PairSlots \cup {Comment}

StoreTypeOK == store \in [Slots -> Channels \cup {None, Unreadable}]

StoreInit == StoreTypeOK /\ reply = "ok"

(* A channel never joins one the same representation holds; a pair is not   *)
(* added beside a V1 suffix either.                                         *)
Put(slot, ch) ==
    /\ reply' = "ok"
    /\ store[slot] = None
    /\ store[Comment] = None
    /\ store' = [store EXCEPT ![slot] = ch]

Clear(slots) ==
    /\ reply' = "ok"
    /\ \E s \in slots : store[s] # None
    /\ \A s \in slots : store[s] # Unreadable
    /\ store' = [s \in Slots |-> IF s \in slots THEN None ELSE store[s]]

Refuse(slots, error) ==
    /\ reply' = error
    /\ error = "ErrChannelExists" => \E s \in slots : store[s] # None
    /\ error = "ErrChannelNotFound" => \A s \in slots : store[s] = None
    /\ store' = store

Resign ==
    /\ reply' = "ok"
    /\ store' = [s \in Slots |-> IF s = Comment THEN store[s] ELSE None]

(* The slots one call may name.                                             *)
Targets == {{s} : s \in Slots} \cup {{s, Comment} : s \in PairSlots}

StoreNext ==
    \/ \E s \in Slots, ch \in Channels : Put(s, ch)
    \/ \E T \in Targets : Clear(T) \/ \E e \in Refusals : Refuse(T, e)
    \/ Resign

StoreSpec == StoreInit /\ [][StoreNext]_<<store, reply>>
=============================================================================
