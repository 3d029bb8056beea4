------------------------------- MODULE DeviceStore -------------------------------
(***************************************************************************)
(* What the mini app keeps for a user outside the server: the favourites   *)
(* and the preferences (src/stores/preferences.ts), each a React state, a  *)
(* copy in the localStorage of the device, and a copy in Telegram's        *)
(* CloudStorage shared by the user's devices (cloudGet and cloudSet of     *)
(* src/services/telegram.ts).  Opening the app starts from localStorage    *)
(* and asks CloudStorage; the answer replaces the state.                   *)
(*                                                                         *)
(* A value is a set of items: the favourite products, or the options that  *)
(* differ from their default.  CloudStorage (external) serves the requests *)
(* of a device one after the other, and each may fail; the requests of an  *)
(* app that is closed are dropped.                                         *)
(***************************************************************************)
EXTENDS Naturals, Sequences

CONSTANTS
    Devices,
    Items,
    MaxTaps,        \* changes the user makes
    MaxFaults       \* CloudStorage requests that fail

DeviceAssumption == MaxTaps \in Nat /\ MaxFaults \in Nat

VARIABLES
    hook,       \* favorites (useFavorites) or preferences (usePreferences)
    cloud,      \* CloudStorage: {} or {value}
    local,      \* per device: localStorage
    open,       \* devices on which the app is open
    shown,      \* per device: the React state
    requests,   \* per device: getItem and setItem calls not served yet
    answer,     \* per device: the result of getItem on its way, {} or {raw}
    wanted,     \* what the user has chosen, wherever they tapped
    taps, faults,
    erased      \* devices cleared and not touched by the user since

vars == <<hook, cloud, local, open, shown, requests, answer, wanted, taps,
          faults, erased>>

Init ==
    /\ hook \in {"favorites", "preferences"}
    /\ cloud = {}
    /\ local = [d \in Devices |-> {}]
    /\ open = {}
    /\ shown = [d \in Devices |-> {}]
    /\ requests = [d \in Devices |-> << >>]
    /\ answer = [d \in Devices |-> {}]
    /\ wanted = {}
    /\ taps = 0
    /\ faults = 0
    /\ erased = {}

Get == [op |-> "get", value |-> {}]
SetTo(v) == [op |-> "set", value |-> v]

\* The answer to getItem has not arrived.
Loading(d) == answer[d] # {} \/ \E i \in DOMAIN requests[d] : requests[d][i] = Get
AtRest(d) == answer[d] = {} /\ requests[d] = << >>

-------------------------------------------------------------------------------
(* The hooks *)

\* Effects of the first render.  usePreferences also runs the effect that
\* stores the value, before the answer to its own getItem.
FirstRequests(v) == IF hook = "favorites" THEN <<Get>> ELSE <<Get, SetTo(v)>>

Mount(d, v) ==
    /\ shown' = [shown EXCEPT ![d] = v]
    /\ answer' = [answer EXCEPT ![d] = {}]
    /\ requests' = [requests EXCEPT ![d] = FirstRequests(v)]

Open(d) ==
    /\ d \notin open
    /\ open' = open \cup {d}
    /\ Mount(d, local[d])
    /\ UNCHANGED <<hook, cloud, local, wanted, taps, faults, erased>>

Close(d) ==
    /\ d \in open
    /\ open' = open \ {d}
    /\ requests' = [requests EXCEPT ![d] = << >>]
    /\ answer' = [answer EXCEPT ![d] = {}]
    /\ UNCHANGED <<hook, cloud, local, shown, wanted, taps, faults, erased>>

\* The .then of cloudGet.  For preferences the new value runs the effect that
\* stores it on both sides.  An empty answer changes nothing.
Loaded(d) ==
    /\ d \in open
    /\ answer[d] # {}
    /\ answer' = [answer EXCEPT ![d] = {}]
    /\ \E v \in answer[d] :
        /\ shown' = [shown EXCEPT ![d] = v]
        /\ IF hook = "favorites" THEN UNCHANGED <<local, requests>> ELSE
            /\ local' = [local EXCEPT ![d] = v]
            /\ requests' = [requests EXCEPT ![d] = Append(@, SetTo(v))]
    /\ UNCHANGED <<hook, cloud, open, wanted, taps, faults, erased>>

Flip(v, x) == IF x \in v THEN v \ {x} ELSE v \cup {x}

\* toggle(id) of the favourites, update(patch) of the preferences.
Changed(d, x) == Flip(shown[d], x)

Tap(d, x) ==
    /\ d \in open
    /\ taps < MaxTaps
    /\ taps' = taps + 1
    /\ shown' = [shown EXCEPT ![d] = Changed(d, x)]
    /\ local' = [local EXCEPT ![d] = shown'[d]]
    /\ requests' = [requests EXCEPT ![d] = Append(@, SetTo(shown'[d]))]
    /\ wanted' = IF x \in shown[d] THEN wanted \ {x} ELSE wanted \cup {x}
    /\ erased' = {}
    /\ UNCHANGED <<hook, cloud, open, answer, faults>>

\* erase() of the settings page: localStorage.clear(), then a reload.
Erase(d) ==
    /\ d \in open
    /\ local' = [local EXCEPT ![d] = {}]
    /\ Mount(d, {})
    /\ wanted' = {}
    /\ erased' = erased \cup {d}
    /\ UNCHANGED <<hook, cloud, open, taps, faults>>

-------------------------------------------------------------------------------
(* CloudStorage *)

Serve(d) ==
    /\ requests[d] # << >>
    /\ LET r == Head(requests[d])
       IN IF r.op = "get" THEN answer' = [answer EXCEPT ![d] = cloud] /\ UNCHANGED cloud
                          ELSE cloud' = {r.value} /\ UNCHANGED answer
    /\ requests' = [requests EXCEPT ![d] = Tail(@)]
    /\ UNCHANGED <<hook, local, open, shown, wanted, taps, faults, erased>>

\* An error is an empty answer to getItem and is ignored after setItem.
ServeFails(d) ==
    /\ requests[d] # << >>
    /\ faults < MaxFaults
    /\ faults' = faults + 1
    /\ requests' = [requests EXCEPT ![d] = Tail(@)]
    /\ UNCHANGED <<hook, cloud, local, open, shown, answer, wanted, taps, erased>>

-------------------------------------------------------------------------------
Next ==
    \E d \in Devices :
        \/ Open(d) \/ Close(d) \/ Loaded(d) \/ Erase(d)
        \/ Serve(d) \/ ServeFails(d)
        \/ \E x \in Items : Tap(d, x)

\* A user who taps when the answer has come, closes the app when it is at rest
\* before opening it elsewhere, and clears nothing; no request fails.
InTurns ==
    \E d \in Devices :
        \/ open = {} /\ Open(d)
        \/ AtRest(d) /\ Close(d)
        \/ Loaded(d)
        \/ Serve(d)
        \/ ~Loading(d) /\ \E x \in Items : Tap(d, x)

Spec == Init /\ [][Next]_vars

-------------------------------------------------------------------------------
(* Properties *)

\* Every variable holds a value the code can give it; what is on its way
\* belongs to an open app, with no more than the mount, the answer and the
\* taps can have asked for.
TypeOK ==
    /\ hook \in {"favorites", "preferences"}
    /\ cloud \in SUBSET SUBSET Items
    /\ local \in [Devices -> SUBSET Items]
    /\ open \in SUBSET Devices
    /\ shown \in [Devices -> SUBSET Items]
    /\ answer \in [Devices -> SUBSET SUBSET Items]
    /\ wanted \in SUBSET Items
    /\ taps \in 0..MaxTaps
    /\ faults \in 0..MaxFaults
    /\ erased \in SUBSET Devices
    /\ \A d \in Devices :
        /\ Len(requests[d]) <= 3 + MaxTaps
        /\ \A i \in DOMAIN requests[d] :
            requests[d][i] \in [op : {"get", "set"}, value : SUBSET Items]
        /\ d \notin open => AtRest(d)

\* The page shows what the user chose, on every device, once it has loaded.
ShownIsChosen ==
    \A d \in open : AtRest(d) => shown[d] = wanted

\* What the user chose on one device is there for the next one: with nothing
\* on its way, CloudStorage holds it.
SharedAtRest ==
    taps > 0 /\ (\A d \in Devices : AtRest(d)) => cloud = {wanted}

\* Cleared data do not come back to the device by themselves (they do, from the
\* cloud's copy).
ErasedStaysErased ==
    \A d \in erased \cap open : AtRest(d) => shown[d] = {} /\ local[d] = {}
===============================================================================
