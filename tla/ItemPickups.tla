---------------------------- MODULE ItemPickups ----------------------------
(***************************************************************************)
(* source/program/item_pickups.cpp: four hooks into the game that, when    *)
(* popups are disabled, replace the popup of a collected item by a message *)
(* of the multiworld kind, and restore the environment music when the      *)
(* pickup sound ends.  The hooks talk to each other through four statics   *)
(* only, so what they do depends on the order the game calls them in.      *)
(*                                                                         *)
(* All hooks and Lua run on the game thread.  The game is external; from   *)
(* the comments of the hooks, OnCollectPickup's original shows the item's  *)
(* popup, and PlayPickupSound's original plays the item's sound.  Other    *)
(* sounds start at any time outside the latter, also inside a callback,    *)
(* in which no sound ends.                                                 *)
(***************************************************************************)
EXTENDS Integers, FiniteSets

CONSTANTS
  MaxSounds,  \* bound: sounds played
  MaxPlaying  \* bound: sounds that play at the same time

ASSUME BoundsAssumption == {MaxSounds, MaxPlaying} \subseteq Nat

VARIABLES
  disableItemPopups, nextPopupIsAsync, hookNextSoundCallback,
  hookedCallback,  \* the sound whose callback is kept, Null for none
  pc,              \* how far the game is with an item being collected, or
                   \* "callback": inside a callback that SoundCallbackHook calls
  wanted,          \* popups were disabled when that item was collected
  popup,           \* what became of the last popup
  sounds,          \* sounds started: each names the callback it came with
  playing,         \* those that have not finished
  hooked,          \* those that were given SoundCallbackHook
  pickups,         \* those that are pickup sounds
  ran,             \* how often the callback of a sound has been called
  restores         \* calls of Game.PlayCurrentEnvironmentMusic queued

vars == <<disableItemPopups, nextPopupIsAsync, hookNextSoundCallback,
          hookedCallback, pc, wanted, popup, sounds, playing, hooked, pickups,
          ran, restores>>
soundVars == <<hookedCallback, sounds, playing, hooked, pickups, ran, restores>>

Null   == 0
Sounds == 1..MaxSounds

Init ==
  /\ disableItemPopups = FALSE /\ nextPopupIsAsync = FALSE
  /\ hookNextSoundCallback = FALSE /\ hookedCallback = Null
  /\ pc = "idle" /\ wanted = FALSE /\ popup = "none"
  /\ sounds = 0 /\ playing = {} /\ hooked = {} /\ pickups = {}
  /\ ran = [s \in Sounds |-> 0] /\ restores = 0

-----------------------------------------------------------------------------
\* Faulty variants of single definitions; each breaks a property below.

\* The callback stays behind when it has been called.
CallbackReturnsKeeping ==
  /\ pc = "callback" /\ pc' = "idle"
  /\ restores' = restores + 1
  /\ UNCHANGED <<disableItemPopups, nextPopupIsAsync, hookNextSoundCallback,
                 hookedCallback, wanted, popup, sounds, playing, hooked,
                 pickups, ran>>

\* The music is restored only when there was a callback to wrap.
SoundCallbackHookIfKept ==
  IF hookedCallback = Null
  THEN UNCHANGED <<pc, ran, restores>>
  ELSE /\ ran' = [ran EXCEPT ![hookedCallback] = @ + 1]
       /\ pc' = "callback" /\ UNCHANGED restores

\* The sound that has been intercepted leaves the hook armed.
TakeSoundCallbackArmed(callback) ==
  /\ hooked' = IF hookNextSoundCallback THEN hooked \cup {sounds + 1} ELSE hooked
  /\ hookedCallback' = IF hookNextSoundCallback THEN callback ELSE hookedCallback
  /\ UNCHANGED hookNextSoundCallback

\* Every callback is kept, also that of a sound the hook does not wrap.
TakeSoundCallbackAlways(callback) ==
  /\ hooked' = IF hookNextSoundCallback THEN hooked \cup {sounds + 1} ELSE hooked
  /\ hookedCallback' = callback
  /\ hookNextSoundCallback' = FALSE

\* The redirected popup leaves the redirection on.
ShowItemPickupMessageLeavesFlag ==
  /\ pc \in {"collected", "sounded"} /\ pc' = "idle"
  /\ popup' = IF nextPopupIsAsync THEN "async" ELSE "shown"
  /\ UNCHANGED <<disableItemPopups, nextPopupIsAsync, hookNextSoundCallback,
                 wanted, soundVars>>

-----------------------------------------------------------------------------
\* Lua may run inside any call the game makes into it.
SetItemPopupsEnabled(enabled) ==
  /\ disableItemPopups' = ~enabled
  /\ UNCHANGED <<nextPopupIsAsync, hookNextSoundCallback, pc, wanted, popup,
                 soundVars>>

OnCollectPickup ==
  /\ pc = "idle" /\ pc' = "collected"
  /\ nextPopupIsAsync' = (disableItemPopups \/ nextPopupIsAsync)
  /\ wanted' = disableItemPopups
  /\ UNCHANGED <<disableItemPopups, hookNextSoundCallback, popup, soundVars>>

PlayPickupSound ==
  /\ pc = "collected" /\ pc' = "sounding"
  /\ hookNextSoundCallback' = (nextPopupIsAsync \/ hookNextSoundCallback)
  /\ UNCHANGED <<disableItemPopups, nextPopupIsAsync, wanted, popup, soundVars>>

\* The body of PlaySoundWithCallback's hook: an armed hook keeps the callback,
\* whatever it kept before, and gives the sound SoundCallbackHook instead.
TakeSoundCallback(callback) ==
  /\ hooked' = IF hookNextSoundCallback THEN hooked \cup {sounds + 1} ELSE hooked
  /\ hookedCallback' = IF hookNextSoundCallback THEN callback ELSE hookedCallback
  /\ hookNextSoundCallback' = FALSE

\* A sound starts: the one of the item being collected inside PlayPickupSound,
\* any other sound of the game that comes with a callback at any other time.
PlaySoundWithCallback ==
  /\ sounds < MaxSounds /\ Cardinality(playing) < MaxPlaying
  /\ pc' = IF pc = "sounding" THEN "sounded" ELSE pc
  /\ pickups' = IF pc = "sounding" THEN pickups \cup {sounds + 1} ELSE pickups
  /\ TakeSoundCallback(sounds + 1)
  /\ sounds' = sounds + 1 /\ playing' = playing \cup {sounds + 1}
  /\ UNCHANGED <<disableItemPopups, nextPopupIsAsync, wanted, popup, ran,
                 restores>>

\* A redirected popup is queued as a message and dismissed at once; another one
\* is shown by the game.
ShowItemPickupMessage ==
  /\ pc \in {"collected", "sounded"} /\ pc' = "idle"
  /\ popup' = IF nextPopupIsAsync THEN "async" ELSE "shown"
  /\ nextPopupIsAsync' = FALSE
  /\ UNCHANGED <<disableItemPopups, hookNextSoundCallback, wanted, soundVars>>

\* The kept callback is called while it is still kept; without one the music is
\* restored at once.
SoundCallbackHook ==
  IF hookedCallback = Null
  THEN restores' = restores + 1 /\ UNCHANGED <<pc, ran>>
  ELSE /\ ran' = [ran EXCEPT ![hookedCallback] = @ + 1]
       /\ pc' = "callback" /\ UNCHANGED restores

\* A sound finishes, and the game calls the callback it was given.
SoundFinished(s) ==
  /\ pc = "idle" /\ s \in playing
  /\ playing' = playing \ {s}
  /\ IF s \in hooked
     THEN SoundCallbackHook
     ELSE ran' = [ran EXCEPT ![s] = @ + 1] /\ UNCHANGED <<pc, restores>>
  /\ UNCHANGED <<disableItemPopups, nextPopupIsAsync, hookNextSoundCallback,
                 hookedCallback, wanted, popup, sounds, hooked, pickups>>

\* SoundCallbackHook goes on behind the call.
CallbackReturns ==
  /\ pc = "callback" /\ pc' = "idle"
  /\ hookedCallback' = Null /\ restores' = restores + 1
  /\ UNCHANGED <<disableItemPopups, nextPopupIsAsync, hookNextSoundCallback,
                 wanted, popup, sounds, playing, hooked, pickups, ran>>

Next ==
  \/ \E enabled \in BOOLEAN : SetItemPopupsEnabled(enabled)
  \/ OnCollectPickup \/ PlayPickupSound \/ PlaySoundWithCallback
  \/ ShowItemPickupMessage
  \/ \E s \in Sounds : SoundFinished(s)
  \/ CallbackReturns

Spec == Init /\ [][Next]_vars

-----------------------------------------------------------------------------
\* Properties.

\* At most one callback is kept, and it belongs to a sound that was intercepted.
TypeOK ==
  /\ {disableItemPopups, nextPopupIsAsync, hookNextSoundCallback, wanted}
       \subseteq BOOLEAN
  /\ hookedCallback \in hooked \cup {Null}
  /\ pc \in {"idle", "collected", "sounding", "sounded", "callback"}
  /\ popup \in {"none", "async", "shown"}
  /\ sounds \in 0..MaxSounds
  /\ playing \subseteq 1..sounds /\ hooked \subseteq 1..sounds
  /\ pickups \subseteq 1..sounds
  /\ ran \in [Sounds -> Nat] /\ restores \in Nat

\* An item's popup is redirected exactly when popups were disabled as the item
\* was collected: the flag that OnCollectPickup sets for the next popup reaches
\* that popup and no later one, whatever Lua sets in between.
PopupAsWanted ==
  [][(pc \in {"collected", "sounded"} /\ pc' = "idle") =>
       popup' = IF wanted THEN "async" ELSE "shown"]_vars

\* The flag that PlayPickupSound sets for the next sound reaches the item's own
\* sound and no other: the music is restored after pickup sounds only.
OnlyPickupSoundsHooked == hooked \subseteq pickups

\* However the sounds of several items overlap, and whatever starts inside a
\* callback, no callback is called twice: the one that is kept is gone before
\* the next sound ends.
NoCallbackTwice == \A s \in Sounds : ran[s] <= 1

\* Every intercepted sound that ends restores the music once, also the one whose
\* callback was called for another sound.
MusicRestored == pc # "callback" => restores = Cardinality(hooked \ playing)

-----------------------------------------------------------------------------
\* The comment on the hook of PlaySoundWithCallback describes the function it
\* wraps as "playing certain sound effects and invoking a callback once the
\* sound has finished playing".  A finished sound has had its callback called.
OwnCallbackRuns == \A s \in 1..sounds : s \notin playing => ran[s] = 1
=============================================================================
