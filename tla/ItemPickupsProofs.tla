------------------------- MODULE ItemPickupsProofs -------------------------
(***************************************************************************)
(* What holds of the pickup hooks for any number of sounds, started and    *)
(* overlapping in any order.  Each of the four statics is meant for "the   *)
(* next call" of another hook; FlagsAim and CallbackKept say, at every     *)
(* point of a pickup, which call that is.                                  *)
(***************************************************************************)
EXTENDS ItemPickups, FiniteSetTheorems, TLAPS

\* The two flags between the hooks are up only while the item they were set for
\* is being collected, and the first one is what was wanted of that item.
FlagsAim ==
  /\ hookNextSoundCallback => pc = "sounding"
  /\ nextPopupIsAsync = (pc \in {"collected", "sounding", "sounded"} /\ wanted)

\* A callback that may still be called has not been called yet: the kept one,
\* outside the call itself, the own one of a sound that was left alone, and that
\* of a sound to come.
CallbackKept ==
  \A s \in Sounds :
    (s = hookedCallback /\ pc # "callback") \/ s \in playing \ hooked \/ s > sounds
    => ran[s] = 0

\* Inside a callback one restoration is still due.
MusicDue ==
  restores + (IF pc = "callback" THEN 1 ELSE 0) = Cardinality(hooked \ playing)

IInv ==
  /\ TypeOK /\ FlagsAim /\ OnlyPickupSoundsHooked
  /\ CallbackKept /\ NoCallbackTwice /\ MusicDue

USE BoundsAssumption DEF soundVars, Null, Sounds

LEMMA TypeStep == TypeOK /\ [Next]_vars => TypeOK'
<1> SUFFICES ASSUME TypeOK, [Next]_vars PROVE TypeOK'
  OBVIOUS
<1>t. /\ disableItemPopups \in BOOLEAN /\ nextPopupIsAsync \in BOOLEAN
      /\ hookNextSoundCallback \in BOOLEAN /\ wanted \in BOOLEAN
  BY Zenon DEF TypeOK
<1> SUFFICES
      /\ disableItemPopups' \in BOOLEAN /\ nextPopupIsAsync' \in BOOLEAN
      /\ hookNextSoundCallback' \in BOOLEAN /\ wanted' \in BOOLEAN
      /\ hookedCallback' \in hooked' \cup {Null}
      /\ pc' \in {"idle", "collected", "sounding", "sounded", "callback"}
      /\ popup' \in {"none", "async", "shown"}
      /\ sounds' \in 0..MaxSounds
      /\ playing' \subseteq 1..sounds' /\ hooked' \subseteq 1..sounds'
      /\ pickups' \subseteq 1..sounds'
      /\ ran' \in [Sounds -> Nat] /\ restores' \in Nat
  BY DEF TypeOK
<1> USE <1>t DEF TypeOK
<1>1. ASSUME NEW enabled \in BOOLEAN, SetItemPopupsEnabled(enabled)
      PROVE  TypeOK'
  BY <1>1 DEF SetItemPopupsEnabled
<1>2. CASE OnCollectPickup
  BY <1>2 DEF OnCollectPickup
<1>3. CASE PlayPickupSound
  BY <1>3 DEF PlayPickupSound
<1>4. CASE PlaySoundWithCallback
  <2>1. /\ sounds' = sounds + 1 /\ sounds < MaxSounds
        /\ playing' = playing \cup {sounds + 1}
        /\ pickups' \in {pickups, pickups \cup {sounds + 1}}
        /\ UNCHANGED <<popup, ran, restores>>
    BY <1>4 DEF PlaySoundWithCallback
  <2>2. \/ hooked' = hooked \cup {sounds + 1} /\ hookedCallback' = sounds + 1
        \/ hooked' = hooked /\ hookedCallback' = hookedCallback
    BY <1>4 DEF PlaySoundWithCallback, TakeSoundCallback
  <2>3. /\ pc' \in {"sounded", pc} /\ hookNextSoundCallback' = FALSE
        /\ UNCHANGED <<disableItemPopups, nextPopupIsAsync, wanted>>
    BY <1>4 DEF PlaySoundWithCallback, TakeSoundCallback
  <2>4. sounds' \in 0..MaxSounds /\ 1..sounds \subseteq 1..sounds' /\ sounds + 1 \in 1..sounds'
    BY <2>1
  <2> QED
    BY <2>1, <2>2, <2>3, <2>4
<1>5. CASE ShowItemPickupMessage
  BY <1>5 DEF ShowItemPickupMessage
<1>6. ASSUME NEW s \in Sounds, SoundFinished(s) PROVE TypeOK'
  <2>1. CASE s \in hooked
    BY <1>6, <2>1 DEF SoundFinished, SoundCallbackHook
  <2>2. CASE s \notin hooked
    BY <1>6, <2>2 DEF SoundFinished
  <2> QED
    BY <2>1, <2>2
<1>7. CASE UNCHANGED vars
  BY <1>7 DEF vars
<1>8. CASE CallbackReturns
  BY <1>8 DEF CallbackReturns
<1> QED
  BY <1>1, <1>2, <1>3, <1>4, <1>5, <1>6, <1>7, <1>8 DEF Next

\* The flags, and the one property that is about them only.
LEMMA FlagStep ==
  TypeOK /\ FlagsAim /\ OnlyPickupSoundsHooked /\ [Next]_vars =>
    FlagsAim' /\ OnlyPickupSoundsHooked'
<1> SUFFICES ASSUME TypeOK, FlagsAim, OnlyPickupSoundsHooked, [Next]_vars
             PROVE  FlagsAim' /\ OnlyPickupSoundsHooked'
  OBVIOUS
<1>t. /\ disableItemPopups \in BOOLEAN /\ nextPopupIsAsync \in BOOLEAN
      /\ hookNextSoundCallback \in BOOLEAN /\ wanted \in BOOLEAN
  BY Zenon DEF TypeOK
<1> USE <1>t DEF FlagsAim, OnlyPickupSoundsHooked
<1>1. ASSUME NEW enabled \in BOOLEAN, SetItemPopupsEnabled(enabled)
      PROVE  FlagsAim' /\ OnlyPickupSoundsHooked'
  BY <1>1 DEF SetItemPopupsEnabled
<1>2. CASE OnCollectPickup
  BY <1>2 DEF OnCollectPickup
<1>3. CASE PlayPickupSound
  BY <1>3 DEF PlayPickupSound
<1>4. CASE PlaySoundWithCallback
  BY <1>4 DEF PlaySoundWithCallback, TakeSoundCallback
<1>5. CASE ShowItemPickupMessage
  BY <1>5 DEF ShowItemPickupMessage
<1>6. ASSUME NEW s \in Sounds, SoundFinished(s)
      PROVE  FlagsAim' /\ OnlyPickupSoundsHooked'
  BY <1>6 DEF SoundFinished, SoundCallbackHook
<1>7. CASE UNCHANGED vars
  BY <1>7 DEF vars
<1>8. CASE CallbackReturns
  BY <1>8 DEF CallbackReturns
<1> QED
  BY <1>1, <1>2, <1>3, <1>4, <1>5, <1>6, <1>7, <1>8 DEF Next

LEMMA CallbackStep ==
  TypeOK /\ CallbackKept /\ NoCallbackTwice /\ [Next]_vars =>
    CallbackKept' /\ NoCallbackTwice'
<1> SUFFICES ASSUME TypeOK, CallbackKept, NoCallbackTwice, [Next]_vars
             PROVE  CallbackKept' /\ NoCallbackTwice'
  OBVIOUS
<1>t. /\ ran \in [Sounds -> Nat] /\ sounds \in 0..MaxSounds
      /\ hookedCallback \in hooked \cup {Null}
      /\ playing \subseteq 1..sounds /\ hooked \subseteq 1..sounds
  BY DEF TypeOK
<1> USE <1>t DEF CallbackKept, NoCallbackTwice
<1>1. CASE /\ UNCHANGED <<hookedCallback, playing, hooked, sounds, ran>>
           /\ pc = "callback" => pc' = pc
  BY <1>1
<1>2. CASE PlaySoundWithCallback
  <2>1. /\ hooked' \in {hooked, hooked \cup {sounds + 1}}
        /\ hookedCallback' \in {hookedCallback, sounds + 1}
        /\ sounds' = sounds + 1 /\ playing' = playing \cup {sounds + 1}
        /\ ran' = ran /\ sounds < MaxSounds
        /\ pc = "callback" => pc' = pc
    BY <1>2 DEF PlaySoundWithCallback, TakeSoundCallback
  <2> QED
    BY <2>1
<1>3. ASSUME NEW s \in Sounds, SoundFinished(s)
      PROVE  CallbackKept' /\ NoCallbackTwice'
  <2>1. CASE s \in hooked
    BY <1>3, <2>1 DEF SoundFinished, SoundCallbackHook
  <2>2. CASE s \notin hooked
    BY <1>3, <2>2 DEF SoundFinished
  <2> QED
    BY <2>1, <2>2
<1>4. CASE CallbackReturns
  <2>1. hookedCallback' = 0 /\ UNCHANGED <<playing, hooked, sounds, ran>>
    BY <1>4 DEF CallbackReturns
  <2> QED
    BY <2>1
<1> QED
  BY <1>1, <1>2, <1>3, <1>4
     DEF Next, SetItemPopupsEnabled, OnCollectPickup, PlayPickupSound,
         ShowItemPickupMessage, vars

LEMMA MusicStep == TypeOK /\ MusicDue /\ [Next]_vars => MusicDue'
<1> SUFFICES ASSUME TypeOK, MusicDue, [Next]_vars PROVE MusicDue'
  OBVIOUS
<1>t. /\ sounds \in 0..MaxSounds /\ restores \in Nat
      /\ playing \subseteq 1..sounds /\ hooked \subseteq 1..sounds
  BY DEF TypeOK
<1>f. IsFiniteSet(hooked \ playing) /\ Cardinality(hooked \ playing) \in Nat
  <2>1. IsFiniteSet(1..sounds)
    BY <1>t, FS_Interval
  <2> QED
    BY <1>t, <2>1, FS_Subset, FS_CardinalityType
<1>1. CASE /\ UNCHANGED <<playing, hooked, restores>>
           /\ pc = "callback" <=> pc' = "callback"
  BY <1>1 DEF MusicDue
<1>2. CASE PlaySoundWithCallback
  <2>1. /\ hooked' \in {hooked, hooked \cup {sounds + 1}}
        /\ playing' = playing \cup {sounds + 1} /\ restores' = restores
        /\ pc = "callback" <=> pc' = "callback"
    BY <1>2 DEF PlaySoundWithCallback, TakeSoundCallback
  <2>2. hooked' \ playing' = hooked \ playing
    BY <1>t, <2>1
  <2> QED
    BY <2>1, <2>2 DEF MusicDue
<1>3. ASSUME NEW s \in Sounds, SoundFinished(s) PROVE MusicDue'
  <2>1. CASE s \in hooked
    <3>1. /\ s \in playing /\ hooked' = hooked /\ playing' = playing \ {s}
          /\ pc = "idle"
      BY <1>3, <2>1 DEF SoundFinished
    <3>4. \/ pc' = "callback" /\ restores' = restores
          \/ pc' = "idle" /\ restores' = restores + 1
      BY <1>3, <2>1, <3>1 DEF SoundFinished, SoundCallbackHook
    <3>2. hooked' \ playing' = (hooked \ playing) \cup {s} /\ s \notin hooked \ playing
      BY <2>1, <3>1
    <3>3. Cardinality((hooked \ playing) \cup {s}) = Cardinality(hooked \ playing) + 1
      BY <1>f, <3>2, FS_AddElement
    <3>5. restores = Cardinality(hooked \ playing)
      BY <1>t, <3>1 DEF MusicDue
    <3> QED
      BY <1>t, <3>2, <3>3, <3>4, <3>5 DEF MusicDue
  <2>2. CASE s \notin hooked
    <3>1. /\ hooked' = hooked /\ playing' = playing \ {s} /\ restores' = restores
          /\ pc' = pc
      BY <1>3, <2>2 DEF SoundFinished
    <3>2. hooked' \ playing' = hooked \ playing
      BY <2>2, <3>1
    <3> QED
      BY <3>1, <3>2 DEF MusicDue
  <2> QED
    BY <2>1, <2>2
<1>4. CASE CallbackReturns
  <2>1. /\ pc = "callback" /\ pc' = "idle" /\ restores' = restores + 1
        /\ UNCHANGED <<playing, hooked>>
    BY <1>4 DEF CallbackReturns
  <2> QED
    BY <1>t, <2>1 DEF MusicDue
<1> QED
  BY <1>1, <1>2, <1>3, <1>4
     DEF Next, SetItemPopupsEnabled, OnCollectPickup, PlayPickupSound,
         ShowItemPickupMessage, vars

LEMMA InitiallyInvariant == Init => IInv
<1> SUFFICES ASSUME Init PROVE IInv
  OBVIOUS
<1>1. TypeOK
  <2>1. {disableItemPopups, nextPopupIsAsync, hookNextSoundCallback, wanted}
          \subseteq BOOLEAN
    BY Zenon DEF Init
  <2>2. /\ hookedCallback = 0 /\ pc = "idle" /\ popup = "none" /\ sounds = 0
        /\ playing = {} /\ hooked = {} /\ pickups = {} /\ restores = 0
    BY DEF Init
  <2>3. ran \in [Sounds -> Nat]
    BY DEF Init
  <2> QED
    BY <2>1, <2>2, <2>3 DEF TypeOK
<1>2. FlagsAim
  BY Zenon DEF Init, FlagsAim
<1>4. OnlyPickupSoundsHooked /\ CallbackKept /\ NoCallbackTwice
  BY DEF Init, OnlyPickupSoundsHooked, CallbackKept, NoCallbackTwice
<1>3. MusicDue
  <2>1. hooked \ playing = {} /\ restores = 0 /\ pc = "idle"
    BY DEF Init
  <2> QED
    BY <2>1, FS_EmptySet DEF MusicDue
<1> QED
  BY <1>1, <1>2, <1>3, <1>4 DEF IInv

LEMMA Invariant == Spec => []IInv
<1>1. IInv /\ [Next]_vars => IInv'
  BY TypeStep, FlagStep, CallbackStep, MusicStep DEF IInv
<1> QED
  BY <1>1, InitiallyInvariant, PTL DEF Spec

-----------------------------------------------------------------------------
\* At most one callback is kept, that of an intercepted sound, for any number of
\* sounds at a time.
THEOREM TypeCorrect == Spec => []TypeOK
<1>1. IInv => TypeOK
  BY DEF IInv
<1> QED
  BY <1>1, Invariant, PTL

\* PlaySoundWithCallback's hook intercepts pickup sounds only.
THEOREM OtherSoundsLeftAlone == Spec => []OnlyPickupSoundsHooked
<1>1. IInv => OnlyPickupSoundsHooked
  BY DEF IInv
<1> QED
  BY <1>1, Invariant, PTL

\* SoundCallbackHook calls no callback a second time, however sounds overlap.
THEOREM CallbacksOnce == Spec => []NoCallbackTwice
<1>1. IInv => NoCallbackTwice
  BY DEF IInv
<1> QED
  BY <1>1, Invariant, PTL

\* The environment music is restored once for each intercepted sound that ended.
THEOREM MusicComesBack == Spec => []MusicRestored
<1>1. IInv => MusicRestored
  <2> SUFFICES ASSUME IInv, pc # "callback" PROVE restores = Cardinality(hooked \ playing)
    BY DEF MusicRestored
  <2>1. restores \in Nat /\ restores + 0 = Cardinality(hooked \ playing)
    BY DEF IInv, TypeOK, MusicDue
  <2> QED
    BY <2>1
<1> QED
  BY <1>1, Invariant, PTL

\* ShowItemPickupMessage redirects the popup of an item exactly when popups were
\* disabled as OnCollectPickup ran for that item.
THEOREM PopupRedirected == Spec => PopupAsWanted
<1>1. IInv /\ [Next]_vars =>
        [(pc \in {"collected", "sounded"} /\ pc' = "idle") =>
           popup' = IF wanted THEN "async" ELSE "shown"]_vars
  <2> SUFFICES ASSUME IInv, [Next]_vars, pc \in {"collected", "sounded"}, pc' = "idle"
               PROVE  popup' = IF wanted THEN "async" ELSE "shown"
    OBVIOUS
  <2>1. ShowItemPickupMessage
    BY DEF Next, SetItemPopupsEnabled, OnCollectPickup, PlayPickupSound,
         PlaySoundWithCallback, SoundFinished, CallbackReturns, vars
  <2>2. nextPopupIsAsync = wanted
    BY Zenon DEF IInv, TypeOK, FlagsAim
  <2> QED
    BY <2>1, <2>2 DEF ShowItemPickupMessage
<1> QED
  BY <1>1, Invariant, PTL DEF Spec, PopupAsWanted
=============================================================================
