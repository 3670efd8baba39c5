---------------------------------- MODULE App ----------------------------------
(***************************************************************************)
(* The mobile app around the engine (apps/mobile/src): its start, its      *)
(* persisted settings, onboarding, and the screens that build and sign a   *)
(* message.  The key pairs that Ed25519 generates are told apart by their  *)
(* public keys; a user id is the key it was made of.                       *)
(*                                                                         *)
(* AsyncStorage and the keychain are external: they work off their calls   *)
(* at any later time, each in the order of the calls, and JavaScript goes  *)
(* on with their results in the order of these.                            *)
(***************************************************************************)
EXTENDS Integers, Sequences, FiniteSets

CONSTANTS
    Keys,          \* the key pairs that are generated, each once
    Forms,         \* mounted screens that build a message at the tap of a button
    Guarded,       \* those that disable the button with `submitting`
    Taps,          \* the taps that may be under way at one time in one form
    MaxWrites      \* bound on the writes that wait

ASSUME KeyAssumption == "nobody" \notin Keys
ASSUME FormAssumption == Guarded \subseteq Forms /\ MaxWrites \in Nat

VARIABLES
    running, route,    \* the process, and the screen at the bottom of the stack
    memory,            \* the settings store: whose profile, and onboarded if anybody's
    read, hydrated,    \* what persist has read at the start, and whether it is merged
    writes, disk,      \* what persist has yet to write, and what is in AsyncStorage
    keychain,          \* whose private key it holds
    generated,         \* how far each pair has come
    arrived,           \* pairs that are stored, and whose handleComplete goes on
    submitting,        \* the forms whose flag is set
    building,          \* calls of buildAndSignMessage
    interrupted        \* an onboarding was cut off, overtaken or not saved (observed)

settingsVars == <<memory, read, hydrated, writes, disk>>
identityVars == <<keychain, generated, arrived>>
formVars == <<submitting, building>>
vars == <<running, route, settingsVars, identityVars, formVars, interrupted>>

Users == Keys \union {"nobody"}

Init ==
    /\ running = FALSE /\ route = "starting"
    /\ memory = "nobody" /\ read = "nobody" /\ hydrated = FALSE
    /\ writes = <<>> /\ disk = "nobody"
    /\ keychain = "nobody" /\ generated = [k \in Keys |-> "unused"] /\ arrived = <<>>
    /\ submitting = {} /\ building = {}
    /\ interrupted = FALSE

-----------------------------------------------------------------------------
(* Start and end.                                                          *)

\* The module of the settings is loaded: persist asks for what is stored.
Launch ==
    /\ ~running
    /\ running' = TRUE
    /\ read' = disk
    /\ UNCHANGED <<route, memory, hydrated, writes, disk, identityVars, formVars, interrupted>>

\* The engine store makes a fresh engine, and the navigator, rendered for the first
\* time, looks once whether onboarding is completed.
Initialize ==
    /\ running /\ route = "starting"
    /\ route' = IF memory = "nobody" THEN "Onboarding" ELSE "CommunityMap"
    /\ UNCHANGED <<running, settingsVars, identityVars, formVars, interrupted>>

\* Pairs of this start of the app.
Current == {k \in Keys : generated[k] \in {"storing", "stored", "completed"}}

\* What was read is merged over what is there.
Hydrate ==
    /\ running /\ ~hydrated
    /\ hydrated' = TRUE
    /\ memory' = IF read = "nobody" THEN memory ELSE read
    /\ interrupted' = (interrupted \/ (read # "nobody" /\ Current # {}))
    /\ UNCHANGED <<running, route, read, writes, disk, identityVars, formVars>>

\* The process dies, or the user closes the app.
Crash ==
    /\ running
    /\ running' = FALSE /\ route' = "starting"
    /\ memory' = "nobody" /\ hydrated' = FALSE /\ read' = "nobody"
    /\ writes' = <<>>
    /\ generated' = [k \in Keys |-> IF generated[k] = "unused" THEN "unused" ELSE "past"]
    /\ arrived' = <<>>
    /\ submitting' = {} /\ building' = {}
    /\ interrupted' = (interrupted \/ writes # <<>> \/ arrived # <<>>)
    /\ UNCHANGED <<disk, keychain>>

WriteLands ==
    /\ writes # <<>>
    /\ disk' = Head(writes) /\ writes' = Tail(writes)
    /\ UNCHANGED <<running, route, memory, read, hydrated, identityVars, formVars, interrupted>>

\* setItem rejects, and nobody hears of it.
WriteIsLost ==
    /\ writes # <<>>
    /\ writes' = Tail(writes)
    /\ interrupted' = TRUE
    /\ UNCHANGED <<running, route, memory, read, hydrated, disk, identityVars, formVars>>

-----------------------------------------------------------------------------
(* Onboarding.                                                             *)

\* Mutant: the profile is completed while the key is being stored.
TapAndComplete(k) ==
    /\ route = "Onboarding"
    /\ generated[k] = "unused" /\ Len(writes) < MaxWrites
    /\ generated' = [generated EXCEPT ![k] = "storing"]
    /\ memory' = k /\ writes' = Append(writes, k)
    /\ UNCHANGED <<running, route, read, hydrated, disk, keychain, arrived, formVars, interrupted>>

\* The button of the last step, with a name entered.  Nothing disables it while an
\* earlier tap is awaited.
HandleComplete(k) ==
    /\ route = "Onboarding"
    /\ generated[k] = "unused"
    /\ generated' = [generated EXCEPT ![k] = "storing"]
    /\ UNCHANGED <<running, route, settingsVars, keychain, arrived, formVars, interrupted>>

KeychainStores(k) ==
    /\ generated[k] = "storing"
    /\ keychain' = k
    /\ generated' = [generated EXCEPT ![k] = "stored"]
    /\ arrived' = Append(arrived, k)
    /\ UNCHANGED <<running, route, settingsVars, formVars, interrupted>>

\* setGenericPassword rejects: an alert.
KeychainRefuses(k) ==
    /\ generated[k] = "storing"
    /\ generated' = [generated EXCEPT ![k] = "past"]
    /\ UNCHANGED <<running, route, settingsVars, keychain, arrived, formVars, interrupted>>

\* Mutant: whichever tap came last is completed first.
CompleteNewest ==
    /\ arrived # <<>> /\ Len(writes) < MaxWrites
    /\ LET k == arrived[Len(arrived)]
       IN /\ memory' = k
          /\ writes' = Append(writes, k)
          /\ generated' = [generated EXCEPT ![k] = "completed"]
    /\ arrived' = SubSeq(arrived, 1, Len(arrived) - 1)
    /\ route' = "CommunityMap"
    /\ interrupted' = (interrupted /\ Len(arrived) > 1)
    /\ UNCHANGED <<running, read, hydrated, disk, keychain, formVars>>

\* completeOnboarding, and the navigator replaces the screen (if it is still there).
CompleteOnboarding ==
    /\ arrived # <<>> /\ Len(writes) < MaxWrites
    /\ LET k == Head(arrived)
       IN /\ memory' = k
          /\ writes' = Append(writes, k)
          /\ generated' = [generated EXCEPT ![k] = "completed"]
    /\ arrived' = Tail(arrived)
    /\ route' = "CommunityMap"
    /\ interrupted' = (interrupted /\ Tail(arrived) # <<>>)
    /\ UNCHANGED <<running, read, hydrated, disk, keychain, formVars>>

-----------------------------------------------------------------------------
(* Screens that are reached from the map.                                  *)

\* The profile screen: updateProfile writes all settings again.
HandleSave ==
    /\ route = "CommunityMap" /\ Len(writes) < MaxWrites
    /\ writes' = Append(writes, memory)
    /\ UNCHANGED <<running, route, memory, read, hydrated, disk, identityVars, formVars, interrupted>>

\* Mutant: all forms have the flag.
SubmitFlagged(f, tap) ==
    /\ route = "CommunityMap"
    /\ f \notin submitting
    /\ \A b \in building : <<b.form, b.tap>> # <<f, tap>>
    /\ building' = building \union {[form |-> f, tap |-> tap, sender |-> memory]}
    /\ submitting' = submitting \union {f}
    /\ UNCHANGED <<running, route, settingsVars, identityVars, interrupted>>

\* A button that builds a message: buildAndSignMessage looks at the profile, and
\* then waits for the keychain.
Submit(f, tap) ==
    /\ route = "CommunityMap"
    /\ f \notin submitting
    /\ \A b \in building : <<b.form, b.tap>> # <<f, tap>>
    /\ building' = building \union {[form |-> f, tap |-> tap, sender |-> memory]}
    /\ submitting' = submitting \union ({f} \intersect Guarded)
    /\ UNCHANGED <<running, route, settingsVars, identityVars, interrupted>>

\* The message names b.sender and is signed with the key in the keychain; whether
\* the engine accepts it, refuses it or throws, the button is enabled again.  (It
\* always throws: user_pubkey is no PEM.)
Process(b) ==
    /\ keychain # "nobody"
    /\ building' = building \ {b}
    /\ submitting' = submitting \ {b.form}
    /\ UNCHANGED <<running, route, settingsVars, identityVars, interrupted>>

\* Mutant: there is no `finally`.
BuildThrowsForGood(b) ==
    /\ building' = building \ {b}
    /\ UNCHANGED <<running, route, settingsVars, identityVars, submitting, interrupted>>

\* The keychain is locked or empty: an alert.
BuildThrows(b) ==
    /\ building' = building \ {b}
    /\ submitting' = submitting \ {b.form}
    /\ UNCHANGED <<running, route, settingsVars, identityVars, interrupted>>

Settle(f) == \E b \in building : b.form = f /\ (Process(b) \/ BuildThrows(b))

Next ==
    \/ Launch \/ Initialize \/ Hydrate \/ Crash \/ WriteLands \/ WriteIsLost
    \/ \E k \in Keys : HandleComplete(k) \/ KeychainStores(k) \/ KeychainRefuses(k)
    \/ CompleteOnboarding \/ HandleSave
    \/ \E f \in Forms, tap \in Taps : Submit(f, tap)
    \/ \E b \in building : Process(b) \/ BuildThrows(b)

\* The keychain answers.
Spec == Init /\ [][Next]_vars /\ \A f \in Forms : WF_vars(Settle(f))

-----------------------------------------------------------------------------

TypeOK ==
    /\ running \in BOOLEAN /\ hydrated \in BOOLEAN /\ interrupted \in BOOLEAN
    /\ route \in {"starting", "Onboarding", "CommunityMap"}
    /\ {memory, read, disk, keychain} \subseteq Users
    /\ writes \in Seq(Users) /\ arrived \in Seq(Keys)
    /\ generated \in [Keys -> {"unused", "storing", "stored", "completed", "past"}]
    /\ submitting \subseteq Guarded
    /\ building \subseteq [form : Forms, tap : Taps, sender : Users]

\* Whoever is onboarded, in memory, on disk or in a write that may land later, has
\* been given a key that is stored, whatever was cut off: loadPrivateKey does not
\* send an onboarded user through onboarding again.
OnboardedHasKey ==
    \A u \in {memory, read, disk} \union {writes[i] : i \in DOMAIN writes} :
      u # "nobody" => keychain # "nobody" /\ generated[u] \in {"completed", "past"}

\* However often the button is tapped, saved, closed and opened again: unless an
\* onboarding was cut off, overtaken by the stored settings or not saved, the profile names the
\* user of the key in the keychain once all taps are worked off, so that messages
\* are signed by their sender.
IdentityFollowsKeychain ==
    ~interrupted /\ arrived = <<>> => memory \in {"nobody", keychain}

\* A screen that can be used has a profile: buildAndSignMessage never finds it unset.
SendersAreSomebody ==
    /\ route = "CommunityMap" => memory # "nobody"
    /\ \A b \in building : b.sender # "nobody"

\* So onboarding is done as a whole or not at all.
OnboardingIsWhole == OnboardedHasKey /\ SendersAreSomebody

\* Every form is enabled again.
SubmissionsEnd == \A f \in Forms : f \in submitting ~> f \notin submitting
================================================================================
