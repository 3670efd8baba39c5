------------------------------- MODULE AppProofs -------------------------------
(***************************************************************************)
(* Types, and whose key signs whose messages, for any number of key pairs, *)
(* forms, taps and waiting writes.                                         *)
(***************************************************************************)
EXTENDS App, TLAPS, SequenceTheorems

\* What is left of a queue when its first entry is taken.
LEMMA QueueTail ==
    ASSUME NEW S, NEW s \in Seq(S), s # <<>>
    PROVE  /\ 1 \in DOMAIN s /\ Head(s) = s[1] /\ Head(s) \in S
           /\ Tail(s) \in Seq(S)
           /\ \A i \in DOMAIN Tail(s) : i + 1 \in DOMAIN s /\ Tail(s)[i] = s[i + 1]
           /\ Tail(s) = <<>> => Len(s) = 1
           /\ Tail(s) # <<>> => Tail(s)[Len(Tail(s))] = s[Len(s)]
<1>1. /\ Len(s) \in Nat \ {0} /\ Len(Tail(s)) = Len(s) - 1
      /\ Tail(s) \in Seq(S) /\ Head(s) \in S
      /\ \A i \in 1..Len(Tail(s)) : Tail(s)[i] = s[i + 1]
  BY EmptySeq, HeadTailProperties
<1>2. Tail(s) = <<>> => Len(s) = 1
  BY <1>1, EmptySeq
<1>3. Tail(s) # <<>> => Len(Tail(s)) \in 1..Len(Tail(s))
  BY <1>1, EmptySeq
<1>4. Tail(s) # <<>> => Tail(s)[Len(Tail(s))] = s[Len(s)]
  BY <1>1, <1>3
<1>5. DOMAIN Tail(s) = 1..Len(Tail(s)) /\ DOMAIN s = 1..Len(s)
  BY <1>1
<1>6. \A i \in DOMAIN Tail(s) : i + 1 \in DOMAIN s /\ Tail(s)[i] = s[i + 1]
  BY <1>1, <1>5
<1> QED BY <1>1, <1>2, <1>4, <1>5, <1>6

\* Every variable keeps its type.
LEMMA TypeStep == TypeOK /\ [Next]_vars => TypeOK'
<1> SUFFICES ASSUME TypeOK, [Next]_vars PROVE TypeOK'
    OBVIOUS
<1> USE FormAssumption DEF TypeOK, Users
<1>1. CASE Launch
    BY <1>1 DEF Launch, identityVars, formVars
<1>2. CASE Initialize
    BY <1>2 DEF Initialize, settingsVars, identityVars, formVars
<1>3. CASE Hydrate
    BY <1>3 DEF Hydrate, identityVars, formVars
<1>4. CASE Crash
  <2>1. interrupted' \in BOOLEAN /\ running' \in BOOLEAN /\ hydrated' \in BOOLEAN
    BY <1>4 DEF Crash
  <2>2. writes' \in Seq(Users) /\ arrived' \in Seq(Keys)
    BY <1>4 DEF Crash
  <2>3. generated' \in [Keys -> {"unused", "storing", "stored", "completed", "past"}]
    BY <1>4 DEF Crash
  <2> QED BY <1>4, <2>1, <2>2, <2>3 DEF Crash
<1>5. CASE WriteLands
    BY <1>5 DEF WriteLands, identityVars, formVars
<1>6. CASE WriteIsLost
    BY <1>6 DEF WriteIsLost, identityVars, formVars
<1>7. ASSUME NEW k \in Keys, HandleComplete(k) PROVE TypeOK'
    BY <1>7 DEF HandleComplete, settingsVars, formVars
<1>8. ASSUME NEW k \in Keys, KeychainStores(k) PROVE TypeOK'
    BY <1>8 DEF KeychainStores, settingsVars, formVars
<1>9. ASSUME NEW k \in Keys, KeychainRefuses(k) PROVE TypeOK'
    BY <1>9 DEF KeychainRefuses, settingsVars, formVars
<1>10. CASE CompleteOnboarding
  <2>1. Head(arrived) \in Keys /\ Tail(arrived) \in Seq(Keys)
    BY <1>10 DEF CompleteOnboarding
  <2> QED BY <1>10, <2>1 DEF CompleteOnboarding, formVars
<1>11. CASE HandleSave
    BY <1>11 DEF HandleSave, identityVars, formVars
<1>12. ASSUME NEW f \in Forms, NEW tap \in Taps, Submit(f, tap) PROVE TypeOK'
    BY <1>12 DEF Submit, settingsVars, identityVars
<1>13. ASSUME NEW b \in building, Process(b) \/ BuildThrows(b) PROVE TypeOK'
    BY <1>13 DEF Process, BuildThrows, settingsVars, identityVars
<1>14. CASE UNCHANGED vars
    BY <1>14 DEF vars, settingsVars, identityVars, formVars
<1> QED
    BY <1>1, <1>2, <1>3, <1>4, <1>5, <1>6, <1>7, <1>8, <1>9, <1>10, <1>11, <1>12, <1>13, <1>14
    DEF Next

\* Every variable of the app keeps its type.
THEOREM TypeCorrect == Spec => []TypeOK
<1>1. Init => TypeOK
  <2> SUFFICES ASSUME Init PROVE TypeOK
      OBVIOUS
  <2>1. generated \in [Keys -> {"unused", "storing", "stored", "completed", "past"}]
    BY DEF Init
  <2>2. writes \in Seq(Users) /\ arrived \in Seq(Keys)
    BY DEF Init
  <2> QED BY <2>1, <2>2 DEF Init, TypeOK, Users
<1> QED BY <1>1, TypeStep, PTL DEF Spec

-----------------------------------------------------------------------------
(* Keys and profiles.                                                      *)

\* A process that is not running has no calls under way.
AtRest ==
    ~running => /\ route = "starting" /\ writes = <<>> /\ arrived = <<>>
                /\ \A k \in Keys : generated[k] \notin {"storing", "stored"}

\* What has arrived is stored, the last in the keychain, and none of it twice.
ArrivedIsStored ==
    /\ \A i \in DOMAIN arrived : generated[arrived[i]] = "stored"
    /\ \A i, j \in DOMAIN arrived : arrived[i] = arrived[j] => i = j
    /\ arrived # <<>> => keychain = arrived[Len(arrived)]

KeyInv == TypeOK /\ AtRest /\ ArrivedIsStored

\* A write that is not lost leaves this on the disk.
Saved == IF writes = <<>> THEN disk ELSE writes[Len(writes)]

\* No step completes an onboarding before its key is stored, or out of order.
LEMMA KeyStep == KeyInv /\ [Next]_vars => KeyInv'
<1> SUFFICES ASSUME KeyInv, [Next]_vars PROVE (AtRest /\ ArrivedIsStored)'
    BY TypeStep DEF KeyInv
<1> USE DEF KeyInv, AtRest, ArrivedIsStored
<1> TypeOK
    OBVIOUS
<1>1. CASE Launch
    BY <1>1 DEF Launch, identityVars, formVars
<1>2. CASE Initialize
    BY <1>2 DEF Initialize, settingsVars, identityVars, formVars
<1>3. CASE Hydrate
    BY <1>3 DEF Hydrate, identityVars, formVars
<1>4. CASE Crash
  <2>1. \A k \in Keys : generated'[k] \notin {"storing", "stored"}
    BY <1>4 DEF Crash, TypeOK
  <2>2. arrived' = <<>> /\ writes' = <<>> /\ route' = "starting"
    BY <1>4 DEF Crash
  <2> QED BY <2>1, <2>2
<1>5. CASE WriteLands \/ WriteIsLost
    BY <1>5 DEF WriteLands, WriteIsLost, identityVars, formVars, TypeOK
<1>6. ASSUME NEW k \in Keys, HandleComplete(k) PROVE (AtRest /\ ArrivedIsStored)'
  <2>1. running
    BY <1>6 DEF HandleComplete
  <2>2. \A i \in DOMAIN arrived : arrived[i] # k
    BY <1>6 DEF HandleComplete
  <2> QED BY <1>6, <2>1, <2>2 DEF HandleComplete, settingsVars, formVars, TypeOK
<1>7. ASSUME NEW k \in Keys, KeychainStores(k) PROVE (AtRest /\ ArrivedIsStored)'
  <2>1. running
    BY <1>7 DEF KeychainStores
  <2>2. \A i \in DOMAIN arrived : arrived[i] # k
    BY <1>7 DEF KeychainStores
  <2>3. /\ Len(arrived') = Len(arrived) + 1 /\ arrived'[Len(arrived) + 1] = k
        /\ \A i \in DOMAIN arrived : arrived'[i] = arrived[i]
        /\ DOMAIN arrived' = DOMAIN arrived \union {Len(arrived) + 1}
    BY <1>7 DEF KeychainStores, TypeOK
  <2>4. \A i \in DOMAIN arrived : generated'[arrived[i]] = "stored"
    BY <1>7, <2>2 DEF KeychainStores, TypeOK
  <2>5. generated'[k] = "stored" /\ keychain' = k /\ running'
    BY <1>7, <2>1 DEF KeychainStores, TypeOK
  <2> QED BY <2>2, <2>3, <2>4, <2>5 DEF TypeOK
<1>8. ASSUME NEW k \in Keys, KeychainRefuses(k) PROVE (AtRest /\ ArrivedIsStored)'
  <2>1. running
    BY <1>8 DEF KeychainRefuses
  <2>2. \A i \in DOMAIN arrived : arrived[i] # k
    BY <1>8 DEF KeychainRefuses
  <2> QED BY <1>8, <2>1, <2>2 DEF KeychainRefuses, settingsVars, formVars, TypeOK
<1>9. CASE CompleteOnboarding
  <2>1. running
    BY <1>9 DEF CompleteOnboarding
  <2>2. /\ Head(arrived) = arrived[1] /\ Len(arrived') = Len(arrived) - 1
        /\ \A i \in DOMAIN arrived' : /\ i \in Nat \ {0} /\ i + 1 \in DOMAIN arrived
                                      /\ arrived'[i] = arrived[i + 1]
        /\ Len(arrived) \in Nat \ {0} /\ 1 \in DOMAIN arrived
    BY <1>9 DEF CompleteOnboarding, TypeOK
  <2>3. ASSUME NEW i \in DOMAIN arrived' PROVE arrived'[i] # Head(arrived)
    <3>1. i + 1 # 1
      BY <2>2
    <3> QED BY <2>2, <3>1
  <2>4. \A i \in DOMAIN arrived' : generated'[arrived'[i]] = "stored"
    BY <1>9, <2>2, <2>3 DEF CompleteOnboarding, TypeOK
  <2>5. ASSUME NEW i \in DOMAIN arrived', NEW j \in DOMAIN arrived', arrived'[i] = arrived'[j]
        PROVE  i = j
    <3>1. arrived[i + 1] = arrived[j + 1]
      BY <2>2, <2>5
    <3>2. i + 1 = j + 1
      BY <2>2, <3>1
    <3> QED BY <2>2, <3>2
  <2>6. arrived' # <<>> => keychain' = arrived'[Len(arrived')]
    BY <1>9, <2>2 DEF CompleteOnboarding, TypeOK
  <2> QED BY <1>9, <2>1, <2>4, <2>5, <2>6 DEF CompleteOnboarding
<1>10. CASE HandleSave
    BY <1>10 DEF HandleSave, identityVars, formVars
<1>11. ASSUME NEW f \in Forms, NEW tap \in Taps, Submit(f, tap) PROVE (AtRest /\ ArrivedIsStored)'
    BY <1>11 DEF Submit, settingsVars, identityVars
<1>12. ASSUME NEW b \in building, Process(b) \/ BuildThrows(b) PROVE (AtRest /\ ArrivedIsStored)'
    BY <1>12 DEF Process, BuildThrows, settingsVars, identityVars
<1>13. CASE UNCHANGED vars
    BY <1>13 DEF vars, settingsVars, identityVars, formVars
<1> QED
    BY <1>1, <1>2, <1>3, <1>4, <1>5, <1>6, <1>7, <1>8, <1>9, <1>10, <1>11, <1>12, <1>13 DEF Next

\* So the keys are right in every state.
LEMMA KeysAreStored == Spec => []KeyInv
<1>1. Init => AtRest /\ ArrivedIsStored
    BY DEF Init, AtRest, ArrivedIsStored
<1>2. KeyInv => TypeOK
    BY DEF KeyInv
<1>3. Init /\ TypeOK => KeyInv
    BY <1>1 DEF KeyInv
<1> QED BY <1>3, KeyStep, TypeCorrect, PTL DEF Spec

\* Wherever a profile is, in memory, on disk, or in a write that an earlier life of
\* the process has left pending, it was made of a key that the keychain took.
THEOREM OnboardedUsersHaveKeys == Spec => []OnboardedHasKey
<1>1. Init => OnboardedHasKey
    BY DEF Init, OnboardedHasKey
<1>2. KeyInv /\ OnboardedHasKey /\ [Next]_vars => OnboardedHasKey'
  <2> DEFINE Taken(u, key, all) == u # "nobody" => key # "nobody" /\ all[u] \in {"completed", "past"}
             AllTaken == /\ Taken(memory, keychain, generated)
                         /\ Taken(read, keychain, generated) /\ Taken(disk, keychain, generated)
                         /\ \A i \in DOMAIN writes : Taken(writes[i], keychain, generated)
  <2>0. (OnboardedHasKey <=> AllTaken) /\ (OnboardedHasKey' <=> AllTaken')
      BY DEF OnboardedHasKey
  <2> SUFFICES ASSUME KeyInv, AllTaken, [Next]_vars PROVE AllTaken'
      BY <2>0
  <2> TypeOK /\ ArrivedIsStored
      BY DEF KeyInv
  <2> TypeOK'
      BY TypeStep
  <2> USE KeyAssumption DEF TypeOK, Users
  <2>1. CASE Launch \/ Initialize \/ Hydrate
      BY <2>1 DEF Launch, Initialize, Hydrate, settingsVars, identityVars
  <2>2. CASE Crash
    <3>1. \A k \in Keys : generated[k] # "unused" => generated'[k] = "past"
      BY <2>2 DEF Crash
    <3>2. Taken(disk, keychain', generated')
      BY <2>2, <3>1 DEF Crash
    <3>3. memory' = "nobody" /\ read' = "nobody" /\ writes' = <<>> /\ disk' = disk
      BY <2>2 DEF Crash
    <3> QED BY <3>2, <3>3
  <2>3. CASE WriteLands \/ WriteIsLost
    <3>1. /\ writes # <<>> /\ disk' \in {disk, Head(writes)} /\ writes' = Tail(writes)
          /\ UNCHANGED <<memory, read, keychain, generated>>
      BY <2>3 DEF WriteLands, WriteIsLost, identityVars
    <3>2. Taken(disk', keychain, generated)
      BY <3>1, QueueTail
    <3>3. \A i \in DOMAIN Tail(writes) : Taken(Tail(writes)[i], keychain, generated)
      BY <3>1, QueueTail
    <3> QED BY <3>1, <3>2, <3>3
  <2>4. ASSUME NEW k \in Keys, HandleComplete(k) PROVE AllTaken'
      BY <2>4 DEF HandleComplete, settingsVars
  <2>5. ASSUME NEW k \in Keys, KeychainStores(k) PROVE AllTaken'
      BY <2>5 DEF KeychainStores, settingsVars
  <2>6. ASSUME NEW k \in Keys, KeychainRefuses(k) PROVE AllTaken'
      BY <2>6 DEF KeychainRefuses, settingsVars
  <2>7. CASE CompleteOnboarding
    <3>1. /\ Head(arrived) \in Keys /\ generated[Head(arrived)] = "stored"
          /\ keychain \in Keys
      BY <2>7 DEF CompleteOnboarding, ArrivedIsStored
    <3>2. /\ memory' = Head(arrived) /\ writes' = Append(writes, Head(arrived))
          /\ generated' = [generated EXCEPT ![Head(arrived)] = "completed"]
          /\ keychain' = keychain /\ read' = read /\ disk' = disk
      BY <2>7 DEF CompleteOnboarding
    <3>3. ASSUME NEW u \in Users, Taken(u, keychain, generated) PROVE Taken(u, keychain', generated')
      BY <3>1, <3>2, <3>3
    <3>4. Taken(Head(arrived), keychain', generated')
      BY <3>1, <3>2
    <3>5. ASSUME NEW i \in DOMAIN writes' PROVE Taken(writes'[i], keychain', generated')
      <4>1. CASE i \in DOMAIN writes
        <5>1. writes'[i] = writes[i] /\ writes[i] \in Users
          BY <3>1, <3>2, <4>1
        <5> QED BY <3>3, <4>1, <5>1
      <4>2. CASE i \notin DOMAIN writes
        <5>1. writes'[i] = Head(arrived)
          BY <3>1, <3>2, <4>2
        <5> QED BY <3>4, <5>1
      <4> QED BY <4>1, <4>2
    <3> QED BY <3>2, <3>3, <3>4, <3>5
  <2>8. CASE HandleSave
      BY <2>8 DEF HandleSave, identityVars
  <2>9. ASSUME NEW f \in Forms, NEW tap \in Taps, Submit(f, tap) PROVE AllTaken'
      BY <2>9 DEF Submit, settingsVars, identityVars
  <2>10. ASSUME NEW b \in building, Process(b) \/ BuildThrows(b) PROVE AllTaken'
      BY <2>10 DEF Process, BuildThrows, settingsVars, identityVars
  <2>11. CASE UNCHANGED vars
      BY <2>11 DEF vars, settingsVars, identityVars
  <2> QED
    BY <2>1, <2>2, <2>3, <2>4, <2>5, <2>6, <2>7, <2>8, <2>9, <2>10, <2>11 DEF Next
<1> QED BY <1>1, <1>2, KeysAreStored, PTL DEF Spec

-----------------------------------------------------------------------------

\* The profile is that of the key in the keychain, unless an onboarding was
\* interrupted: what is or will be on the disk is too, and so is what was read from
\* it as long as no key has been stored since.
IdentityInv ==
    ~interrupted =>
      /\ arrived = <<>> => {memory, Saved} \subseteq {"nobody", keychain}
      /\ running /\ ~hydrated /\ (\A k \in Keys : generated[k] \notin {"stored", "completed"})
           => read \in {"nobody", keychain}

\* Every step that may separate the profile from the keychain says so in interrupted.
LEMMA IdentityStep == KeyInv /\ IdentityInv /\ [Next]_vars => IdentityInv'
<1> SUFFICES ASSUME KeyInv, IdentityInv, [Next]_vars PROVE IdentityInv'
    OBVIOUS
<1> TypeOK /\ AtRest /\ ArrivedIsStored
    BY DEF KeyInv
<1> USE DEF IdentityInv, Saved
<1>1. CASE Launch
    BY <1>1 DEF Launch, identityVars, AtRest
<1>2. CASE Initialize
    BY <1>2 DEF Initialize, settingsVars, identityVars
<1>3. CASE Hydrate
  <2> SUFFICES ASSUME ~interrupted' PROVE IdentityInv'
      OBVIOUS
  <2>1. ~interrupted /\ (read = "nobody" \/ Current = {})
      BY <1>3 DEF Hydrate, TypeOK
  <2>2. memory' \in {memory, read} /\ (memory' = memory \/ Current = {})
      BY <1>3, <2>1 DEF Hydrate
  <2>3. ASSUME Current = {} PROVE read \in {"nobody", keychain}
      BY <1>3, <2>1, <2>3 DEF Hydrate, Current
  <2> QED BY <1>3, <2>1, <2>2, <2>3 DEF Hydrate, identityVars
<1>4. CASE Crash
  <2> SUFFICES ASSUME ~interrupted' PROVE IdentityInv'
      OBVIOUS
  <2>1. ~interrupted /\ writes = <<>> /\ arrived = <<>>
      BY <1>4 DEF Crash
  <2>2. disk \in {"nobody", keychain}
      BY <2>1
  <2>3. /\ memory' = "nobody" /\ writes' = <<>> /\ ~running'
        /\ disk' = disk /\ keychain' = keychain
      BY <1>4 DEF Crash
  <2> QED BY <2>2, <2>3
<1>5. CASE WriteLands
  <2>1. /\ writes # <<>> /\ disk' = Head(writes) /\ writes' = Tail(writes)
        /\ UNCHANGED <<running, memory, read, hydrated, keychain, generated, arrived, interrupted>>
      BY <1>5 DEF WriteLands, identityVars
  <2>2. Saved' = Saved
      BY <2>1, QueueTail DEF TypeOK
  <2> QED BY <2>1, <2>2
<1>6. CASE WriteIsLost
    BY <1>6 DEF WriteIsLost
<1>7. ASSUME NEW k \in Keys, HandleComplete(k) PROVE IdentityInv'
    BY <1>7 DEF HandleComplete, settingsVars, TypeOK
<1>8. ASSUME NEW k \in Keys, KeychainStores(k) PROVE IdentityInv'
  <2>1. arrived' # <<>> /\ generated'[k] = "stored"
    BY <1>8 DEF KeychainStores, TypeOK
  <2> QED BY <2>1
<1>9. ASSUME NEW k \in Keys, KeychainRefuses(k) PROVE IdentityInv'
  <2>1. \A j \in Keys : generated'[j] \in {"stored", "completed"} <=> generated[j] \in {"stored", "completed"}
    BY <1>9 DEF KeychainRefuses, TypeOK
  <2> QED BY <1>9, <2>1 DEF KeychainRefuses, settingsVars
<1>10. CASE CompleteOnboarding
  <2>1. Head(arrived) \in Keys /\ generated'[Head(arrived)] = "completed"
    BY <1>10 DEF CompleteOnboarding, TypeOK
  <2>2. ASSUME arrived' = <<>> PROVE {memory', Saved'} \subseteq {"nobody", keychain'}
    <3>1. Len(arrived) = 1
      <4>1. arrived # <<>> /\ Tail(arrived) = <<>>
        BY <1>10, <2>2 DEF CompleteOnboarding
      <4> QED BY <4>1, QueueTail DEF TypeOK
    <3>2. Head(arrived) = keychain
      BY <1>10, <3>1 DEF CompleteOnboarding, ArrivedIsStored, TypeOK
    <3>3. writes' # <<>> /\ writes'[Len(writes')] = Head(arrived)
      BY <1>10, <2>1 DEF CompleteOnboarding, TypeOK, Users
    <3> QED BY <1>10, <3>2, <3>3 DEF CompleteOnboarding
  <2> QED BY <2>1, <2>2
<1>11. CASE HandleSave
  <2>1. writes' # <<>> /\ writes'[Len(writes')] = memory
    BY <1>11 DEF HandleSave, TypeOK
  <2> QED BY <1>11, <2>1 DEF HandleSave, identityVars
<1>12. ASSUME NEW f \in Forms, NEW tap \in Taps, Submit(f, tap) PROVE IdentityInv'
    BY <1>12 DEF Submit, settingsVars, identityVars
<1>13. ASSUME NEW b \in building, Process(b) \/ BuildThrows(b) PROVE IdentityInv'
    BY <1>13 DEF Process, BuildThrows, settingsVars, identityVars
<1>14. CASE UNCHANGED vars
    BY <1>14 DEF vars, settingsVars, identityVars
<1> QED
    BY <1>1, <1>2, <1>3, <1>4, <1>5, <1>6, <1>7, <1>8, <1>9, <1>10, <1>11, <1>12, <1>13, <1>14
    DEF Next

\* Unless an onboarding was cut off, overtaken or not saved, messages are signed with
\* the key their sender is named after, however many pairs were generated.
THEOREM SendersSign == Spec => []IdentityFollowsKeychain
<1>1. Init => IdentityInv
    BY DEF Init, IdentityInv, Saved
<1>2. IdentityInv => IdentityFollowsKeychain
    BY DEF IdentityInv, IdentityFollowsKeychain
<1> QED BY <1>1, <1>2, IdentityStep, KeysAreStored, PTL DEF Spec

\* No screen builds a message without a profile.
THEOREM ProfileIsSet == Spec => []SendersAreSomebody
<1>1. Init => SendersAreSomebody
    BY DEF Init, SendersAreSomebody
<1>2. TypeOK /\ SendersAreSomebody /\ [Next]_vars => SendersAreSomebody'
  <2> SUFFICES ASSUME TypeOK, SendersAreSomebody, [Next]_vars PROVE SendersAreSomebody'
      OBVIOUS
  <2> USE KeyAssumption DEF SendersAreSomebody
  <2>1. CASE Launch \/ Initialize \/ Hydrate \/ Crash \/ WriteLands \/ WriteIsLost
      BY <2>1 DEF Launch, Initialize, Hydrate, Crash, WriteLands, WriteIsLost, settingsVars, formVars
  <2>2. ASSUME NEW k \in Keys, HandleComplete(k) \/ KeychainStores(k) \/ KeychainRefuses(k)
        PROVE  SendersAreSomebody'
      BY <2>2 DEF HandleComplete, KeychainStores, KeychainRefuses, settingsVars, formVars
  <2>3. CASE CompleteOnboarding
    <3>1. Head(arrived) \in Keys
      BY <2>3 DEF CompleteOnboarding, TypeOK
    <3> QED BY <2>3, <3>1 DEF CompleteOnboarding, formVars
  <2>4. CASE HandleSave
      BY <2>4 DEF HandleSave, formVars
  <2>5. ASSUME NEW f \in Forms, NEW tap \in Taps, Submit(f, tap) PROVE SendersAreSomebody'
      BY <2>5 DEF Submit, settingsVars
  <2>6. ASSUME NEW b \in building, Process(b) \/ BuildThrows(b) PROVE SendersAreSomebody'
      BY <2>6 DEF Process, BuildThrows, settingsVars
  <2>7. CASE UNCHANGED vars
      BY <2>7 DEF vars, settingsVars, formVars
  <2> QED BY <2>1, <2>2, <2>3, <2>4, <2>5, <2>6, <2>7 DEF Next
<1> QED BY <1>1, <1>2, TypeCorrect, PTL DEF Spec

\* Nobody is onboarded in part, wherever onboarding or the app ends.
THEOREM OnboardingHolds == Spec => []OnboardingIsWhole
<1>1. OnboardedHasKey /\ SendersAreSomebody => OnboardingIsWhole
    BY DEF OnboardingIsWhole
<1> QED BY <1>1, OnboardedUsersHaveKeys, ProfileIsSet, PTL
================================================================================
