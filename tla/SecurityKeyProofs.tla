------------------------- MODULE SecurityKeyProofs --------------------------
(***************************************************************************)
(* What the FIDO key keeps for every limit of tries, every number of       *)
(* credentials and signatures, and wherever the power is cut: the budget   *)
(* of wrong PINs, the credentials it has answered for, and signature       *)
(* counts that only grow.                                                  *)
(***************************************************************************)
EXTENDS SecurityKey, TLAPS

\* The tries left and the wrong PINs since a right one are never more than PinMax; the
\* count in RAM is that of the wrong PINs since the boot.
PinInv ==
  /\ pinSet => wrong + retries <= PinMax
  /\ bootFails = wrongHere

\* What was answered for is below the number of credentials, and its next count is
\* beyond the last it signed with.
CredInv == \A i \in acked : i < stored /\ counts[i] > signed[i]

KeyInv == KeyTypeOK /\ PinInv /\ CredInv

Upto(x, most) == x \in Nat /\ x <= most

FlagTypeOK == pinSet \in BOOLEAN /\ token \in BOOLEAN /\ young \in BOOLEAN

PinTypeOK ==
  /\ Upto(retries, PinMax) /\ Upto(bootFails, BootMax)
  /\ Upto(wrong, PinMax) /\ Upto(wrongHere, BootMax)

CredTypeOK ==
  /\ Upto(stored, MaxCreds) /\ counts \in [0..MaxCreds -> Nat]
  /\ acked \subseteq 0..MaxCreds /\ signed \in [0..MaxCreds -> Nat]
  /\ \A i \in 0..MaxCreds : counts[i] <= MaxSigns + 1 /\ signed[i] <= MaxSigns

CountTypeOK == Upto(counter, MaxSigns) /\ Upto(signedElse, MaxSigns)

LEMMA KeyLimits == PinMax \in Nat /\ BootMax \in Nat /\ MaxCreds \in Nat /\ MaxSigns \in Nat
BY KeyAssumption

LEMMA Intervals == \A most \in Nat : \A x : x \in 0..most <=> Upto(x, most)
BY DEF Upto

LEMMA KeyTypesSplit == KeyTypeOK <=> FlagTypeOK /\ PinTypeOK /\ CredTypeOK /\ CountTypeOK
<1> USE KeyLimits, Intervals
<1>1. counts \in [0..MaxCreds -> 0..(MaxSigns + 1)] <=>
        /\ counts \in [0..MaxCreds -> Nat]
        /\ \A i \in 0..MaxCreds : counts[i] <= MaxSigns + 1
  OBVIOUS
<1>2. signed \in [0..MaxCreds -> 0..MaxSigns] <=>
        /\ signed \in [0..MaxCreds -> Nat]
        /\ \A i \in 0..MaxCreds : signed[i] <= MaxSigns
  OBVIOUS
<1> QED
  BY <1>1, <1>2 DEF KeyTypeOK, FlagTypeOK, PinTypeOK, CredTypeOK, CountTypeOK

LEMMA FlagStep ==
  ASSUME FlagTypeOK, [NextKey]_keyVars
  PROVE  FlagTypeOK'
BY DEF FlagTypeOK, NextKey, PowerCycle, HalfMinute, SignElse, SetPin, WrongPin, Sign, RightPin,
  MakeCredential, Reset, Off, Stays, ram, pinStore, keyVars

\* The PIN's part of the state, action by action.
LEMMA PinStep ==
  ASSUME PinTypeOK, PinInv, [NextKey]_keyVars
  PROVE  PinTypeOK' /\ PinInv'
<1> USE KeyLimits DEF PinTypeOK, PinInv, Upto
<1>1. CASE PowerCycle
  BY <1>1 DEF PowerCycle, Off, pinStore
<1>2. CASE HalfMinute
  BY <1>2 DEF HalfMinute, pinStore, pinHistory
<1>3. CASE SignElse
  BY <1>3 DEF SignElse, pinStore, pinHistory
<1>4. ASSUME NEW n, SetPin(n)
      PROVE  PinTypeOK' /\ PinInv'
  BY <1>4 DEF SetPin, Off, Done
<1>5. ASSUME NEW n, WrongPin(n)
      PROVE  PinTypeOK' /\ PinInv'
  BY <1>5 DEF WrongPin, MayTry, Off, Done
<1>6. ASSUME NEW n, Sign(n)
      PROVE  PinTypeOK' /\ PinInv'
  BY <1>6 DEF Sign, Off, Stays, ram, Done, pinStore
<1>7. ASSUME NEW n \in Nat, NEW change, RightPin(n, change)
      PROVE  PinTypeOK' /\ PinInv'
  <2>1. /\ \/ retries' = retries /\ wrong' = wrong
           \/ retries' = retries - 1 /\ wrong' = 0
           \/ retries' = PinMax /\ wrong' = 0
        /\ retries > 0
    BY <1>7 DEF RightPin, MayTry
  <2>2. bootFails' = 0 /\ wrongHere' = 0 /\ pinSet' = pinSet
    BY <1>7 DEF RightPin, Off
  <2> QED BY <2>1, <2>2
<1>8. ASSUME NEW n, MakeCredential(n)
      PROVE  PinTypeOK' /\ PinInv'
  BY <1>8 DEF MakeCredential, Off, Stays, ram, Done, pinStore
<1>9. ASSUME NEW n, Reset(n)
      PROVE  PinTypeOK' /\ PinInv'
  <2>1. CASE Done(n, 2)
    BY <1>9, <2>1 DEF Reset
  <2>2. CASE ~Done(n, 2)
    BY <1>9, <2>2 DEF Reset, Off, pinStore
  <2> QED BY <2>1, <2>2
<1>10. CASE UNCHANGED keyVars
  BY <1>10 DEF keyVars, pinStore, ram, pinHistory
<1>11. 0..2 \subseteq Nat /\ 0..5 \subseteq Nat
  OBVIOUS
<1> HIDE DEF PinTypeOK, PinInv
<1> QED
  BY <1>1, <1>2, <1>3, <1>4, <1>5, <1>6, <1>7, <1>8, <1>9, <1>10, <1>11 DEF NextKey

\* The credentials.
LEMMA CredStep ==
  ASSUME CredTypeOK, CredInv, [NextKey]_keyVars
  PROVE  CredTypeOK' /\ CredInv'
<1> USE KeyLimits DEF CredTypeOK, CredInv, Upto
<1>1. CASE UNCHANGED <<credStore, credHistory>>
  BY <1>1 DEF credStore, credHistory
<1>2. ASSUME NEW n, Sign(n)
      PROVE  CredTypeOK' /\ CredInv'
  <2>1. CASE Done(n, 1)
    <3>1. PICK i \in 0..(stored - 1) :
            /\ counts[i] \in 1..MaxSigns
            /\ counts' = [counts EXCEPT ![i] = @ + 1]
            /\ signed' = [signed EXCEPT ![i] = counts[i]]
            /\ UNCHANGED <<stored, acked>>
      BY <1>2, <2>1 DEF Sign
    <3>2. i \in 0..MaxCreds /\ counts[i] \in Nat /\ counts[i] <= MaxSigns
      BY <3>1
    <3>3. CredTypeOK'
      BY <3>1, <3>2, SMTT(30)
    <3>4. CredInv'
      BY <3>1, <3>2
    <3> QED BY <3>3, <3>4
  <2>2. CASE ~Done(n, 1)
    BY <1>1, <1>2, <2>2 DEF Sign, credStore, credHistory
  <2> QED BY <2>1, <2>2
<1>3. ASSUME NEW n, MakeCredential(n)
      PROVE  CredTypeOK' /\ CredInv'
  <2>1. stored \in 0..MaxCreds /\ stored < MaxCreds
    BY <1>3 DEF MakeCredential
  <2>2. CASE Done(n, 2)
    <3>1. /\ counts' = [counts EXCEPT ![stored] = 1]
          /\ signed' = [signed EXCEPT ![stored] = 0]
          /\ stored' = stored + 1 /\ acked' = acked \cup {stored}
      BY <1>3, <2>2 DEF MakeCredential, Rec, Done
    <3> QED BY <2>1, <3>1, SMTT(30)
  <2>3. CASE ~Done(n, 2)
    <3>1. /\ counts' \in {counts, [counts EXCEPT ![stored] = 1]}
          /\ UNCHANGED <<stored, acked, signed>>
      BY <1>3, <2>3 DEF MakeCredential, Rec, credHistory
    <3>2. CASE counts' = counts
      BY <1>1, <3>1, <3>2 DEF credStore, credHistory
    <3>3. CASE counts' = [counts EXCEPT ![stored] = 1]
      <4>1. CredTypeOK'
        BY <2>1, <3>1, <3>3
      <4>2. CredInv'
        BY <2>1, <3>1, <3>3
      <4> QED BY <4>1, <4>2
    <3> QED BY <3>1, <3>2, <3>3
  <2> QED BY <2>2, <2>3
<1>4. ASSUME NEW n, Reset(n)
      PROVE  CredTypeOK' /\ CredInv'
  <2>1. \/ UNCHANGED <<credStore, credHistory>>
        \/ /\ stored' = 0 /\ counts' = [i \in 0..MaxCreds |-> 0]
           /\ acked' = {} /\ signed' = [i \in 0..MaxCreds |-> 0]
    BY <1>4 DEF Reset, NoRecord
  <2>2. CASE /\ stored' = 0 /\ counts' = [i \in 0..MaxCreds |-> 0]
             /\ acked' = {} /\ signed' = [i \in 0..MaxCreds |-> 0]
    <3>1. CredTypeOK'
      BY <2>2
    <3>2. CredInv'
      BY <2>2
    <3> QED BY <3>1, <3>2
  <2> QED BY <1>1, <2>1, <2>2
<1>5. CASE PowerCycle \/ HalfMinute \/ SignElse
  BY <1>1, <1>5 DEF PowerCycle, HalfMinute, SignElse
<1>6. CASE \E n \in 0..3 : SetPin(n)
  BY <1>1, <1>6 DEF SetPin
<1>7. CASE \E n \in 0..1 : WrongPin(n)
  BY <1>1, <1>7 DEF WrongPin
<1>8. CASE \E n, change : RightPin(n, change)
  BY <1>1, <1>8 DEF RightPin
<1>9. CASE UNCHANGED keyVars
  BY <1>1, <1>9 DEF keyVars
<1> QED
  BY <1>2, <1>3, <1>4, <1>5, <1>6, <1>7, <1>8, <1>9 DEF NextKey

\* The counter that nothing keeps.
LEMMA CountStep ==
  ASSUME CountTypeOK, [NextKey]_keyVars
  PROVE  CountTypeOK'
BY KeyLimits DEF Upto, CountTypeOK, NextKey, PowerCycle, HalfMinute, SignElse, SetPin, WrongPin,
  Sign, RightPin, MakeCredential, Reset, Off, Stays, ram, keyVars

LEMMA KeyInvariant == SpecKey => []KeyInv
<1>1. InitKey => KeyInv
  <2> SUFFICES ASSUME InitKey PROVE KeyInv
    OBVIOUS
  <2> USE KeyLimits DEF InitKey
  <2>1. FlagTypeOK
    BY DEF FlagTypeOK
  <2>2. PinTypeOK /\ PinInv
    BY DEF PinTypeOK, PinInv, Upto
  <2>3. CredTypeOK /\ CredInv /\ CountTypeOK
    BY DEF CredTypeOK, CredInv, CountTypeOK, Upto, NoRecord
  <2> QED
    BY <2>1, <2>2, <2>3, KeyTypesSplit DEF KeyInv
<1>2. KeyInv /\ [NextKey]_keyVars => KeyInv'
  <2> SUFFICES ASSUME KeyInv, [NextKey]_keyVars PROVE KeyInv'
    OBVIOUS
  <2>1. FlagTypeOK /\ PinTypeOK /\ CredTypeOK /\ CountTypeOK /\ PinInv /\ CredInv
    BY KeyTypesSplit DEF KeyInv
  <2>2. KeyTypeOK' <=> FlagTypeOK' /\ PinTypeOK' /\ CredTypeOK' /\ CountTypeOK'
    BY KeyTypesSplit, PTL
  <2> QED
    BY <2>1, <2>2, FlagStep, PinStep, CredStep, CountStep DEF KeyInv
<1> QED BY <1>1, <1>2, PTL DEF SpecKey

\* Every variable of the key keeps its type: no count of tries goes below zero or beyond
\* its limit, no record is written beyond the store (ctap2.cpp, the stores).
THEOREM KeyTypes == SpecKey => []KeyTypeOK
<1>1. KeyInv => KeyTypeOK
  BY DEF KeyInv
<1> QED BY <1>1, KeyInvariant, PTL

\* A PIN stands no more than PinMax wrong guesses in all and BootMax between two boots,
\* whichever write of pin_check, setPIN, changePIN and reset the power is cut at.
THEOREM PinIsBudgeted == SpecKey => []PinBudget
<1>1. KeyInv => PinBudget
  BY KeyAssumption DEF KeyInv, KeyTypeOK, PinInv, PinBudget
<1> QED BY <1>1, KeyInvariant, PTL

\* A credential that was answered for keeps its record until a reset (nvs_add, nvs_wipe).
THEOREM CredentialsStay == SpecKey => []CredentialsKept
<1>1. KeyInv => CredentialsKept
  BY KeyAssumption DEF KeyInv, KeyTypeOK, CredInv, CredentialsKept, NoRecord
<1> QED BY <1>1, KeyInvariant, PTL

\* The next signature of a resident credential has a count beyond its last (get_assert).
THEOREM CountsOnlyGrow == SpecKey => []CountsGrow
<1>1. KeyInv => CountsGrow
  BY DEF KeyInv, CredInv, CountsGrow
<1> QED BY <1>1, KeyInvariant, PTL
=============================================================================
