---------------------------- MODULE SecurityKey -----------------------------
(***************************************************************************)
(* The FIDO key of the S3 board: PIN, resident credentials and signature   *)
(* counters (core/src/security/kerberos).  What ctap2.cpp and u2f.cpp do   *)
(* with a request, what the stores write to NVS and in which order, and    *)
(* what a power cut between two writes leaves.  One request is handled at  *)
(* a time, to its end: ctaphid_dispatch answers before it returns.         *)
(*                                                                         *)
(* Each request takes the number of NVS writes that were done before the   *)
(* power was cut; when all were done, it is answered.  External: the NVS   *)
(* does a write entirely or not at all, and does not fail.                 *)
(***************************************************************************)
EXTENDS Naturals, Sequences

CONSTANTS
  PinMax,     \* PIN_MAX_RETRIES (8)
  BootMax,    \* wrong PINs allowed between two boots (3)
  MaxCreds,   \* bound: the resident credentials made
  MaxSigns    \* bound: the signatures of a credential

ASSUME KeyAssumption ==
  /\ PinMax \in Nat \ {0} /\ BootMax \in Nat \ {0}
  /\ MaxCreds \in Nat /\ MaxSigns \in Nat

VARIABLES
  pinSet,     \* NVS: a PIN is stored ("h" and "set")
  retries,    \* NVS: the tries it has left ("r")
  stored,     \* NVS: "n", the number of credentials
  counts,     \* NVS: their records, by index: the signature count of each
  bootFails,  \* RAM: wrong PINs since the boot
  token,      \* RAM: a pinUvAuthToken was issued
  counter,    \* RAM: m_counter, the count of everything that is not resident
  young,      \* the key was switched on less than 30 s ago
  wrong,      \* history: wrong PINs compared since a right one, or since it was set
  wrongHere,  \* history: those compared since the boot
  acked,      \* history: the credentials whose making was answered
  signed,     \* history: the last count each of them signed with
  signedElse  \* history: the last count a credential that is not resident signed with

pinStore == <<pinSet, retries>>
credStore == <<stored, counts>>
ram == <<bootFails, token, counter, young>>
pinHistory == <<wrong, wrongHere>>
credHistory == <<acked, signed>>
keyVars == <<pinStore, credStore, ram, pinHistory, credHistory, signedElse>>

NoRecord == 0
Rec(n) == n + 1   \* a record whose signature count is n

\* All w writes of a request were done, or power was cut after n < w of them.
Done(n, w) == n = w
Off ==
  /\ bootFails' = 0 /\ token' = FALSE /\ counter' = 0 /\ young' = TRUE
Stays == UNCHANGED ram
-----------------------------------------------------------------------------
InitKey ==
  /\ pinSet = FALSE /\ retries = PinMax
  /\ stored = 0 /\ counts = [i \in 0..MaxCreds |-> NoRecord]
  /\ bootFails = 0 /\ token = FALSE /\ counter = 0 /\ young = TRUE
  /\ wrong = 0 /\ wrongHere = 0
  /\ acked = {} /\ signed = [i \in 0..MaxCreds |-> 0] /\ signedElse = 0

\* The key is unplugged and plugged in again.
PowerCycle ==
  /\ Off /\ wrongHere' = 0
  /\ UNCHANGED <<pinStore, credStore, wrong, credHistory, signedElse>>

HalfMinute ==
  /\ young /\ young' = FALSE
  /\ UNCHANGED <<pinStore, credStore, bootFails, token, counter, pinHistory, credHistory,
                 signedElse>>

\* setPIN: ps_save writes the hash, the tries and the flag.  Before the flag there is no PIN.
SetPin(n) ==
  /\ ~pinSet
  /\ retries' = IF n >= 2 THEN PinMax ELSE retries
  /\ IF Done(n, 3)
       THEN /\ pinSet' = TRUE /\ bootFails' = 0 /\ wrong' = 0 /\ wrongHere' = 0
            /\ UNCHANGED <<token, counter, young>>
       ELSE Off /\ wrongHere' = 0 /\ UNCHANGED <<pinSet, wrong>>
  /\ UNCHANGED <<credStore, credHistory, signedElse>>

MayTry == pinSet /\ retries > 0 /\ bootFails < BootMax

\* Mutant of WrongPin: the try is compared first and counted after that.
WrongPinUncounted(n) ==
  /\ MayTry
  /\ wrong' = wrong + 1
  /\ IF Done(n, 1)
       THEN /\ retries' = retries - 1 /\ bootFails' = bootFails + 1
            /\ wrongHere' = wrongHere + 1
            /\ UNCHANGED <<token, counter, young>>
       ELSE Off /\ wrongHere' = 0 /\ UNCHANGED retries
  /\ UNCHANGED <<pinSet, credStore, credHistory, signedElse>>

\* pin_check of a wrong PIN (changePIN, getPinToken): the try is counted, then compared.
WrongPin(n) ==
  /\ MayTry
  /\ IF Done(n, 1)
       THEN /\ retries' = retries - 1 /\ bootFails' = bootFails + 1
            /\ wrong' = wrong + 1 /\ wrongHere' = wrongHere + 1
            /\ UNCHANGED <<token, counter, young>>
       ELSE Off /\ wrongHere' = 0 /\ UNCHANGED <<retries, wrong>>
  /\ UNCHANGED <<pinSet, credStore, credHistory, signedElse>>

\* ... of a right one: counted, compared, and the tries are restored.  changePIN saves
\* the new PIN after that, getPinToken issues a token.
RightPin(n, change) ==
  LET writes == IF change THEN 5 ELSE 2
  IN /\ MayTry
     /\ retries' = IF n = 0 THEN retries ELSE IF n = 1 THEN retries - 1 ELSE PinMax
     /\ wrong' = IF n >= 1 THEN 0 ELSE wrong
     /\ IF Done(n, writes)
          THEN /\ bootFails' = 0 /\ wrongHere' = 0
               /\ token' = (token \/ ~change) /\ UNCHANGED <<counter, young>>
          ELSE Off /\ wrongHere' = 0
     /\ UNCHANGED <<pinSet, credStore, credHistory, signedElse>>

\* Mutant of MakeCredential: the number of credentials is written as it was.
MakeUncounted(n) ==
  /\ stored < MaxCreds /\ (pinSet => token)
  /\ counts' = IF n >= 1 THEN [counts EXCEPT ![stored] = Rec(0)] ELSE counts
  /\ IF Done(n, 2)
       THEN /\ stored' = IF stored = 0 THEN 1 ELSE stored
            /\ acked' = acked \cup {stored}
            /\ signed' = [signed EXCEPT ![stored] = 0] /\ Stays /\ UNCHANGED wrongHere
       ELSE Off /\ wrongHere' = 0 /\ UNCHANGED <<stored, credHistory>>
  /\ UNCHANGED <<pinStore, wrong, signedElse>>

\* make_cred of a resident credential, with the token when there is a PIN, and with the
\* user's presence: nvs_add writes the record, then the number.
MakeCredential(n) ==
  /\ stored < MaxCreds /\ (pinSet => token)
  /\ counts' = IF n >= 1 THEN [counts EXCEPT ![stored] = Rec(0)] ELSE counts
  /\ IF Done(n, 2)
       THEN /\ stored' = stored + 1 /\ acked' = acked \cup {stored}
            /\ signed' = [signed EXCEPT ![stored] = 0] /\ Stays /\ UNCHANGED wrongHere
       ELSE Off /\ wrongHere' = 0 /\ UNCHANGED <<stored, credHistory>>
  /\ UNCHANGED <<pinStore, wrong, signedElse>>

\* Mutant of Sign: the count is written after the answer.
SignFirst(n) ==
  \E i \in 0..(stored - 1) :
    /\ counts[i] \in 1..MaxSigns
    /\ signed' = [signed EXCEPT ![i] = counts[i]]
    /\ IF Done(n, 1) THEN counts' = [counts EXCEPT ![i] = @ + 1] /\ Stays /\ UNCHANGED wrongHere
       ELSE Off /\ wrongHere' = 0 /\ UNCHANGED counts
    /\ UNCHANGED <<pinStore, stored, wrong, acked, signedElse>>

\* get_assert with a resident credential i: the new count is written, then signed with.
Sign(n) ==
  \E i \in 0..(stored - 1) :
    /\ counts[i] \in 1..MaxSigns
    /\ IF Done(n, 1)
         THEN /\ counts' = [counts EXCEPT ![i] = @ + 1]
              /\ signed' = [signed EXCEPT ![i] = counts[i]]
              /\ Stays /\ UNCHANGED wrongHere
         ELSE Off /\ wrongHere' = 0 /\ UNCHANGED <<counts, signed>>
    /\ UNCHANGED <<pinStore, stored, wrong, acked, signedElse>>

\* u2f_handle AUTHENTICATE, and get_assert with a credential that is not resident: the
\* common counter, of which nothing is written anywhere.
SignElse ==
  /\ counter < MaxSigns
  /\ counter' = counter + 1 /\ signedElse' = counter'
  /\ UNCHANGED <<pinStore, credStore, bootFails, token, young, pinHistory, credHistory>>

\* reset_cmd, soon after the boot: the credentials are wiped, then the PIN.
Reset(n) ==
  /\ young /\ n \in 0..2
  /\ IF n >= 1 THEN /\ stored' = 0 /\ counts' = [i \in DOMAIN counts |-> NoRecord]
                    /\ acked' = {} /\ signed' = [i \in DOMAIN signed |-> 0]
               ELSE UNCHANGED <<credStore, credHistory>>
  /\ wrongHere' = 0
  /\ IF Done(n, 2)
       THEN /\ pinSet' = FALSE /\ retries' = PinMax /\ wrong' = 0
            /\ token' = FALSE /\ bootFails' = 0 /\ counter' = 0 /\ UNCHANGED young
       ELSE Off /\ UNCHANGED <<pinStore, wrong>>
  /\ UNCHANGED signedElse

NextKey ==
  \/ PowerCycle \/ HalfMinute \/ SignElse
  \/ \E n \in 0..3 : SetPin(n)
  \/ \E n \in 0..1 : WrongPin(n) \/ Sign(n)
  \/ \E n \in 0..2 : RightPin(n, FALSE) \/ MakeCredential(n) \/ Reset(n)
  \/ \E n \in 0..5 : RightPin(n, TRUE)

SpecKey == InitKey /\ [][NextKey]_keyVars
-----------------------------------------------------------------------------
(* Properties *)

\* Every variable has the type of what it stands for.
KeyTypeOK ==
  /\ pinSet \in BOOLEAN /\ retries \in 0..PinMax
  /\ stored \in 0..MaxCreds /\ counts \in [0..MaxCreds -> 0..(MaxSigns + 1)]
  /\ bootFails \in 0..BootMax /\ token \in BOOLEAN /\ counter \in 0..MaxSigns
  /\ young \in BOOLEAN /\ wrong \in 0..PinMax /\ wrongHere \in 0..BootMax
  /\ acked \subseteq 0..MaxCreds
  /\ signed \in [0..MaxCreds -> 0..MaxSigns] /\ signedElse \in 0..MaxSigns

\* A PIN stands no more than PinMax wrong guesses in all, and BootMax between two boots,
\* wherever the power is cut (pin_check, ps_save_retries).
PinBudget == pinSet => wrong + retries <= PinMax /\ wrongHere <= BootMax

\* A credential whose making was answered is there until the key is reset, and no other
\* takes its record, wherever the power is cut (nvs_add, nvs_wipe).
CredentialsKept == \A i \in acked : i < stored /\ counts[i] # NoRecord

\* A resident credential never signs with a count it has signed with before, wherever
\* the power is cut: the next count is beyond the last (get_assert, nvs_update).
CountsGrow == \A i \in acked : counts[i] > signed[i]

\* u2f.h:10 and ctap2.h:57: the signature counter is monotonic, and persisted by the
\* caller; u2f.cpp:67 would rather refuse to sign than break that.
CounterMonotonic == [][signedElse' # signedElse => signedElse' > signedElse]_keyVars
=============================================================================
