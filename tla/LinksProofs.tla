----------------------------- MODULE LinksProofs ------------------------------
(***************************************************************************)
(* Theorems about what connects a board with the world, for every value of *)
(* the constants.                                                          *)
(*                                                                         *)
(* The SSH client: one task reads the channel, and a program that was      *)
(* connected anew is not shown what the last session has left.  The        *)
(* inductive invariant says what is left of a call, as one of the tails of *)
(* the calls there are, and for each of them what the members hold then.   *)
(*                                                                         *)
(* The dongle: every command is given its own answer.  The inductive       *)
(* invariant says for each stage of a command where its answer is, and     *)
(* that no other is under way.                                             *)
(*                                                                         *)
(* The composition: it is each of its components, so that every theorem    *)
(* about one of them holds in it.                                          *)
(***************************************************************************)
EXTENDS Links, AudioPlayerProofs, UsbProofs, SequenceTheorems

\* What is left of a call of the terminal, by the step that comes next: alone in a close,
\* or with the connect that follows it.
FirstShell ==
  {<<"shell", "shell", "free", "clear">>,
   <<"shell", "shell", "free", "clear", "shell", "free", "login", "shell", "open">>}
SecondShell ==
  {<<"shell", "free", "clear">>,
   <<"shell", "free", "clear", "shell", "free", "login", "shell", "open">>}
FirstFree ==
  {<<"free", "clear">>, <<"free", "clear", "shell", "free", "login", "shell", "open">>}
Clearing == {<<"clear">>, <<"clear", "shell", "free", "login", "shell", "open">>}
ThirdShell == {<<"shell", "free", "login", "shell", "open">>}
SecondFree == {<<"free", "login", "shell", "open">>}
LoggingIn == {<<"login", "shell", "open">>}
Authenticating == {<<"auth", "shell", "open">>}
LastShell == {<<"shell", "open">>}
Opening == {<<"open">>}

\* A connect that did not log in disconnects.
LeavingShell == {<<"shell", "free">>}
LeavingFree == {<<"free">>}
Leaving == LeavingShell \cup LeavingFree

Calls ==
  {<<>>} \cup FirstShell \cup SecondShell \cup FirstFree \cup Clearing \cup ThirdShell
    \cup SecondFree \cup LoggingIn \cup Authenticating \cup LastShell \cup Opening
    \cup LeavingShell \cup LeavingFree

\* The login is still to come.
Connecting ==
  {<<"shell", "shell", "free", "clear", "shell", "free", "login", "shell", "open">>,
   <<"shell", "free", "clear", "shell", "free", "login", "shell", "open">>,
   <<"free", "clear", "shell", "free", "login", "shell", "open">>,
   <<"clear", "shell", "free", "login", "shell", "open">>}
    \cup ThirdShell \cup SecondFree \cup LoggingIn

\* The old session is gone, the new shell is not there yet.
Between ==
  ThirdShell \cup SecondFree \cup LoggingIn \cup Authenticating \cup LastShell \cup Opening
    \cup LeavingShell \cup LeavingFree

\* How long the rest of a call is, and the step that comes next.
LEMMA CallShape ==
  ASSUME NEW t
  PROVE  /\ t \in FirstShell => Len(t) \in {4, 9} /\ Head(t) = "shell"
         /\ t \in SecondShell => Len(t) \in {3, 8} /\ Head(t) = "shell"
         /\ t \in FirstFree => Len(t) \in {2, 7} /\ Head(t) = "free"
         /\ t \in Clearing => Len(t) \in {1, 6} /\ Head(t) = "clear"
         /\ t \in ThirdShell => Len(t) = 5 /\ Head(t) = "shell"
         /\ t \in SecondFree => Len(t) = 4 /\ Head(t) = "free"
         /\ t \in LoggingIn => Len(t) = 3 /\ Head(t) = "login"
         /\ t \in Authenticating => Len(t) = 3 /\ Head(t) = "auth"
         /\ t \in LastShell => Len(t) = 2 /\ Head(t) = "shell" /\ t[2] = "open"
         /\ t \in Opening => Len(t) = 1 /\ Head(t) = "open"
         /\ t \in LeavingShell => Len(t) = 2 /\ Head(t) = "shell" /\ t[2] = "free"
         /\ t \in LeavingFree => Len(t) = 1 /\ Head(t) = "free"
         /\ t = <<>> => Len(t) = 0
<1>1. t \in FirstShell => Len(t) \in {4, 9} /\ Head(t) = "shell"
  BY DEF FirstShell
<1>2. t \in SecondShell => Len(t) \in {3, 8} /\ Head(t) = "shell"
  BY DEF SecondShell
<1>3. t \in FirstFree => Len(t) \in {2, 7} /\ Head(t) = "free"
  BY DEF FirstFree
<1>4. t \in Clearing => Len(t) \in {1, 6} /\ Head(t) = "clear"
  BY DEF Clearing
<1>5. t \in ThirdShell => Len(t) = 5 /\ Head(t) = "shell"
  BY DEF ThirdShell
<1>6. t \in SecondFree => Len(t) = 4 /\ Head(t) = "free"
  BY DEF SecondFree
<1>7. t \in LoggingIn => Len(t) = 3 /\ Head(t) = "login"
  BY DEF LoggingIn
<1>8. t \in LastShell => Len(t) = 2 /\ Head(t) = "shell" /\ t[2] = "open"
  BY DEF LastShell
<1>9. t \in Opening => Len(t) = 1 /\ Head(t) = "open"
  BY DEF Opening
<1>10. t \in Authenticating => Len(t) = 3 /\ Head(t) = "auth"
  BY DEF Authenticating
<1>11. t \in LeavingShell => Len(t) = 2 /\ Head(t) = "shell" /\ t[2] = "free"
  BY DEF LeavingShell
<1>12. t \in LeavingFree => Len(t) = 1 /\ Head(t) = "free"
  BY DEF LeavingFree
<1> QED BY <1>1, <1>2, <1>3, <1>4, <1>5, <1>6, <1>7, <1>8, <1>9, <1>10, <1>11, <1>12

\* No call is in two places at once.
LEMMA CallPlaces ==
  ASSUME NEW t
  PROVE  /\ t \in FirstShell => t \notin SecondShell \cup FirstFree \cup Clearing \cup Between
         /\ t \in SecondShell => t \notin FirstFree \cup Clearing \cup Between
         /\ t \in FirstFree => t \notin Clearing \cup Between
         /\ t \in Clearing => t \notin Between
         /\ t \in ThirdShell => t \notin SecondFree \cup LoggingIn \cup Authenticating \cup LastShell
                                         \cup Opening \cup Leaving
         /\ t \in SecondFree => t \notin LoggingIn \cup Authenticating \cup LastShell \cup Opening
                                         \cup Leaving
         /\ t \in LoggingIn => t \notin Authenticating \cup LastShell \cup Opening \cup Leaving
         /\ t \in Authenticating => t \notin LastShell \cup Opening \cup Leaving
         /\ t \in LastShell => t \notin Opening \cup Leaving
         /\ t \in Opening => t \notin Leaving
         /\ t \in LeavingShell => t \notin LeavingFree
         /\ t = <<>> => t \notin FirstShell \cup SecondShell \cup FirstFree \cup Clearing \cup Between
<1> DEFINE n == Len(t)
<1>1. /\ t \in FirstShell => n \in {4, 9} /\ Head(t) = "shell"
      /\ t \in SecondShell => n \in {3, 8} /\ Head(t) = "shell"
      /\ t \in FirstFree => n \in {2, 7} /\ Head(t) = "free"
      /\ t \in Clearing => n \in {1, 6} /\ Head(t) = "clear"
      /\ t \in ThirdShell => n = 5 /\ Head(t) = "shell"
      /\ t \in SecondFree => n = 4 /\ Head(t) = "free"
      /\ t \in LoggingIn => n = 3 /\ Head(t) = "login"
      /\ t \in Authenticating => n = 3 /\ Head(t) = "auth"
      /\ t \in LastShell => n = 2 /\ Head(t) = "shell" /\ t[2] = "open"
      /\ t \in Opening => n = 1 /\ Head(t) = "open"
      /\ t \in LeavingShell => n = 2 /\ Head(t) = "shell" /\ t[2] = "free"
      /\ t \in LeavingFree => n = 1 /\ Head(t) = "free"
      /\ t = <<>> => n = 0
  BY CallShape
<1> HIDE DEF n
<1>2. t \in FirstShell => t \notin SecondShell \cup FirstFree \cup Clearing \cup Between
  BY <1>1 DEF Between
<1>3. t \in SecondShell => t \notin FirstFree \cup Clearing \cup Between
  BY <1>1 DEF Between
<1>4. t \in FirstFree => t \notin Clearing \cup Between
  BY <1>1 DEF Between
<1>5. t \in Clearing => t \notin Between
  BY <1>1 DEF Between
<1>6. t = <<>> => t \notin FirstShell \cup SecondShell \cup FirstFree \cup Clearing \cup Between
  BY <1>1 DEF Between
<1>7. /\ t \in ThirdShell => t \notin SecondFree \cup LoggingIn \cup Authenticating \cup LastShell
                                    \cup Opening \cup Leaving
      /\ t \in SecondFree => t \notin LoggingIn \cup Authenticating \cup LastShell \cup Opening
                                    \cup Leaving
      /\ t \in LoggingIn => t \notin Authenticating \cup LastShell \cup Opening \cup Leaving
  BY <1>1 DEF Leaving
<1>8. /\ t \in Authenticating => t \notin LastShell \cup Opening \cup Leaving
      /\ t \in LastShell => t \notin Opening \cup Leaving
      /\ t \in Opening => t \notin Leaving
      /\ t \in LeavingShell => t \notin LeavingFree
  BY <1>1 DEF Leaving
<1> QED BY <1>2, <1>3, <1>4, <1>5, <1>6, <1>7, <1>8

\* The step that comes next tells where a call is.
LEMMA CallHeads ==
  ASSUME NEW t \in Calls, t # <<>>
  PROVE  /\ Head(t) = "shell" => t \in FirstShell \cup SecondShell \cup ThirdShell \cup LastShell
                                     \cup LeavingShell
         /\ Head(t) = "free" => t \in FirstFree \cup SecondFree \cup LeavingFree
         /\ Head(t) = "clear" => t \in Clearing
         /\ Head(t) = "login" => t \in LoggingIn
         /\ Head(t) = "auth" => t \in Authenticating
         /\ Head(t) = "open" => t \in Opening
BY CallShape DEF Calls

LEMMA CallTails ==
  /\ Tail(<<"shell", "shell", "free", "clear">>) = <<"shell", "free", "clear">>
  /\ Tail(<<"shell", "free", "clear">>) = <<"free", "clear">>
  /\ Tail(<<"free", "clear">>) = <<"clear">>
  /\ Tail(<<"clear">>) = <<>>
  /\ Tail(<<"shell", "shell", "free", "clear", "shell", "free", "login", "shell", "open">>) =
       <<"shell", "free", "clear", "shell", "free", "login", "shell", "open">>
  /\ Tail(<<"shell", "free", "clear", "shell", "free", "login", "shell", "open">>) =
       <<"free", "clear", "shell", "free", "login", "shell", "open">>
  /\ Tail(<<"free", "clear", "shell", "free", "login", "shell", "open">>) =
       <<"clear", "shell", "free", "login", "shell", "open">>
  /\ Tail(<<"clear", "shell", "free", "login", "shell", "open">>) =
       <<"shell", "free", "login", "shell", "open">>
  /\ Tail(<<"shell", "free", "login", "shell", "open">>) = <<"free", "login", "shell", "open">>
  /\ Tail(<<"free", "login", "shell", "open">>) = <<"login", "shell", "open">>
  /\ Tail(<<"login", "shell", "open">>) = <<"shell", "open">>
  /\ Tail(<<"auth", "shell", "open">>) = <<"shell", "open">>
  /\ Tail(<<"shell", "free">>) = <<"free">>
  /\ Tail(<<"free">>) = <<>>
  /\ Tail(<<"shell", "open">>) = <<"open">>
  /\ Tail(<<"open">>) = <<>>
OBVIOUS

\* Where a call comes to with a step.
LEMMA CallSteps ==
  ASSUME NEW t
  PROVE  /\ t \in FirstShell => Tail(t) \in SecondShell
         /\ t \in SecondShell => Tail(t) \in FirstFree
         /\ t \in FirstFree => Tail(t) \in Clearing
         /\ t \in Clearing => Tail(t) \in {<<>>} \cup ThirdShell
         /\ t \in ThirdShell => Tail(t) \in SecondFree
         /\ t \in SecondFree => Tail(t) \in LoggingIn
         /\ t \in Authenticating => Tail(t) \in LastShell
         /\ t \in LastShell => Tail(t) \in Opening
         /\ t \in Opening => Tail(t) = <<>>
         /\ t \in LeavingShell => Tail(t) \in LeavingFree
         /\ t \in LeavingFree => Tail(t) = <<>>
<1>1. t \in FirstShell => Tail(t) \in SecondShell
  BY CallTails DEF FirstShell, SecondShell
<1>2. t \in SecondShell => Tail(t) \in FirstFree
  BY CallTails DEF SecondShell, FirstFree
<1>3. t \in FirstFree => Tail(t) \in Clearing
  BY CallTails DEF FirstFree, Clearing
<1>4. t \in Clearing => Tail(t) \in {<<>>} \cup ThirdShell
  BY CallTails DEF Clearing, ThirdShell
<1>5. t \in ThirdShell => Tail(t) \in SecondFree
  BY CallTails DEF ThirdShell, SecondFree
<1>6. t \in SecondFree => Tail(t) \in LoggingIn
  BY CallTails DEF SecondFree, LoggingIn
<1>7. t \in Authenticating => Tail(t) \in LastShell
  BY CallTails DEF Authenticating, LastShell
<1>8. t \in LastShell => Tail(t) \in Opening
  BY CallTails DEF LastShell, Opening
<1>9. t \in Opening => Tail(t) = <<>>
  BY CallTails DEF Opening
<1>10. t \in LeavingShell => Tail(t) \in LeavingFree
  BY CallTails DEF LeavingShell, LeavingFree
<1>11. t \in LeavingFree => Tail(t) = <<>>
  BY CallTails DEF LeavingFree
<1> QED BY <1>1, <1>2, <1>3, <1>4, <1>5, <1>6, <1>7, <1>8, <1>9, <1>10, <1>11

\* A call that logs in was begun as one.
LEMMA ConnectingSteps ==
  ASSUME NEW t \in Calls, t # <<>>, Tail(t) \in Connecting
  PROVE  t \in Connecting
<1> DEFINE rest == {<<"shell", "free", "clear">>, <<"free", "clear">>, <<"clear">>, <<>>}
<1>1. \A u \in rest : u \notin Connecting
  <2> USE DEF Connecting, ThirdShell, SecondFree, LoggingIn
  <2>1. <<"shell", "free", "clear">> \notin Connecting
    OBVIOUS
  <2>2. <<"free", "clear">> \notin Connecting
    OBVIOUS
  <2>3. <<"clear">> \notin Connecting
    OBVIOUS
  <2>4. <<>> \notin Connecting
    OBVIOUS
  <2> HIDE DEF Connecting
  <2> QED BY <2>1, <2>2, <2>3, <2>4
<1>2. t \in {<<"shell", "shell", "free", "clear">>, <<"shell", "free", "clear">>, <<"free", "clear">>,
             <<"clear">>, <<"open">>, <<"free">>} => Tail(t) \in rest
  BY CallTails
<1>3. t \in {<<"shell", "open">>, <<"auth", "shell", "open">>, <<"shell", "free">>} =>
        Tail(t) \notin Connecting
  <2> USE DEF Connecting, ThirdShell, SecondFree, LoggingIn
  <2>1. <<"open">> \notin Connecting
    OBVIOUS
  <2>2. <<"shell", "open">> \notin Connecting
    OBVIOUS
  <2>3. <<"free">> \notin Connecting
    OBVIOUS
  <2> HIDE DEF Connecting
  <2> QED BY <2>1, <2>2, <2>3, CallTails
<1> HIDE DEF rest
<1>4. t \notin {<<"shell", "shell", "free", "clear">>, <<"shell", "free", "clear">>, <<"free", "clear">>,
                <<"clear">>, <<"open">>, <<"shell", "open">>, <<"auth", "shell", "open">>,
                <<"shell", "free">>, <<"free">>}
  BY <1>1, <1>2, <1>3
<1> QED
  BY <1>4, Zenon
    DEF Connecting, Calls, FirstShell, SecondShell, FirstFree, Clearing, LastShell, Opening,
      Authenticating, LeavingShell, LeavingFree

LEMMA Joined ==
  ASSUME NEW W, NEW s \in Seq(W), NEW t \in Seq(W), NEW u \in Seq(W), Len(u) = Len(s) + Len(t),
         \A i \in 1..Len(s) : u[i] = s[i], \A i \in 1..Len(t) : u[Len(s) + i] = t[i]
  PROVE  s \o t = u
<1>1. Len(s \o t) = Len(s) + Len(t) /\ s \o t \in Seq(W) /\ Len(s) \in Nat /\ Len(t) \in Nat
  OBVIOUS
<1>2. ASSUME NEW i \in 1..Len(u) PROVE (s \o t)[i] = u[i]
  <2>1. CASE i <= Len(s)
    BY <1>1, <2>1
  <2>2. CASE i > Len(s)
    <3>1. i - Len(s) \in 1..Len(t) /\ Len(s) + (i - Len(s)) = i
      BY <1>1, <2>2
    <3>2. u[i] = t[i - Len(s)]
      BY <3>1
    <3> QED BY <1>1, <2>2, <3>2
  <2> QED BY <1>1, <2>1, <2>2
<1> QED BY <1>1, <1>2, SeqEqual

Word == {"shell", "free", "clear", "login", "auth", "open"}

LEMMA CallWords == Calls \subseteq Seq(Word)
<1>1. FirstShell \subseteq Seq(Word)
  BY DEF FirstShell, Word
<1>2. SecondShell \subseteq Seq(Word)
  BY DEF SecondShell, Word
<1>3. FirstFree \subseteq Seq(Word)
  BY DEF FirstFree, Word
<1>4. Clearing \subseteq Seq(Word)
  BY DEF Clearing, Word
<1>5. ThirdShell \cup SecondFree \subseteq Seq(Word)
  BY DEF ThirdShell, SecondFree, Word
<1>6. LoggingIn \cup LastShell \cup Opening \subseteq Seq(Word)
  BY DEF LoggingIn, LastShell, Opening, Word
<1>7. <<>> \in Seq(Word)
  OBVIOUS
<1>8. Authenticating \cup LeavingShell \cup LeavingFree \subseteq Seq(Word)
  BY DEF Authenticating, LeavingShell, LeavingFree, Word
<1> QED BY <1>1, <1>2, <1>3, <1>4, <1>5, <1>6, <1>7, <1>8 DEF Calls

\* The calls of the terminal begin at the first step, or at the clearing without a session.
LEMMA CallsBegin ==
  LET connect == CloseAdapter \o Disconnect \o <<"login", "shell", "open">>
  IN  /\ session = 0 => CloseAdapter \in Clearing /\ connect \in Clearing
      /\ session # 0 /\ connected => CloseAdapter \in FirstShell /\ connect \in FirstShell
      /\ CloseAdapter \notin Connecting
<1>1. <<"shell">> \o <<"shell", "free">> =
       <<"shell", "shell", "free">>
  <2> DEFINE s == <<"shell">>
             t == <<"shell", "free">>
             u == <<"shell", "shell", "free">>
  <2>1. s \in Seq(Word) /\ t \in Seq(Word) /\ u \in Seq(Word) /\ Len(u) = Len(s) + Len(t)
    BY DEF Word
  <2>2. \A i \in 1..Len(s) : u[i] = s[i]
    OBVIOUS
  <2>3. \A i \in 1..Len(t) : u[Len(s) + i] = t[i]
    OBVIOUS
  <2> HIDE DEF s, t, u
  <2> QED BY <2>1, <2>2, <2>3, Joined DEF s, t, u
<1>2. <<"shell", "shell", "free">> \o <<"clear">> =
       <<"shell", "shell", "free", "clear">>
  <2> DEFINE s == <<"shell", "shell", "free">>
             t == <<"clear">>
             u == <<"shell", "shell", "free", "clear">>
  <2>1. s \in Seq(Word) /\ t \in Seq(Word) /\ u \in Seq(Word) /\ Len(u) = Len(s) + Len(t)
    BY DEF Word
  <2>2. \A i \in 1..Len(s) : u[i] = s[i]
    OBVIOUS
  <2>3. \A i \in 1..Len(t) : u[Len(s) + i] = t[i]
    OBVIOUS
  <2> HIDE DEF s, t, u
  <2> QED BY <2>1, <2>2, <2>3, Joined DEF s, t, u
<1>3. <<"shell", "shell", "free", "clear">> \o <<"shell", "free">> =
       <<"shell", "shell", "free", "clear", "shell", "free">>
  <2> DEFINE s == <<"shell", "shell", "free", "clear">>
             t == <<"shell", "free">>
             u == <<"shell", "shell", "free", "clear", "shell", "free">>
  <2>1. s \in Seq(Word) /\ t \in Seq(Word) /\ u \in Seq(Word) /\ Len(u) = Len(s) + Len(t)
    BY DEF Word
  <2>2. \A i \in 1..Len(s) : u[i] = s[i]
    OBVIOUS
  <2>3. \A i \in 1..Len(t) : u[Len(s) + i] = t[i]
    OBVIOUS
  <2> HIDE DEF s, t, u
  <2> QED BY <2>1, <2>2, <2>3, Joined DEF s, t, u
<1>4. <<"shell", "shell", "free", "clear", "shell", "free">> \o <<"login", "shell", "open">> =
       <<"shell", "shell", "free", "clear", "shell", "free", "login", "shell", "open">>
  <2> DEFINE s == <<"shell", "shell", "free", "clear", "shell", "free">>
             t == <<"login", "shell", "open">>
             u == <<"shell", "shell", "free", "clear", "shell", "free", "login", "shell", "open">>
  <2>1. s \in Seq(Word) /\ t \in Seq(Word) /\ u \in Seq(Word) /\ Len(u) = Len(s) + Len(t)
    BY DEF Word
  <2>2. \A i \in 1..Len(s) : u[i] = s[i]
    OBVIOUS
  <2>3. \A i \in 1..Len(t) : u[Len(s) + i] = t[i]
    OBVIOUS
  <2> HIDE DEF s, t, u
  <2> QED BY <2>1, <2>2, <2>3, Joined DEF s, t, u
<1>5. <<"clear">> \o <<"shell", "free">> =
       <<"clear", "shell", "free">>
  <2> DEFINE s == <<"clear">>
             t == <<"shell", "free">>
             u == <<"clear", "shell", "free">>
  <2>1. s \in Seq(Word) /\ t \in Seq(Word) /\ u \in Seq(Word) /\ Len(u) = Len(s) + Len(t)
    BY DEF Word
  <2>2. \A i \in 1..Len(s) : u[i] = s[i]
    OBVIOUS
  <2>3. \A i \in 1..Len(t) : u[Len(s) + i] = t[i]
    OBVIOUS
  <2> HIDE DEF s, t, u
  <2> QED BY <2>1, <2>2, <2>3, Joined DEF s, t, u
<1>6. <<"clear", "shell", "free">> \o <<"login", "shell", "open">> =
       <<"clear", "shell", "free", "login", "shell", "open">>
  <2> DEFINE s == <<"clear", "shell", "free">>
             t == <<"login", "shell", "open">>
             u == <<"clear", "shell", "free", "login", "shell", "open">>
  <2>1. s \in Seq(Word) /\ t \in Seq(Word) /\ u \in Seq(Word) /\ Len(u) = Len(s) + Len(t)
    BY DEF Word
  <2>2. \A i \in 1..Len(s) : u[i] = s[i]
    OBVIOUS
  <2>3. \A i \in 1..Len(t) : u[Len(s) + i] = t[i]
    OBVIOUS
  <2> HIDE DEF s, t, u
  <2> QED BY <2>1, <2>2, <2>3, Joined DEF s, t, u
<1>7. <<"clear">> \notin Connecting
  BY DEF Connecting, ThirdShell, SecondFree, LoggingIn
<1>8. <<"shell", "shell", "free", "clear">> \notin Connecting
  BY DEF Connecting, ThirdShell, SecondFree, LoggingIn
<1> HIDE DEF Connecting
<1>9. CASE ~(connected /\ session # 0)
  BY <1>5, <1>6, <1>7, <1>9 DEF CloseAdapter, Disconnect, Clearing
<1>10. CASE connected /\ session # 0
  BY <1>1, <1>2, <1>3, <1>4, <1>8, <1>10 DEF CloseAdapter, Disconnect, FirstShell
<1> QED BY <1>9, <1>10
-----------------------------------------------------------------------------
Active(r) == reader[r] \notin {"none", "done"}

SshFlagsOK ==
  connected \in BOOLEAN /\ blocking \in BOOLEAN /\ stopShell \in BOOLEAN /\ onData \in BOOLEAN

\* The types, without the flags and what the places of the call decide.
SshKindsOK ==
  /\ shellHandle \in 0..MaxSessions /\ sshMutex \in 0..Lvgl
  /\ fifo \in Seq(Shell) /\ Len(fifo) <= FifoSize
  /\ closing \in {"ask", "waiting", "locking", "network"}
  /\ script \in {"idle", "checked", "running"}
  /\ reader \in [Shell -> {"none", "test", "read", "blocked", "got", "select", "end", "done"}]
  /\ held \in [Shell -> 0..MaxSessions] /\ execs \in 0..MaxExecs

\* A call is somewhere in a close or a connect; inside closeShell it has asked the reader
\* to stop.
CallOK ==
  /\ todo \in Calls
  /\ todo \in Connecting => sessions < MaxSessions
  /\ closing # "ask" => todo # <<>> /\ Head(todo) \in {"shell", "free", "open"}
  /\ closing # "ask" /\ Head(todo) = "shell" => stopShell

\* The mutex is with whoever waits for the server; a reader that has it keeps the channel
\* alive.
MutexOK ==
  /\ \A r \in Shell : sshMutex = r <=> reader[r] = "blocked"
  /\ \A r \in Shell : reader[r] = "blocked" => shellChannel # 0
  /\ sshMutex = Lvgl <=> closing = "network"
  /\ sshMutex = Script <=> script = "running"

SessionOK ==
  /\ sessions \in 0..MaxSessions /\ session \in 0..sessions /\ shellChannel \in {0, session}
  /\ session = 0 => sshMutex = 0 /\ ~onData
  /\ todo \in FirstFree \cup SecondFree \cup LoggingIn \cup Authenticating \cup Leaving =>
       shellChannel = 0
  /\ todo \in Clearing \cup ThirdShell \cup SecondFree \cup LoggingIn => session = 0
  /\ todo \in LastShell \cup Opening \cup Authenticating \cup Leaving => session # 0
  /\ todo \in {<<>>} \cup LastShell \cup Opening /\ session # 0 => connected

\* The reader that is there is the one of the handle and of the session, if there still is
\* one; it is gone before the next login.
ReaderOK ==
  /\ \A r \in Shell : Active(r) <=> shellHandle = r
  /\ \A r \in Shell : Active(r) => session \in {0, r}
  /\ \A r \in Shell : reader[r] = "got" => held[r] = r
  /\ todo \in ThirdShell /\ closing = "locking" => shellHandle = 0
  /\ todo \in SecondFree \cup LoggingIn \cup Authenticating \cup LastShell \cup Opening \cup Leaving =>
       shellHandle = 0

\* Once the first closeShell has taken the callback away nothing arrives any more, and
\* what had arrived is cleared before the next login.
FifoOK ==
  /\ todo \in SecondShell \cup FirstFree \cup Clearing \cup Between => ~onData
  /\ todo \in Between => fifo = <<>>
  /\ todo = <<>> => \A i \in DOMAIN fifo : fifo[i] = session

SshInv == SshKindsOK /\ CallOK /\ MutexOK /\ SessionOK /\ ReaderOK /\ FifoOK

LEMMA SshNumbers ==
  /\ MaxSessions \in Nat /\ Script \in Nat /\ Script = MaxSessions + 1 /\ Lvgl = MaxSessions + 2
  /\ Shell = 1..MaxSessions /\ MaxExecs \in Nat /\ FifoSize \in Nat /\ FifoSize > 0
  /\ 0 \notin Shell /\ Script \notin Shell /\ Lvgl \notin Shell /\ Lvgl # Script
BY SshAssumption DEF Shell, Script, Lvgl

LEMMA SshFlagsStep == SshFlagsOK /\ [NextSsh]_sshVars => SshFlagsOK'
<1> SUFFICES ASSUME SshFlagsOK, [NextSsh]_sshVars PROVE SshFlagsOK'
  OBVIOUS
<1>1. CASE UserCloses \/ UserConnects \/ PumpStream \/ ServerActs \/ UNCHANGED sshVars
  BY <1>1 DEF SshFlagsOK, UserCloses, UserConnects, PumpStream, ServerActs, sshVars, sshClient
<1>2. CASE TerminalStep
  BY <1>2, Zenon DEF SshFlagsOK, TerminalStep, CloseAsks, CloseWaited, CloseLocks, FreeAsks,
    FreeLocks, ClearFifo, Login, OpenLocks, sshClient
<1>3. CASE TerminalAnswered
  BY <1>3 DEF SshFlagsOK, TerminalAnswered, CloseFrees, FreeSession, Authenticate, OpenShell,
    OpenFails
<1>4. CASE ExecChecks \/ ExecLocks \/ ExecPanics \/ ExecEnds
  BY <1>4 DEF SshFlagsOK, ExecChecks, ExecLocks, ExecPanics, ExecEnds, sshClient
<1>5. ASSUME NEW r \in Shell, ReaderStep(r) PROVE SshFlagsOK'
  BY <1>5 DEF SshFlagsOK, ReaderStep, ReaderTests, ReaderReads, ReaderDelivers, ReaderSelects,
    ReaderEnds, sshClient
<1> QED BY <1>1, <1>2, <1>3, <1>4, <1>5 DEF NextSsh

\* A step that leaves the places alone, and the fifo.
LEMMA SshElsewhere ==
  ASSUME SshInv,
         UNCHANGED <<session, connected, shellChannel, stopShell, shellHandle, onData, sshMutex,
                     fifo, todo, closing, script, reader, held, sessions>>,
         execs' \in 0..MaxExecs
  PROVE  SshInv'
BY DEF SshInv, SshKindsOK, CallOK, MutexOK, SessionOK, ReaderOK, FifoOK, Active

LEMMA UserSteps ==
  ASSUME SshInv, UserCloses \/ UserConnects
  PROVE  SshInv'
<1>1. /\ todo = <<>> /\ closing = "ask"
      /\ UNCHANGED <<session, connected, shellChannel, stopShell, shellHandle, onData, sshMutex,
                     fifo, closing, script, reader, held, sessions, execs>>
      /\ \/ todo' = CloseAdapter
         \/ todo' = CloseAdapter \o Disconnect \o <<"login", "shell", "open">> /\ sessions < MaxSessions
  BY DEF UserCloses, UserConnects, sshClient, readers, commands, SshInv, CallOK, SshKindsOK
<1>2. session # 0 => connected
  BY <1>1 DEF SshInv, SessionOK
<1>3. /\ todo' \in Connecting => sessions < MaxSessions
      /\ session = 0 => todo' \in Clearing
      /\ session # 0 => todo' \in FirstShell
  BY <1>1, <1>2, CallsBegin
<1>4. PICK t : t = todo'
  OBVIOUS
<1>5. /\ t \in Calls /\ t \notin Between
      /\ t \notin SecondShell \cup FirstFree /\ t # <<>>
      /\ t \in Connecting => sessions < MaxSessions
      /\ t \in Clearing => session = 0
  BY <1>3, <1>4, CallPlaces DEF Calls
<1>6. SshKindsOK' /\ MutexOK' /\ CallOK'
  BY <1>1, <1>4, <1>5 DEF SshInv, SshKindsOK, MutexOK, CallOK
<1>7. SessionOK'
  BY <1>1, <1>4, <1>5 DEF SshInv, SessionOK, Between, Leaving
<1>8. ReaderOK'
  BY <1>1, <1>4, <1>5 DEF SshInv, ReaderOK, Between, Leaving, Active
<1>9. FifoOK'
  BY <1>1, <1>4, <1>5 DEF SshInv, FifoOK, SessionOK
<1> QED BY <1>6, <1>7, <1>8, <1>9 DEF SshInv

LEMMA CloseAsksStep ==
  ASSUME SshInv, CloseAsks
  PROVE  SshInv'
<1>1. /\ todo # <<>> /\ Head(todo) = "shell" /\ stopShell' /\ closing = "ask"
      /\ closing' = IF shellHandle = 0 THEN "locking" ELSE "waiting"
      /\ UNCHANGED <<session, connected, shellChannel, shellHandle, onData, sshMutex, todo, fifo,
                     script, reader, held, sessions, execs>>
  BY DEF CloseAsks, At, Doing, readers, commands
<1>2. SshKindsOK' /\ SessionOK' /\ FifoOK'
  BY <1>1 DEF SshInv, SshKindsOK, SessionOK, FifoOK
<1>3. MutexOK'
  BY <1>1 DEF SshInv, MutexOK
<1>4. CallOK' /\ ReaderOK'
  BY <1>1 DEF SshInv, CallOK, ReaderOK, Active
<1> QED BY <1>2, <1>3, <1>4 DEF SshInv

\* When closeShell has waited without a session, no reader is left: the request is seen by
\* all but those the mutex stops, and nobody holds it.
LEMMA CloseWaitedStep ==
  ASSUME SshInv, CloseWaited
  PROVE  SshInv'
<1>1. /\ todo # <<>> /\ Head(todo) = "shell" /\ closing = "waiting" /\ closing' = "locking"
      /\ UNCHANGED <<session, connected, shellChannel, stopShell, shellHandle, onData, sshMutex,
                     todo, fifo, script, reader, held, sessions, execs>>
  BY DEF CloseWaited, At, Doing, readers, sshClient, commands
<1>2. SshKindsOK' /\ MutexOK' /\ SessionOK' /\ FifoOK' /\ CallOK'
  BY <1>1 DEF SshInv, SshKindsOK, MutexOK, SessionOK, FifoOK, CallOK
<1>3. todo \in ThirdShell => shellHandle = 0
  <2>1. SUFFICES ASSUME todo \in ThirdShell, shellHandle # 0 PROVE FALSE
    OBVIOUS
  <2>2. sshMutex = 0 /\ stopShell
    BY <1>1, <2>1 DEF SshInv, SessionOK, CallOK
  <2>3. shellHandle \in Shell /\ Active(shellHandle)
    BY <2>1, SshNumbers DEF SshInv, SshKindsOK, ReaderOK
  <2>4. reader[shellHandle] \in {"test", "read", "got", "select", "end"}
    BY <2>2, <2>3, SshNumbers DEF SshInv, SshKindsOK, MutexOK, Active
  <2>5. InTime
    BY <2>2, <2>3, <2>4 DEF InTime
  <2> QED BY <2>5 DEF CloseWaited
<1>4. ReaderOK'
  BY <1>1, <1>3 DEF SshInv, ReaderOK, Active
<1> QED BY <1>2, <1>4 DEF SshInv

\* closeShell comes to its end: at once, or when the server has closed the channel.
LEMMA ShellEnds ==
  ASSUME SshInv, At("shell", closing), closing \in {"locking", "network"},
         sshMutex \in {0, Lvgl}, closing = "network" => session # 0,
         shellChannel' = 0, ~onData', sshMutex' = 0, NextStep,
         UNCHANGED <<session, connected, stopShell, shellHandle, fifo, script, reader, held,
                     sessions, execs>>
  PROVE  SshInv'
<1>1. /\ todo # <<>> /\ todo \in Calls /\ Head(todo) = "shell"
      /\ todo' = Tail(todo) /\ closing' = "ask"
  BY DEF At, Doing, NextStep, SshInv, CallOK
<1>2. PICK t : t = Tail(todo)
  OBVIOUS
<1>3. \/ todo \in FirstShell /\ t \in SecondShell
      \/ todo \in SecondShell /\ t \in FirstFree
      \/ todo \in ThirdShell /\ t \in SecondFree
      \/ todo \in LastShell /\ t \in Opening
      \/ todo \in LeavingShell /\ t \in LeavingFree
  BY <1>1, <1>2, CallHeads, CallSteps
<1>4. t \in Connecting => todo \in Connecting
  BY <1>1, <1>2, ConnectingSteps
<1>5. t \in Calls /\ t # <<>>
  BY <1>3, CallPlaces DEF Calls, Between
<1>6. SshKindsOK' /\ CallOK'
  BY <1>1, <1>2, <1>4, <1>5, SshNumbers DEF SshInv, SshKindsOK, CallOK
<1>7. MutexOK'
  BY <1>1, SshNumbers DEF SshInv, MutexOK
<1>8. SessionOK'
  BY <1>1, <1>2, <1>3, CallPlaces DEF SshInv, SessionOK, Between, Leaving
<1>9. ReaderOK'
  <2>1. todo \in ThirdShell => shellHandle = 0
    BY DEF SshInv, ReaderOK, SessionOK
  <2>2. t \notin ThirdShell /\ (t \in SecondFree => todo \in ThirdShell)
        /\ (t \in Opening => todo \in LastShell) /\ (t \in LeavingFree => todo \in LeavingShell)
        /\ t \notin LoggingIn \cup Authenticating \cup LastShell \cup LeavingShell
    BY <1>3, CallPlaces DEF Between, Leaving
  <2>3. t \in SecondFree \cup LoggingIn \cup Authenticating \cup LastShell \cup Opening \cup Leaving =>
          shellHandle = 0
    BY <2>1, <2>2 DEF SshInv, ReaderOK, Leaving
  <2> QED BY <1>1, <1>2, <2>2, <2>3 DEF SshInv, ReaderOK, Active
<1>10. FifoOK'
  BY <1>1, <1>2, <1>3, <1>5, CallPlaces DEF SshInv, FifoOK, Between
<1> QED BY <1>6, <1>7, <1>8, <1>9, <1>10 DEF SshInv

\* The terminal waits for the server, with the mutex.
LEMMA TerminalWaits ==
  ASSUME SshInv, todo # <<>>, Head(todo) \in {"shell", "free", "open"},
         Head(todo) = "shell" => closing # "ask", sshMutex = 0, session # 0,
         sshMutex' = Lvgl, closing' = "network",
         UNCHANGED <<session, connected, shellChannel, stopShell, shellHandle, onData, todo,
                     fifo, script, reader, held, sessions, execs>>
  PROVE  SshInv'
<1>1. SshKindsOK' /\ CallOK'
  BY SshNumbers DEF SshInv, SshKindsOK, CallOK
<1>2. MutexOK'
  BY SshNumbers DEF SshInv, MutexOK
<1>3. SessionOK' /\ ReaderOK' /\ FifoOK'
  BY DEF SshInv, SessionOK, ReaderOK, FifoOK, Active
<1> QED BY <1>1, <1>2, <1>3 DEF SshInv

LEMMA CloseLocksStep ==
  ASSUME SshInv, CloseLocks
  PROVE  SshInv'
<1>1. /\ At("shell", "locking") /\ closing = "locking" /\ sshMutex = 0
      /\ todo # <<>> /\ Head(todo) = "shell"
      /\ UNCHANGED <<session, connected, shellChannel, stopShell, shellHandle, fifo, script,
                     reader, held, sessions, execs>>
  BY DEF CloseLocks, At, Doing, readers, commands
<1>2. CASE shellChannel = 0
  BY <1>1, <1>2, ShellEnds DEF CloseLocks
<1>3. CASE shellChannel # 0
  <2>1. session # 0
    BY <1>3 DEF SshInv, SessionOK
  <2>2. sshMutex' = Lvgl /\ closing' = "network" /\ UNCHANGED <<onData, todo>>
    BY <1>3 DEF CloseLocks
  <2> QED BY <1>1, <2>1, <2>2, TerminalWaits
<1> QED BY <1>2, <1>3

LEMMA CloseFreesStep ==
  ASSUME SshInv, CloseFrees
  PROVE  SshInv'
<1>1. /\ At("shell", closing) /\ closing = "network"
      /\ shellChannel' = 0 /\ ~onData' /\ sshMutex' = 0 /\ NextStep
      /\ UNCHANGED <<session, connected, stopShell, shellHandle, fifo, script, reader, held,
                     sessions, execs>>
  BY DEF CloseFrees, At, readers, commands
<1>2. sshMutex = Lvgl /\ session # 0
  BY <1>1, SshNumbers DEF SshInv, MutexOK, SessionOK
<1> QED BY <1>1, <1>2, ShellEnds

LEMMA FreeAsksStep ==
  ASSUME SshInv, FreeAsks
  PROVE  SshInv'
<1>1. /\ todo # <<>> /\ todo \in Calls /\ Head(todo) = "free" /\ closing = "ask" /\ closing' = "locking"
      /\ UNCHANGED <<session, shellChannel, stopShell, shellHandle, onData, sshMutex, todo, fifo,
                     script, reader, held, sessions, execs>>
  BY DEF FreeAsks, At, Doing, readers, commands, SshInv, CallOK
<1>2. todo \in FirstFree \cup SecondFree \cup LeavingFree
  BY <1>1, CallHeads
<1>3. todo \notin {<<>>} \cup LastShell \cup Opening \cup ThirdShell
  BY <1>1, <1>2, CallPlaces DEF Between, Leaving
<1>4. SshKindsOK' /\ CallOK' /\ MutexOK'
  BY <1>1 DEF SshInv, SshKindsOK, CallOK, MutexOK
<1>5. SessionOK'
  BY <1>1, <1>3 DEF SshInv, SessionOK
<1>6. ReaderOK' /\ FifoOK'
  BY <1>1, <1>3 DEF SshInv, ReaderOK, FifoOK, Active
<1> QED BY <1>4, <1>5, <1>6 DEF SshInv

\* disconnect comes to its end: without a session, or when that is taken down.
LEMMA SessionEnds ==
  ASSUME SshInv, Doing("free"), sshMutex \in {0, Lvgl},
         session' = 0, sshMutex' = 0, NextStep,
         UNCHANGED <<connected, shellChannel, stopShell, shellHandle, onData, fifo, script,
                     reader, held, sessions, execs>>
  PROVE  SshInv'
<1>1. /\ todo # <<>> /\ todo \in Calls /\ Head(todo) = "free"
      /\ todo' = Tail(todo) /\ closing' = "ask"
  BY DEF Doing, NextStep, SshInv, CallOK
<1>2. PICK t : t = Tail(todo)
  OBVIOUS
<1>3. \/ todo \in FirstFree /\ t \in Clearing
      \/ todo \in SecondFree /\ t \in LoggingIn
      \/ todo \in LeavingFree /\ t = <<>>
  BY <1>1, <1>2, CallHeads, CallSteps
<1>4. t \in Connecting => todo \in Connecting
  BY <1>1, <1>2, ConnectingSteps
<1>5. t \in Calls
  BY <1>3 DEF Calls
<1>6. SshKindsOK' /\ CallOK'
  BY <1>1, <1>2, <1>4, <1>5, SshNumbers DEF SshInv, SshKindsOK, CallOK
<1>7. MutexOK'
  BY <1>1, SshNumbers DEF SshInv, MutexOK
<1>8. shellChannel = 0 /\ ~onData
  BY <1>3 DEF SshInv, SessionOK, FifoOK, Between, Leaving
<1>9. t \notin LastShell \cup Opening \cup Authenticating \cup Leaving \cup ThirdShell \cup SecondFree
  BY <1>3, CallPlaces DEF Between, Leaving
<1>10. SessionOK'
  BY <1>1, <1>2, <1>8, <1>9 DEF SshInv, SessionOK
<1>11. ReaderOK'
  BY <1>1, <1>2, <1>3, <1>9, CallPlaces DEF SshInv, ReaderOK, Between, Active
<1>12. FifoOK'
  <2>1. t \in Between \/ t = <<>> => fifo = <<>>
    BY <1>3, CallPlaces DEF SshInv, FifoOK, Between
  <2> QED BY <1>1, <1>2, <1>8, <2>1 DEF FifoOK
<1> QED BY <1>6, <1>7, <1>10, <1>11, <1>12 DEF SshInv

LEMMA FreeLocksStep ==
  ASSUME SshInv, FreeLocks
  PROVE  SshInv'
<1>1. /\ Doing("free") /\ todo # <<>> /\ Head(todo) = "free" /\ sshMutex = 0
      /\ UNCHANGED <<session, connected, shellChannel, stopShell, shellHandle, onData, fifo,
                     script, reader, held, sessions, execs>>
  BY DEF FreeLocks, At, Doing, readers, commands
<1>2. CASE session = 0
  BY <1>1, <1>2, SessionEnds DEF FreeLocks
<1>3. CASE session # 0
  <2>1. sshMutex' = Lvgl /\ closing' = "network" /\ UNCHANGED todo
    BY <1>3 DEF FreeLocks
  <2> QED BY <1>1, <1>3, <2>1, TerminalWaits
<1> QED BY <1>2, <1>3

LEMMA FreeSessionStep ==
  ASSUME SshInv, FreeSession
  PROVE  SshInv'
<1>1. /\ Doing("free") /\ closing = "network" /\ session' = 0 /\ sshMutex' = 0 /\ NextStep
      /\ UNCHANGED <<connected, shellChannel, stopShell, shellHandle, onData, fifo, script,
                     reader, held, sessions, execs>>
  BY DEF FreeSession, At, readers, commands
<1>2. sshMutex = Lvgl
  BY <1>1 DEF SshInv, MutexOK
<1> QED BY <1>1, <1>2, SessionEnds

LEMMA ClearFifoStep ==
  ASSUME SshInv, ClearFifo
  PROVE  SshInv'
<1>1. /\ todo # <<>> /\ todo \in Calls /\ Head(todo) = "clear" /\ fifo' = <<>> /\ todo' = Tail(todo)
      /\ closing' = "ask"
      /\ UNCHANGED <<session, connected, shellChannel, stopShell, shellHandle, onData, sshMutex,
                     script, reader, held, sessions, execs>>
  BY DEF ClearFifo, Doing, NextStep, readers, commands, sshClient, SshInv, CallOK
<1>2. PICK t : t = Tail(todo)
  OBVIOUS
<1>3. todo \in Clearing /\ t \in {<<>>} \cup ThirdShell
  BY <1>1, <1>2, CallHeads, CallSteps
<1>4. t \in Connecting => todo \in Connecting
  BY <1>1, <1>2, ConnectingSteps
<1>5. t \in Calls /\ closing = "ask" /\ session = 0 /\ ~onData
  BY <1>1, <1>3, CallPlaces DEF Calls, SshInv, CallOK, SshKindsOK, SessionOK
<1>6. SshKindsOK' /\ CallOK' /\ MutexOK'
  <2>1. fifo' \in Seq(Shell) /\ Len(fifo') = 0
    BY <1>1
  <2> QED BY <1>1, <1>2, <1>4, <1>5, <2>1, SshNumbers DEF SshInv, SshKindsOK, CallOK, MutexOK
<1>7. t \notin FirstFree \cup SecondFree \cup LoggingIn \cup Authenticating \cup LastShell
            \cup Opening \cup Leaving
  BY <1>3, CallPlaces DEF Between, Leaving
<1>8. SessionOK'
  BY <1>1, <1>2, <1>5, <1>7 DEF SshInv, SessionOK
<1>9. ReaderOK'
  BY <1>1, <1>2, <1>5, <1>7 DEF SshInv, ReaderOK, Active
<1>10. FifoOK'
  BY <1>1, <1>2, <1>3, <1>5, CallPlaces DEF SshInv, FifoOK
<1> QED BY <1>6, <1>8, <1>9, <1>10 DEF SshInv

LEMMA LoginCall == \A t \in LoggingIn : <<"auth">> \o Tail(t) \in Authenticating
<1>1. <<"auth">> \o <<"shell", "open">> = <<"auth", "shell", "open">>
  <2> DEFINE s == <<"auth">>
             t == <<"shell", "open">>
             u == <<"auth", "shell", "open">>
  <2>1. s \in Seq(Word) /\ t \in Seq(Word) /\ u \in Seq(Word) /\ Len(u) = Len(s) + Len(t)
    BY DEF Word
  <2>2. \A i \in 1..Len(s) : u[i] = s[i]
    OBVIOUS
  <2>3. \A i \in 1..Len(t) : u[Len(s) + i] = t[i]
    OBVIOUS
  <2> HIDE DEF s, t, u
  <2> QED BY <2>1, <2>2, <2>3, Joined DEF s, t, u
<1> QED BY <1>1, CallTails DEF LoggingIn, Authenticating

LEMMA LoginStep ==
  ASSUME SshInv, Login
  PROVE  SshInv'
<1>1. /\ todo # <<>> /\ todo \in Calls /\ Head(todo) = "login"
      /\ \/ session' = sessions + 1 /\ sessions' = sessions + 1 /\ todo' = <<"auth">> \o Tail(todo)
         \/ todo' = <<>> /\ UNCHANGED <<session, sessions>>
      /\ UNCHANGED <<connected, shellChannel, stopShell, shellHandle, onData, sshMutex, closing,
                     fifo, script, reader, held, execs>>
  BY DEF Login, Doing, readers, commands, SshInv, CallOK
<1>2. PICK t : t = <<"auth">> \o Tail(todo)
  OBVIOUS
<1>3. todo \in LoggingIn /\ t \in Authenticating /\ todo \in Connecting
  BY <1>1, <1>2, CallHeads, LoginCall DEF Connecting
<1>4. t \notin Connecting /\ t \in Calls /\ t # <<>>
  <2>1. <<"auth", "shell", "open">> \notin Connecting
    BY DEF Connecting, ThirdShell, SecondFree, LoggingIn
  <2> QED BY <1>3, <2>1, CallPlaces DEF Authenticating, Calls, Between
<1>5. <<>> \notin Connecting /\ <<>> \in Calls
  BY DEF Connecting, ThirdShell, SecondFree, LoggingIn, Calls
<1>6. /\ closing = "ask" /\ session = 0 /\ ~onData /\ fifo = <<>> /\ shellChannel = 0 /\ shellHandle = 0
      /\ sessions \in Nat /\ sessions < MaxSessions /\ MaxSessions \in Nat /\ sshMutex = 0
  BY <1>1, <1>3, CallPlaces, SshNumbers
     DEF SshInv, CallOK, SshKindsOK, SessionOK, ReaderOK, FifoOK, Between
<1>7. SshKindsOK' /\ CallOK' /\ MutexOK'
  BY <1>1, <1>2, <1>4, <1>5, <1>6 DEF SshInv, SshKindsOK, CallOK, MutexOK
<1>8. SessionOK'
  <2>1. CASE session' = sessions + 1 /\ sessions' = sessions + 1 /\ todo' = <<"auth">> \o Tail(todo)
    <3>1. t \notin {<<>>} \cup Clearing \cup ThirdShell \cup SecondFree \cup LoggingIn \cup LastShell
              \cup Opening
      BY <1>3, CallPlaces DEF Between
    <3> QED BY <1>1, <1>2, <1>6, <2>1, <3>1 DEF SessionOK
  <2>2. CASE todo' = <<>> /\ UNCHANGED <<session, sessions>>
    BY <1>1, <1>6, <2>2, CallPlaces DEF SessionOK, Between, Leaving
  <2> QED BY <1>1, <2>1, <2>2
<1>9. ReaderOK'
  <2>1. \A r \in Shell : ~Active(r)' /\ reader'[r] # "got"
    BY <1>1, <1>6, SshNumbers DEF SshInv, ReaderOK, Active
  <2> QED BY <1>1, <1>6, <2>1, SshNumbers DEF ReaderOK
<1>10. FifoOK'
  BY <1>1, <1>6 DEF FifoOK
<1> QED BY <1>7, <1>8, <1>9, <1>10 DEF SshInv

\* The session is authenticated, or what there is of it is taken down.
LEMMA AuthenticateStep ==
  ASSUME SshInv, Authenticate
  PROVE  SshInv'
<1>1. /\ todo # <<>> /\ todo \in Calls /\ Head(todo) = "auth"
      /\ (todo' = Tail(todo) /\ connected') \/ todo' = Disconnect
      /\ UNCHANGED <<session, shellChannel, stopShell, shellHandle, onData, sshMutex, closing,
                     fifo, script, reader, held, sessions, execs>>
  BY DEF Authenticate, Doing, readers, commands, SshInv, CallOK
<1>2. PICK t : t = todo'
  OBVIOUS
<1>3. todo \in Authenticating /\ ((t \in LastShell /\ connected') \/ t \in LeavingShell)
  BY <1>1, <1>2, CallHeads, CallSteps DEF Disconnect, LeavingShell
<1>4. t \notin Connecting /\ t \in Calls /\ t # <<>>
  <2>1. <<"shell", "open">> \notin Connecting /\ <<"shell", "free">> \notin Connecting
    BY DEF Connecting, ThirdShell, SecondFree, LoggingIn
  <2> QED BY <1>3, <2>1, CallPlaces DEF LastShell, LeavingShell, Calls, Between
<1>5. /\ closing = "ask" /\ session # 0 /\ ~onData /\ fifo = <<>> /\ shellChannel = 0
      /\ shellHandle = 0
  BY <1>1, <1>3, CallPlaces DEF SshInv, CallOK, SshKindsOK, SessionOK, ReaderOK, FifoOK, Between
<1>6. SshKindsOK' /\ CallOK' /\ MutexOK'
  BY <1>1, <1>2, <1>4, <1>5 DEF SshInv, SshKindsOK, CallOK, MutexOK
<1>7. t \notin Clearing \cup ThirdShell \cup SecondFree \cup LoggingIn \cup Opening
      /\ (t \in LastShell => connected')
  BY <1>3, CallPlaces DEF Between, Leaving
<1>8. SessionOK'
  BY <1>1, <1>2, <1>4, <1>5, <1>7 DEF SshInv, SessionOK
<1>9. ReaderOK'
  BY <1>1, <1>5 DEF SshInv, ReaderOK, Active
<1>10. FifoOK'
  BY <1>1, <1>2, <1>4, <1>5 DEF SshInv, FifoOK
<1> QED BY <1>6, <1>8, <1>9, <1>10 DEF SshInv

LEMMA OpenLocksStep ==
  ASSUME SshInv, OpenLocks
  PROVE  SshInv'
<1>1. /\ todo # <<>> /\ todo \in Calls /\ Head(todo) = "open" /\ sshMutex = 0
      /\ sshMutex' = Lvgl /\ closing' = "network"
      /\ UNCHANGED <<session, connected, shellChannel, stopShell, shellHandle, onData, todo, fifo,
                     script, reader, held, sessions, execs>>
  BY DEF OpenLocks, At, Doing, readers, commands, SshInv, CallOK
<1>2. session # 0
  BY <1>1, CallHeads DEF SshInv, SessionOK
<1> QED BY <1>1, <1>2, TerminalWaits

LEMMA OpenShellStep ==
  ASSUME SshInv, OpenShell
  PROVE  SshInv'
<1>1. /\ todo # <<>> /\ todo \in Calls /\ Head(todo) = "open" /\ closing = "network"
      /\ shellChannel' = session /\ todo' = Tail(todo) /\ closing' = "ask" /\ sshMutex' = 0
      /\ \/ reader' = [reader EXCEPT ![session] = "test"] /\ shellHandle' = session
         \/ UNCHANGED <<reader, shellHandle>>
      /\ UNCHANGED <<session, connected, fifo, script, held, sessions, execs>>
  BY DEF OpenShell, At, Doing, NextStep, commands, SshInv, CallOK
<1>2. todo \in Opening /\ todo' = <<>> /\ <<>> \in Calls /\ <<>> \notin Connecting
  BY <1>1, CallHeads, CallSteps DEF Calls, Connecting, ThirdShell, SecondFree, LoggingIn
<1>3. /\ session # 0 /\ connected /\ fifo = <<>> /\ shellHandle = 0 /\ session \in Shell
      /\ sshMutex = Lvgl
  BY <1>1, <1>2, CallPlaces, SshNumbers
     DEF SshInv, MutexOK, SshKindsOK, SessionOK, ReaderOK, FifoOK, Between
<1>4. \A r \in Shell : ~Active(r) /\ reader[r] \notin {"blocked", "got"}
  BY <1>3, SshNumbers DEF SshInv, ReaderOK, Active
<1>5. todo' \notin SecondShell \cup FirstFree \cup Clearing \cup Between
  BY <1>2, CallPlaces
<1>6. reader \in [Shell -> {"none", "test", "read", "blocked", "got", "select", "end", "done"}]
  BY DEF SshInv, SshKindsOK
<1>7. SshKindsOK'
  <2>1. reader' \in [Shell -> {"none", "test", "read", "blocked", "got", "select", "end", "done"}]
    BY <1>1, <1>6
  <2> QED BY <1>1, <1>3, <2>1, SshNumbers DEF SshInv, SshKindsOK
<1>8. CallOK'
  BY <1>1, <1>2, <1>3 DEF CallOK
<1>9. MutexOK'
  <2>1. script # "running"
    BY <1>3, SshNumbers DEF SshInv, MutexOK
  <2> QED BY <1>1, <1>3, <1>4, <1>6, <2>1, SshNumbers DEF MutexOK
<1>10. SessionOK'
  BY <1>1, <1>3, <1>5 DEF SshInv, SessionOK, Between, Leaving
<1>11. FifoOK'
  BY <1>1, <1>3, <1>5 DEF FifoOK
<1>12. ReaderOK'
  BY <1>1, <1>3, <1>4, <1>5, <1>6, SshNumbers DEF ReaderOK, Active, Between, Leaving
<1> QED BY <1>7, <1>8, <1>9, <1>10, <1>11, <1>12 DEF SshInv

LEMMA OpenFailsStep ==
  ASSUME SshInv, OpenFails
  PROVE  SshInv'
<1>1. /\ todo # <<>> /\ todo \in Calls /\ Head(todo) = "open" /\ closing = "network"
      /\ todo' = CloseAdapter /\ closing' = "ask" /\ sshMutex' = 0
      /\ UNCHANGED <<session, connected, shellChannel, stopShell, shellHandle, onData,
                     fifo, script, reader, held, sessions, execs>>
  BY DEF OpenFails, At, Doing, SshInv, CallOK, readers, commands
<1>2. todo \in Opening
  BY <1>1, CallHeads
<1>3. session # 0 /\ connected /\ sshMutex = Lvgl
  BY <1>1, <1>2 DEF SshInv, MutexOK, SessionOK
<1>4. PICK t : t = todo'
  OBVIOUS
<1>5. t \in FirstShell /\ t \in Calls /\ t \notin Connecting
  BY <1>1, <1>3, <1>4, CallsBegin DEF Calls
<1>6. t # <<>> /\ t \notin SecondShell \cup FirstFree \cup Clearing \cup Between
  BY <1>5, CallPlaces
<1>7. SshKindsOK' /\ CallOK'
  BY <1>1, <1>4, <1>5, SshNumbers DEF SshInv, SshKindsOK, CallOK
<1>8. MutexOK'
  BY <1>1, <1>3, SshNumbers DEF SshInv, MutexOK
<1>9. SessionOK' /\ FifoOK'
  BY <1>1, <1>3, <1>4, <1>6 DEF SshInv, SessionOK, FifoOK, Between, Leaving
<1>10. ReaderOK'
  BY <1>1, <1>4, <1>6 DEF SshInv, ReaderOK, Between, Leaving, Active
<1> QED BY <1>7, <1>8, <1>9, <1>10 DEF SshInv

LEMMA PumpStreamStep ==
  ASSUME SshInv, PumpStream
  PROVE  SshInv'
<1>1. /\ todo = <<>> /\ fifo # <<>> /\ fifo' = Tail(fifo) /\ fifo \in Seq(Shell) /\ Len(fifo) <= FifoSize
      /\ UNCHANGED <<session, connected, shellChannel, stopShell, shellHandle, onData, sshMutex, todo,
                     closing, reader,
                     held, sessions, script, execs>>
  BY DEF PumpStream, sshClient, terminal, readers, commands, SshInv, SshKindsOK
<1>2. /\ fifo' \in Seq(Shell) /\ Len(fifo') <= FifoSize
      /\ \A i \in DOMAIN fifo' : i + 1 \in DOMAIN fifo /\ fifo'[i] = fifo[i + 1]
  BY <1>1, SshNumbers
<1>3. SshKindsOK' /\ CallOK' /\ MutexOK' /\ SessionOK' /\ ReaderOK'
  BY <1>1, <1>2 DEF SshInv, SshKindsOK, CallOK, MutexOK, SessionOK, ReaderOK, Active
<1>4. FifoOK'
  BY <1>1, <1>2, CallPlaces DEF SshInv, FifoOK
<1> QED BY <1>3, <1>4 DEF SshInv

LEMMA ScriptSteps ==
  ASSUME SshInv, ExecChecks \/ ExecLocks \/ ExecEnds
  PROVE  SshInv'
<1>1. /\ UNCHANGED <<session, connected, shellChannel, stopShell, shellHandle, onData, fifo, todo,
                     closing, reader, held, sessions>>
      /\ script' \in {"idle", "checked", "running"}
  BY DEF ExecChecks, ExecLocks, ExecEnds, sshClient, terminal, readers
<1>2. /\ sshMutex' \in {0, Script} \/ UNCHANGED sshMutex
      /\ sshMutex' # 0 => session # 0
      /\ sshMutex' = Script <=> script' = "running"
      /\ UNCHANGED sshMutex \/ {sshMutex, sshMutex'} \subseteq {0, Script}
  <2>1. CASE ExecChecks
    BY <2>1 DEF ExecChecks, sshClient, SshInv, MutexOK, SessionOK
  <2>2. CASE ExecLocks
    BY <2>2, SshNumbers DEF ExecLocks
  <2>3. CASE ExecEnds
    BY <2>3, SshNumbers DEF ExecEnds, SshInv, MutexOK
  <2> QED BY <2>1, <2>2, <2>3
<1>3. execs' \in 0..MaxExecs
  BY SshNumbers DEF ExecChecks, ExecLocks, ExecEnds, SshInv, SshKindsOK
<1>4. SshKindsOK' /\ CallOK' /\ ReaderOK' /\ FifoOK'
  BY <1>1, <1>2, <1>3, SshNumbers DEF SshInv, SshKindsOK, CallOK, ReaderOK, Active, FifoOK
<1>5. SessionOK'
  BY <1>1, <1>2 DEF SshInv, SessionOK
<1>6. MutexOK'
  BY <1>1, <1>2, SshNumbers DEF SshInv, MutexOK
<1> QED BY <1>4, <1>5, <1>6 DEF SshInv

\* A board that starts again has no reader and no session.
LEMMA ExecPanicsStep ==
  ASSUME SshInv, ExecPanics
  PROVE  SshInv'
<1>1. /\ session = 0 /\ session' = 0 /\ sshMutex = 0 /\ sshMutex' = 0
      /\ shellChannel' = 0 /\ ~onData' /\ shellHandle' = 0
      /\ fifo' = <<>> /\ todo' = <<>> /\ closing' = "ask" /\ script' = "idle"
      /\ reader' = [r \in Shell |-> IF reader[r] = "none" THEN "none" ELSE "done"]
      /\ UNCHANGED <<held, sessions, execs>>
  BY DEF ExecPanics
<1>2. <<>> \notin Connecting /\ <<>> \in Calls /\ <<>> \in Seq(Shell) /\ Len(<<>>) = 0
  BY DEF Connecting, ThirdShell, SecondFree, LoggingIn, Calls
<1>3. todo' \notin FirstShell \cup SecondShell \cup FirstFree \cup Clearing \cup Between
  BY <1>1, CallPlaces
<1>4. \A r \in Shell : ~Active(r)' /\ reader'[r] \in {"none", "done"}
  BY <1>1 DEF Active
<1>5. SshKindsOK'
  BY <1>1, <1>2, <1>4, SshNumbers DEF SshInv, SshKindsOK
<1>6. CallOK' /\ MutexOK'
  BY <1>1, <1>2, <1>4, SshNumbers DEF CallOK, MutexOK
<1>7. SessionOK' /\ FifoOK'
  BY <1>1, <1>3 DEF SshInv, SessionOK, FifoOK, Between, Leaving
<1>8. ReaderOK'
  BY <1>1, <1>3, <1>4, SshNumbers DEF ReaderOK, Between
<1> QED BY <1>5, <1>6, <1>7, <1>8 DEF SshInv

\* A step of a reader that has neither the mutex nor a block after it.
LEMMA ReaderMoves ==
  ASSUME SshInv, NEW r \in Shell, NEW where \in {"test", "read", "select", "end"},
         ReaderGoto(r, where), Active(r), reader[r] # "blocked",
         fifo' \in Seq(Shell), Len(fifo') <= FifoSize,
         UNCHANGED <<session, connected, shellChannel, stopShell, shellHandle, onData, sshMutex, todo, closing,
                     held, sessions, script, execs>>
  PROVE  SshKindsOK' /\ CallOK' /\ MutexOK' /\ SessionOK' /\ ReaderOK'
<1>1. /\ reader' = [reader EXCEPT ![r] = where]
      /\ reader \in [Shell -> {"none", "test", "read", "blocked", "got", "select", "end", "done"}]
  BY DEF ReaderGoto, SshInv, SshKindsOK
<1>2. \A s \in Shell : reader'[s] = IF s = r THEN where ELSE reader[s]
  BY <1>1
<1>3. SshKindsOK' /\ CallOK' /\ SessionOK'
  BY <1>1 DEF SshInv, SshKindsOK, CallOK, SessionOK
<1>4. MutexOK'
  BY <1>2 DEF SshInv, MutexOK
<1>5. ReaderOK'
  BY <1>2 DEF SshInv, ReaderOK, Active
<1> QED BY <1>3, <1>4, <1>5

\* A block that is taken is of the session of its reader.
LEMMA ReaderReadsStep ==
  ASSUME SshInv, NEW r \in Shell, ReaderReads(r)
  PROVE  SshInv'
<1> DEFINE places == {"none", "test", "read", "blocked", "got", "select", "end", "done"}
<1>1. /\ UNCHANGED <<session, connected, shellChannel, stopShell, shellHandle, onData, fifo, todo, closing,
                     sessions, script, execs>>
      /\ reader \in [Shell -> places] /\ held \in [Shell -> 0..MaxSessions]
      /\ sshMutex = r <=> reader[r] = "blocked"
      /\ fifo \in Seq(Shell) /\ Len(fifo) <= FifoSize
  BY DEF ReaderReads, terminal, commands, SshInv, SshKindsOK, MutexOK
<1>2. /\ Active(r) /\ reader[r] \in {"read", "blocked"} /\ sshMutex \in {0, r}
      /\ shellHandle = r /\ session \in {0, r}
  BY <1>1 DEF ReaderReads, SshInv, MutexOK, ReaderOK, Active
<1>3. FifoOK'
  BY <1>1 DEF SshInv, FifoOK
<1>4. CASE shellChannel = 0
  <2>1. reader[r] = "read" /\ ReaderGoto(r, "select") /\ UNCHANGED <<held, sshMutex>>
    BY <1>2, <1>4 DEF ReaderReads, SshInv, MutexOK
  <2> QED BY <1>1, <1>2, <1>3, <2>1, ReaderMoves DEF SshInv
<1>5. CASE shellChannel # 0
  <2>1. shellChannel = r /\ session = r
    BY <1>2, <1>5 DEF SshInv, SessionOK
  <2>2. \/ /\ ReaderGoto(r, "got") /\ held' = [held EXCEPT ![r] = shellChannel] /\ sshMutex' = 0
        \/ held' = held /\ ReaderGoto(r, "end") /\ sshMutex' = 0
        \/ held' = held /\ reader[r] = "read" /\ ReaderGoto(r, "blocked") /\ sshMutex' = r
        \/ held' = held /\ reader[r] = "read" /\ ReaderGoto(r, "select") /\ sshMutex' = sshMutex
    BY <1>5 DEF ReaderReads
  <2>3. PICK where \in {"got", "end", "blocked", "select"} :
          /\ reader' = [reader EXCEPT ![r] = where]
          /\ where = "got" => held' = [held EXCEPT ![r] = r]
          /\ where # "got" => held' = held
          /\ sshMutex' = IF where = "blocked" THEN r ELSE 0
    BY <1>1, <1>2, <2>1, <2>2 DEF ReaderGoto
  <2>4. \A s \in Shell : reader'[s] = IF s = r THEN where ELSE reader[s]
    BY <1>1, <2>3
  <2>5. SshKindsOK'
    BY <1>1, <2>3, SshNumbers DEF SshInv, SshKindsOK
  <2>6. MutexOK'
    <3>1. \A s \in Shell : s # r => reader[s] # "blocked"
      BY <1>2, SshNumbers DEF SshInv, MutexOK
    <3>2. sshMutex \notin {Lvgl, Script} /\ sshMutex' \notin {Lvgl, Script}
      BY <1>2, <2>3, SshNumbers
    <3>3. closing # "network" /\ script # "running"
      BY <3>2 DEF SshInv, MutexOK
    <3> QED BY <1>1, <1>5, <2>3, <2>4, <3>1, <3>2, <3>3, SshNumbers DEF MutexOK
  <2>7. SessionOK' /\ CallOK'
    BY <1>1, <2>1, SshNumbers DEF SshInv, SessionOK, CallOK
  <2>8. ReaderOK'
    BY <1>1, <1>2, <2>3, <2>4 DEF SshInv, ReaderOK, Active
  <2> QED BY <1>3, <2>5, <2>6, <2>7, <2>8 DEF SshInv
<1> QED BY <1>4, <1>5

LEMMA AppendCells ==
  ASSUME NEW S, NEW s \in Seq(S), NEW e \in S
  PROVE  \A i \in DOMAIN Append(s, e) :
           (i \in DOMAIN s /\ Append(s, e)[i] = s[i]) \/ Append(s, e)[i] = e
OBVIOUS

\* What is appended to the FIFO is of the session the terminal shows.
LEMMA ReaderDeliversStep ==
  ASSUME SshInv, NEW r \in Shell, ReaderDelivers(r)
  PROVE  SshInv'
<1> DEFINE kept == IF Len(fifo) = FifoSize THEN Tail(fifo) ELSE fifo
<1>1. /\ reader[r] = "got" /\ ReaderGoto(r, "test")
      /\ fifo' = IF ~onData THEN fifo ELSE Append(kept, held[r])
      /\ UNCHANGED <<session, connected, shellChannel, stopShell, shellHandle, onData, sshMutex, todo,
                     closing, held, sessions, script, execs>>
      /\ fifo \in Seq(Shell) /\ Len(fifo) <= FifoSize
  BY DEF ReaderDelivers, sshClient, terminal, commands, SshInv, SshKindsOK
<1>2. held[r] = r /\ session \in {0, r} /\ Active(r)
  BY <1>1 DEF SshInv, ReaderOK, Active
<1>3. /\ kept \in Seq(Shell) /\ Len(kept) < FifoSize
      /\ \A i \in DOMAIN kept : \E j \in DOMAIN fifo : kept[i] = fifo[j]
  <2>1. CASE Len(fifo) = FifoSize
    <3>1. fifo # <<>>
      BY <1>1, <2>1, SshNumbers
    <3>2. \A i \in DOMAIN Tail(fifo) : i + 1 \in DOMAIN fifo /\ Tail(fifo)[i] = fifo[i + 1]
      BY <1>1, <3>1
    <3> QED BY <1>1, <2>1, <3>1, <3>2, SshNumbers
  <2>2. CASE Len(fifo) # FifoSize
    BY <1>1, <2>2, SshNumbers
  <2> QED BY <2>1, <2>2
<1> HIDE DEF kept
<1>4. fifo' \in Seq(Shell) /\ Len(fifo') <= FifoSize
  <2>1. Append(kept, r) \in Seq(Shell) /\ Len(Append(kept, r)) = Len(kept) + 1 /\ Len(kept) \in Nat
    BY <1>3
  <2>2. fifo' = fifo \/ fifo' = Append(kept, r)
    BY <1>1, <1>2
  <2>3. Len(kept) + 1 <= FifoSize
    BY <1>3, <2>1, SshNumbers
  <2> QED BY <1>1, <2>1, <2>2, <2>3
<1>5. SshKindsOK' /\ CallOK' /\ MutexOK' /\ SessionOK' /\ ReaderOK'
  BY <1>1, <1>2, <1>4, ReaderMoves
<1>6. FifoOK'
  <2>1. CASE ~onData
    BY <1>1, <2>1 DEF SshInv, FifoOK
  <2>2. CASE onData
    <3>1. session = r
      BY <1>2, <2>2 DEF SshInv, SessionOK
    <3>2. todo = <<>> => \A i \in DOMAIN kept : kept[i] = session
      BY <1>3 DEF SshInv, FifoOK
    <3>3. \A i \in DOMAIN fifo' : (i \in DOMAIN kept /\ fifo'[i] = kept[i]) \/ fifo'[i] = r
      <4>1. fifo' = Append(kept, r) /\ Len(kept) \in Nat
        BY <1>1, <1>2, <1>3, <2>2
      <4>2. \A i \in DOMAIN Append(kept, r) :
              (i \in DOMAIN kept /\ Append(kept, r)[i] = kept[i]) \/ Append(kept, r)[i] = r
        BY <1>3, AppendCells
      <4> QED BY <4>1, <4>2
    <3> QED BY <1>1, <2>2, <3>1, <3>2, <3>3 DEF SshInv, FifoOK
  <2> QED BY <2>1, <2>2
<1> QED BY <1>5, <1>6 DEF SshInv

LEMMA ReaderEndsStep ==
  ASSUME SshInv, NEW r \in Shell, ReaderEnds(r)
  PROVE  SshInv'
<1>1. /\ reader[r] = "end" /\ reader' = [reader EXCEPT ![r] = "done"] /\ shellHandle' = 0
      /\ UNCHANGED <<session, connected, shellChannel, stopShell, onData, sshMutex, fifo, todo, closing, held, sessions, script, execs>>
      /\ reader \in [Shell -> {"none", "test", "read", "blocked", "got", "select", "end", "done"}]
  BY DEF ReaderEnds, ReaderGoto, terminal, commands, SshInv, SshKindsOK
<1>2. \A s \in Shell : reader'[s] = IF s = r THEN "done" ELSE reader[s]
  BY <1>1
<1>3. SshKindsOK' /\ CallOK' /\ SessionOK' /\ FifoOK'
  BY <1>1, SshNumbers DEF SshInv, SshKindsOK, CallOK, SessionOK, FifoOK
<1>4. MutexOK'
  BY <1>1, <1>2 DEF SshInv, MutexOK
<1>5. ReaderOK'
  <2>1. shellHandle = r /\ \A s \in Shell : s # r => ~Active(s)
    BY <1>1 DEF SshInv, ReaderOK, Active
  <2> QED BY <1>1, <1>2, <2>1, SshNumbers DEF SshInv, ReaderOK, Active
<1> QED BY <1>3, <1>4, <1>5 DEF SshInv

LEMMA SshInvStep ==
  ASSUME SshInv, [NextSsh]_sshVars
  PROVE  SshInv'
<1>1. CASE UserCloses \/ UserConnects
  BY <1>1, UserSteps
<1>2. CASE TerminalStep \/ TerminalAnswered
  BY <1>2, CloseAsksStep, CloseWaitedStep, CloseLocksStep, CloseFreesStep, FreeAsksStep,
     FreeLocksStep, FreeSessionStep, ClearFifoStep, LoginStep, AuthenticateStep, OpenLocksStep,
     OpenShellStep, OpenFailsStep DEF TerminalStep, TerminalAnswered
<1>3. CASE PumpStream
  BY <1>3, PumpStreamStep
<1>4. CASE ExecChecks \/ ExecLocks \/ ExecPanics \/ ExecEnds
  BY <1>4, ScriptSteps, ExecPanicsStep
<1>5. CASE ServerActs \/ UNCHANGED sshVars
  BY <1>5, SshElsewhere
     DEF ServerActs, sshVars, sshClient, terminal, readers, commands, SshInv, SshKindsOK
<1>6. ASSUME NEW r \in Shell, ReaderStep(r) PROVE SshInv'
  <2>1. CASE ReaderTests(r) \/ ReaderSelects(r)
    <3>1. /\ \E where \in {"test", "read", "select", "end"} : ReaderGoto(r, where)
          /\ Active(r) /\ reader[r] # "blocked"
          /\ UNCHANGED <<session, connected, shellChannel, stopShell, shellHandle, onData, sshMutex,
                         fifo, todo, closing, held, sessions, script, execs>>
      BY <2>1 DEF ReaderTests, ReaderSelects, sshClient, terminal, commands, Active
    <3>2. SshKindsOK' /\ CallOK' /\ MutexOK' /\ SessionOK' /\ ReaderOK'
      BY <3>1, ReaderMoves DEF SshInv, SshKindsOK
    <3>3. FifoOK'
      BY <3>1 DEF SshInv, FifoOK
    <3> QED BY <3>2, <3>3 DEF SshInv
  <2>2. CASE ReaderReads(r)
    BY <2>2, ReaderReadsStep
  <2>3. CASE ReaderDelivers(r)
    BY <2>3, ReaderDeliversStep
  <2>4. CASE ReaderEnds(r)
    BY <2>4, ReaderEndsStep
  <2> QED BY <1>6, <2>1, <2>2, <2>3, <2>4 DEF ReaderStep
<1> QED BY <1>1, <1>2, <1>3, <1>4, <1>5, <1>6 DEF NextSsh

LEMMA SshInvariant == SpecSsh => [](SshFlagsOK /\ SshInv)
<1>1. InitSsh => SshFlagsOK
  BY DEF InitSsh, SshFlagsOK
<1>2. InitSsh => SshInv
  <2> SUFFICES ASSUME InitSsh PROVE SshInv
    OBVIOUS
  <2>2. <<>> \notin Connecting /\ <<>> \in Calls /\ <<>> \in Seq(Shell) /\ Len(<<>>) = 0
    BY DEF Connecting, ThirdShell, SecondFree, LoggingIn, Calls
  <2>3. todo \notin FirstShell \cup SecondShell \cup FirstFree \cup Clearing \cup Between
    BY CallPlaces DEF InitSsh
  <2>4. SshKindsOK
    BY <2>2, SshNumbers DEF InitSsh, SshKindsOK
  <2>5. CallOK /\ MutexOK
    BY <2>2, SshNumbers DEF InitSsh, CallOK, MutexOK
  <2>6. SessionOK
    BY <2>3, SshNumbers DEF InitSsh, SessionOK, Between, Leaving
  <2>7. ReaderOK
    BY <2>3, SshNumbers DEF InitSsh, ReaderOK, Active, Between, Leaving
  <2>8. FifoOK
    BY <2>3 DEF InitSsh, FifoOK
  <2> QED BY <2>4, <2>5, <2>6, <2>7, <2>8 DEF SshInv
<1>3. SshFlagsOK /\ [NextSsh]_sshVars => SshFlagsOK'
  BY SshFlagsStep
<1>4. SshInv /\ [NextSsh]_sshVars => SshInv'
  BY SshInvStep
<1> QED BY <1>1, <1>2, <1>3, <1>4, PTL DEF SpecSsh

\* Every variable of the remote terminal keeps its type: the channel is the one of the
\* session or none, and the FIFO never holds more than MAX_FIFO_SIZE (SshStreamAdapter,
\* hal_ssh_p4.cpp).
THEOREM SshTypes == SpecSsh => []SshTypeOK
<1>1. ASSUME SshFlagsOK, SshInv PROVE SshTypeOK
  <2>1. \A i \in DOMAIN todo : todo[i] \in Word
    <3>1. todo \in Seq(Word)
      BY <1>1, CallWords DEF SshInv, CallOK
    <3> QED BY <3>1
  <2>2. session \in 0..MaxSessions
    BY <1>1, SshNumbers DEF SshInv, SessionOK
  <2>3. \A i \in DOMAIN fifo : fifo[i] \in Shell
    BY <1>1 DEF SshInv, SshKindsOK
  <2> QED BY <1>1, <2>1, <2>2, <2>3 DEF SshFlagsOK, SshInv, SshKindsOK, SessionOK, SshTypeOK, Word
<1> QED BY <1>1, SshInvariant, PTL

\* There is one reader at a time: closeShell may stop waiting before the reader has gone,
\* and openShell takes the request to stop back, but in between the mutex and the missing
\* session see to it that the reader is gone (closeShell, openShell, the shell task).
THEOREM OneReaderAlways == SpecSsh => []OneReader
<1>1. SshInv => OneReader
  BY DEF SshInv, ReaderOK, Active, OneReader, Reading
<1> QED BY <1>1, SshInvariant, PTL

\* What the terminal shows is of the session it is connected to, whatever was read, held
\* or appended when the session before it was closed (close of the adapter, closeShell).
THEOREM OutputIsFresh == SpecSsh => []FreshOutput
<1>1. SshInv => FreshOutput
  BY DEF SshInv, FifoOK, FreshOutput
<1> QED BY <1>1, SshInvariant, PTL
-----------------------------------------------------------------------------
AnswerPiece == [kind : {"answer"}, id : Command, part : 1..3]
PacketPiece == [kind : {"packet"}, id : 1..MaxPackets, part : 1..5]
OnLine == AnswerPiece \cup PacketPiece

DongleFlagsOK == event \in BOOLEAN /\ posting \in BOOLEAN /\ late \in BOOLEAN

\* The types, without the flags.
DongleKindsOK ==
  /\ calls \in 0..MaxCalls /\ stage \in {"idle", "clear", "wait"} /\ (stage # "idle" => calls # 0)
  /\ last \in Command \cup {NoAnswer} /\ executed \subseteq Command /\ packets \in 0..MaxPackets
  /\ down \in Seq(Command) /\ up \in Seq(OnLine) /\ results \in Seq(Command \cup {NoAnswer})
  /\ answering \in AnswerPiece \cup {NoPiece} /\ relaying \in PacketPiece \cup {NoPiece}
  /\ expected \in OnLine \cup {NoPiece, Swallowed}

\* No answer is on the line, and nothing is left of the last command.
Answerless == \A i \in DOMAIN up : up[i].kind # "answer"
Settled == down = <<>> /\ answering = NoPiece /\ Answerless /\ ~posting

\* The last command is executed, once, and its answer comes in one run: the parts on the
\* line go up, and the dongle goes on behind them.
Underway ==
  /\ down = <<>> /\ calls \in executed /\ ~posting
  /\ answering # NoPiece => answering.id = calls
  /\ \A i \in DOMAIN up : up[i].kind = "answer" =>
       /\ up[i].id = calls
       /\ answering # NoPiece => up[i].part < answering.part
       /\ \A j \in DOMAIN up : i < j /\ up[j].kind = "answer" => up[i].part < up[j].part

\* It has been answered, and the answer is stored.
Answered == last = calls /\ calls \in executed /\ down = <<>> /\ answering = NoPiece /\ Answerless

Stages ==
  \/ stage = "idle" /\ Settled
  \/ stage = "clear" /\ Settled /\ ~event
  \/ stage = "wait" /\ event /\ ~posting /\ Answered
  \/ stage = "wait" /\ ~event /\ posting /\ Answered
  \/ /\ stage = "wait" /\ ~event /\ ~posting
     /\ down = <<calls>> /\ answering = NoPiece /\ Answerless
  \/ stage = "wait" /\ ~event /\ Underway

\* What was returned so far is right.
Returned ==
  /\ calls = Len(results) + (IF stage = "idle" THEN 0 ELSE 1)
  /\ \A c \in DOMAIN results : results[c] = c /\ c \in executed

DongleInv == DongleKindsOK /\ (~late => Returned /\ Stages)

LEMMA DongleNumbers ==
  /\ MaxCalls \in Nat /\ MaxPackets \in Nat /\ Command = 1..MaxCalls /\ 0 \notin Command
  /\ NoAnswer = 0 /\ NoPiece \notin OnLine
BY DongleAssumption DEF Command, NoAnswer, NoPiece, OnLine, AnswerPiece, PacketPiece

LEMMA DongleFlagsStep == DongleFlagsOK /\ [NextDongle]_dongleVars => DongleFlagsOK'
BY DEF DongleFlagsOK, NextDongle, CallBegins, CallSends, CallReturns, CallTimesOut, LoopExecutes,
  LoopWrites, PacketArrives, CallbackWrites, ReaderTakes, Takes, ReaderSets,
  dongleVars, gateway, bridge, line, readerThread

\* The piece after a piece is of the same frame.
LEMMA PiecesFollow ==
  /\ \A p \in AnswerPiece :
       /\ p.part < 3 => Following(p) = [p EXCEPT !.part = p.part + 1] /\ Following(p) \in AnswerPiece
       /\ p.part = 3 => Following(p) = NoPiece
  /\ \A p \in PacketPiece : Following(p) \in PacketPiece \cup {NoPiece}
  /\ \A c \in Command : Piece("answer", c, 1) \in AnswerPiece
  /\ \A c \in 1..MaxPackets : Piece("packet", c, 1) \in PacketPiece
<1>1. ASSUME NEW p \in AnswerPiece
      PROVE  /\ p.part < 3 => Following(p) = [p EXCEPT !.part = p.part + 1] /\ Following(p) \in AnswerPiece
             /\ p.part = 3 => Following(p) = NoPiece
  <2>1. Pieces[p.kind] = 3 /\ p.part \in 1..3
    BY DEF AnswerPiece, Pieces
  <2> QED BY <2>1 DEF Following, AnswerPiece
<1>2. ASSUME NEW p \in PacketPiece PROVE Following(p) \in PacketPiece \cup {NoPiece}
  <2>1. Pieces[p.kind] = 5 /\ p.part \in 1..5
    BY DEF PacketPiece, Pieces
  <2> QED BY <2>1 DEF Following, PacketPiece
<1> QED BY <1>1, <1>2 DEF Piece, AnswerPiece, PacketPiece

LEMMA DongleKindsStep ==
  ASSUME DongleKindsOK, [NextDongle]_dongleVars
  PROVE  DongleKindsOK'
<1> USE DongleNumbers DEF DongleKindsOK
<1>1. CASE CallBegins
  BY <1>1 DEF CallBegins, bridge, line, readerThread
<1>2. CASE CallSends
  <2>1. calls \in Command
    BY <1>2 DEF CallSends
  <2> QED BY <1>2, <2>1 DEF CallSends, bridge, readerThread
<1>3. CASE CallReturns
  BY <1>3 DEF CallReturns, bridge, line, readerThread
<1>4. CASE CallTimesOut
  BY <1>4 DEF CallTimesOut, bridge, line, readerThread
<1>5. CASE LoopExecutes
  <2>1. Head(down) \in Command /\ Tail(down) \in Seq(Command)
    BY <1>5 DEF LoopExecutes
  <2> QED BY <1>5, <2>1, PiecesFollow DEF LoopExecutes, gateway, readerThread
<1>6. CASE LoopWrites
  <2>1. answering \in AnswerPiece
    BY <1>6 DEF LoopWrites
  <2>2. Following(answering) \in AnswerPiece \cup {NoPiece}
    <3>1. answering.part < 3 \/ answering.part = 3
      BY <2>1 DEF AnswerPiece
    <3> QED BY <2>1, <3>1, PiecesFollow
  <2>3. Append(up, answering) \in Seq(OnLine)
    BY <2>1 DEF OnLine
  <2> QED BY <1>6, <2>2, <2>3 DEF LoopWrites, gateway, readerThread
<1>7. CASE PacketArrives
  <2>1. packets + 1 \in 1..MaxPackets
    BY <1>7 DEF PacketArrives
  <2>2. Piece("packet", packets + 1, 1) \in PacketPiece
    BY <2>1, PiecesFollow
  <2> QED BY <1>7, <2>1, <2>2 DEF PacketArrives, gateway, line, readerThread
<1>8. CASE CallbackWrites
  <2>1. relaying \in PacketPiece
    BY <1>8 DEF CallbackWrites
  <2>2. Following(relaying) \in PacketPiece \cup {NoPiece} /\ Append(up, relaying) \in Seq(OnLine)
    BY <2>1, PiecesFollow DEF OnLine
  <2> QED BY <1>8, <2>2 DEF CallbackWrites, gateway, readerThread
<1>9. CASE ReaderTakes
  <2>1. Head(up) \in OnLine /\ Tail(up) \in Seq(OnLine) /\ up' = Tail(up)
    BY <1>9 DEF ReaderTakes
  <2>2. Following(Head(up)) \in OnLine \cup {NoPiece}
    <3>1. CASE Head(up) \in AnswerPiece
      <4>1. Head(up).part < 3 \/ Head(up).part = 3
        BY <3>1 DEF AnswerPiece
      <4> QED BY <3>1, <4>1, PiecesFollow DEF OnLine
    <3>2. CASE Head(up) \in PacketPiece
      BY <3>2, PiecesFollow DEF OnLine
    <3> QED BY <2>1, <3>1, <3>2 DEF OnLine
  <2>3. Head(up).kind = "answer" => Head(up).id \in Command
    BY <2>1 DEF OnLine, AnswerPiece, PacketPiece
  <2>4. expected' \in OnLine \cup {NoPiece, Swallowed} /\ last' \in Command \cup {NoAnswer}
    BY <1>9, <2>1, <2>2, <2>3 DEF ReaderTakes, Takes
  <2> QED BY <1>9, <2>1, <2>4 DEF ReaderTakes, bridge
<1>10. CASE ReaderSets
  BY <1>10 DEF ReaderSets, bridge, line
<1>11. CASE UNCHANGED dongleVars
  BY <1>11 DEF dongleVars, gateway, bridge, line, readerThread
<1> QED BY <1>1, <1>2, <1>3, <1>4, <1>5, <1>6, <1>7, <1>8, <1>9, <1>10, <1>11 DEF NextDongle

\* A piece of a packet behind them changes nothing for the answers on the line.
LEMMA LineGrows ==
  ASSUME NEW p \in OnLine, up \in Seq(OnLine), up' = Append(up, p)
  PROVE  /\ DOMAIN up' = DOMAIN up \cup {Len(up) + 1} /\ Len(up) \in Nat
         /\ \A i \in DOMAIN up : up'[i] = up[i] /\ i <= Len(up) /\ i \in Nat
         /\ up'[Len(up) + 1] = p
         /\ p.kind # "answer" /\ Answerless => Answerless'
<1>1. /\ DOMAIN up' = DOMAIN up \cup {Len(up) + 1} /\ Len(up) \in Nat
      /\ \A i \in DOMAIN up : up'[i] = up[i] /\ i <= Len(up) /\ i \in Nat
      /\ up'[Len(up) + 1] = p
  OBVIOUS
<1> QED BY <1>1 DEF Answerless

LEMMA LineShrinks ==
  ASSUME up \in Seq(OnLine), up # <<>>, up' = Tail(up)
  PROVE  /\ \A i \in DOMAIN up' : i + 1 \in DOMAIN up /\ up'[i] = up[i + 1] /\ i \in Nat /\ i > 0
         /\ Head(up) = up[1] /\ 1 \in DOMAIN up
         /\ Answerless => Answerless'
<1>1. /\ \A i \in DOMAIN up' : i + 1 \in DOMAIN up /\ up'[i] = up[i + 1] /\ i \in Nat /\ i > 0
      /\ Head(up) = up[1] /\ 1 \in DOMAIN up
  OBVIOUS
<1> QED BY <1>1 DEF Answerless

\* The dongle writes the next part of its answer: the run goes on.
LEMMA LoopWritesStep ==
  ASSUME DongleInv, ~late, LoopWrites
  PROVE  Returned' /\ Stages'
<1>1. /\ UNCHANGED <<calls, stage, last, results, executed, down>> /\ (event' <=> event)
      /\ (posting' <=> posting)
      /\ answering # NoPiece /\ up' = Append(up, answering) /\ answering' = Following(answering)
  BY DEF LoopWrites, gateway, readerThread
<1>2. up \in Seq(OnLine) /\ answering \in AnswerPiece /\ answering \in OnLine
  BY <1>1 DEF DongleInv, DongleKindsOK, OnLine
<1>3. stage = "wait" /\ ~event /\ Underway /\ Returned
  BY <1>1 DEF DongleInv, Stages, Settled, Answered
<1>4. answering.id = calls /\ answering.part \in 1..3 /\ answering.kind = "answer"
  BY <1>1, <1>2, <1>3 DEF Underway, AnswerPiece
<1>5. answering' # NoPiece => answering'.id = calls /\ answering'.part = answering.part + 1
  <2>1. CASE answering.part = 3
    BY <1>1, <1>2, <2>1, PiecesFollow
  <2>2. CASE answering.part < 3
    <3>1. answering' = [answering EXCEPT !.part = answering.part + 1]
      BY <1>1, <1>2, <2>2, PiecesFollow
    <3> QED BY <1>2, <1>4, <3>1 DEF AnswerPiece
  <2> QED BY <1>4, <2>1, <2>2
<1>6. /\ DOMAIN up' = DOMAIN up \cup {Len(up) + 1} /\ Len(up) \in Nat
      /\ \A i \in DOMAIN up : up'[i] = up[i] /\ i <= Len(up) /\ i \in Nat
      /\ up'[Len(up) + 1] = answering
  BY <1>1, <1>2, LineGrows
<1>7. \A i \in DOMAIN up : up[i].kind = "answer" =>
        up[i].id = calls /\ up[i].part < answering.part /\ up[i].part \in Nat
  <2>1. \A i \in DOMAIN up : up[i] \in OnLine
    BY <1>2
  <2>2. \A i \in DOMAIN up : up[i].part \in Nat
    BY <2>1 DEF OnLine, AnswerPiece, PacketPiece
  <2> QED BY <1>1, <1>3, <2>2 DEF Underway
<1>8. ASSUME NEW i \in DOMAIN up', up'[i].kind = "answer"
      PROVE  /\ up'[i].id = calls
             /\ answering' # NoPiece => up'[i].part < answering'.part
             /\ \A j \in DOMAIN up' : i < j /\ up'[j].kind = "answer" => up'[i].part < up'[j].part
  <2>1. CASE i \in DOMAIN up
    <3>1. up'[i] = up[i] /\ up[i].id = calls /\ up[i].part < answering.part /\ up[i].part \in Nat
      BY <1>6, <1>7, <1>8, <2>1
    <3>2. \A j \in DOMAIN up : i < j /\ up'[j].kind = "answer" => up'[i].part < up'[j].part
      BY <1>3, <1>6, <1>8, <2>1 DEF Underway
    <3> QED BY <1>4, <1>5, <1>6, <3>1, <3>2
  <2>2. CASE i = Len(up) + 1
    BY <1>4, <1>5, <1>6, <2>2
  <2> QED BY <1>6, <2>1, <2>2
<1>9. Underway'
  BY <1>1, <1>3, <1>5, <1>8 DEF Underway
<1> QED BY <1>1, <1>3, <1>9 DEF Stages, Returned

\* A piece of a packet comes in between.
LEMMA CallbackWritesStep ==
  ASSUME DongleInv, ~late, CallbackWrites
  PROVE  Returned' /\ Stages'
<1>1. /\ UNCHANGED <<calls, stage, last, results, executed, down, answering>> /\ (event' <=> event)
      /\ (posting' <=> posting) /\ relaying # NoPiece /\ up' = Append(up, relaying)
  BY DEF CallbackWrites, gateway, readerThread
<1>2. up \in Seq(OnLine) /\ relaying \in OnLine /\ relaying.kind # "answer"
  BY <1>1 DEF DongleInv, DongleKindsOK, OnLine, PacketPiece
<1>3. /\ DOMAIN up' = DOMAIN up \cup {Len(up) + 1}
      /\ \A i \in DOMAIN up : up'[i] = up[i]
      /\ up'[Len(up) + 1] = relaying
      /\ Answerless => Answerless'
  BY <1>1, <1>2, LineGrows
<1>4. Underway => Underway'
  BY <1>1, <1>2, <1>3 DEF Underway
<1> QED BY <1>1, <1>3, <1>4 DEF DongleInv, Stages, Returned, Settled, Answered

\* The reader takes a piece.  The last part of an answer is the last of its run: with it
\* nothing is left, and what is stored is the answer to the last command.
LEMMA ReaderTakesStep ==
  ASSUME DongleInv, ~late, ReaderTakes
  PROVE  Returned' /\ Stages'
<1>1. /\ UNCHANGED <<calls, stage, results, executed, down, answering>> /\ (event' <=> event)
      /\ ~posting /\ up # <<>> /\ up' = Tail(up)
  BY DEF ReaderTakes, bridge
<1>2. PICK p : p = Head(up)
  OBVIOUS
<1>3. /\ up \in Seq(OnLine) /\ p \in OnLine /\ p = up[1] /\ 1 \in DOMAIN up
      /\ \A i \in DOMAIN up' : i + 1 \in DOMAIN up /\ up'[i] = up[i + 1] /\ i \in Nat /\ i > 0
      /\ Answerless => Answerless' /\ p.kind # "answer"
  <2>1. up \in Seq(OnLine)
    BY DEF DongleInv, DongleKindsOK
  <2>2. Head(up) \in OnLine
    BY <1>1, <2>1
  <2> QED BY <1>1, <1>2, <2>1, <2>2, LineShrinks DEF Answerless
<1>4. Underway => (~posting' => Underway')
  <2>1. SUFFICES ASSUME Underway, ~posting' PROVE Underway'
    OBVIOUS
  <2>2. ASSUME NEW i \in DOMAIN up', up'[i].kind = "answer"
        PROVE  /\ up'[i].id = calls
               /\ answering # NoPiece => up'[i].part < answering.part
               /\ \A j \in DOMAIN up' : i < j /\ up'[j].kind = "answer" => up'[i].part < up'[j].part
    <3>1. PICK k : k = i + 1
      OBVIOUS
    <3>2. k \in DOMAIN up /\ up'[i] = up[k]
      BY <1>3, <3>1
    <3>3. \A j \in DOMAIN up' : i < j => k < j + 1 /\ j + 1 \in DOMAIN up /\ up'[j] = up[j + 1]
      BY <1>3, <3>1
    <3> QED BY <2>1, <2>2, <3>2, <3>3 DEF Underway
  <2> QED BY <1>1, <2>1, <2>2 DEF Underway
<1>5. CASE posting' /\ p.kind = "answer" /\ last' = p.id /\ Following(p) = NoPiece
  <2>1. stage = "wait" /\ ~event /\ Underway /\ Returned
    BY <1>1, <1>3, <1>5 DEF DongleInv, Stages, Settled, Answered
  <2>2. p \in AnswerPiece /\ p.part = 3
    <3>1. p \in AnswerPiece /\ (p.part = 3 \/ p.part < 3)
      BY <1>3, <1>5 DEF OnLine, AnswerPiece, PacketPiece
    <3> QED BY <1>5, <3>1, PiecesFollow, DongleNumbers DEF OnLine
  <2>3. p.id = calls /\ answering = NoPiece
    <3>1. answering # NoPiece => answering.part \in 1..3
      BY DEF DongleInv, DongleKindsOK, AnswerPiece
    <3> QED BY <1>3, <1>5, <2>1, <2>2, <3>1 DEF Underway
  <2>4. Answerless'
    <3>1. SUFFICES ASSUME NEW i \in DOMAIN up', up'[i].kind = "answer" PROVE FALSE
      BY DEF Answerless
    <3>2. i + 1 \in DOMAIN up /\ 1 < i + 1 /\ up'[i] = up[i + 1]
      BY <1>3
    <3>3. 3 < up[i + 1].part
      BY <1>3, <1>5, <2>1, <2>2, <3>1, <3>2 DEF Underway
    <3>4. up[i + 1] \in OnLine
      BY <1>3, <3>2
    <3>5. up[i + 1].part \in 1..3
      BY <3>1, <3>2, <3>4 DEF OnLine, AnswerPiece, PacketPiece
    <3> QED BY <3>3, <3>5
  <2>5. Answered'
    BY <1>1, <1>5, <2>1, <2>3, <2>4 DEF Answered, Underway
  <2> QED BY <1>1, <1>5, <2>1, <2>5 DEF Stages, Returned
<1>6. CASE ~posting' /\ last' = last
  BY <1>1, <1>3, <1>4, <1>6 DEF DongleInv, Stages, Returned, Settled, Answered
<1>7. \/ posting' /\ p.kind = "answer" /\ last' = p.id /\ Following(p) = NoPiece
      \/ ~posting' /\ last' = last
  <2>1. \/ UNCHANGED <<last, posting>>
        \/ Following(p) = NoPiece /\ Takes(p)
    BY <1>2, Zenon DEF ReaderTakes
  <2>2. CASE UNCHANGED <<last, posting>>
    BY <1>1, <2>2
  <2>3. CASE Following(p) = NoPiece /\ Takes(p)
    <3>1. p.kind = "answer" => posting' /\ last' = p.id
      BY <2>3 DEF Takes
    <3>2. p.kind # "answer" => ~posting' /\ last' = last
      BY <2>3 DEF Takes
    <3> QED BY <2>3, <3>1, <3>2
  <2> QED BY <2>1, <2>2, <2>3
<1> QED BY <1>5, <1>6, <1>7

LEMMA DongleInvStep ==
  ASSUME DongleInv, [NextDongle]_dongleVars, ~late'
  PROVE  Returned' /\ Stages'
<1>0. ~late
  BY DEF NextDongle, CallBegins, CallSends, CallReturns, CallTimesOut, LoopExecutes, LoopWrites,
    PacketArrives, CallbackWrites, ReaderTakes, ReaderSets, dongleVars, gateway
<1>1. DongleKindsOK /\ Returned /\ Stages
  BY <1>0 DEF DongleInv
<1>2. CASE CallBegins
  <2>1. /\ UNCHANGED <<last, results, executed, down, up, answering>> /\ (posting' <=> posting)
        /\ stage = "idle" /\ stage' = "clear" /\ calls' = calls + 1 /\ ~event'
    BY <1>2 DEF CallBegins, bridge, line, readerThread
  <2>2. Settled'
    BY <1>1, <2>1 DEF Stages, Settled, Answerless
  <2>3. Len(results) \in Nat
    BY <1>1 DEF DongleKindsOK
  <2> QED BY <1>1, <2>1, <2>2, <2>3 DEF Stages, Returned
<1>3. CASE CallSends
  <2>1. /\ UNCHANGED <<calls, results, executed, up, answering>> /\ (posting' <=> posting)
        /\ (event' <=> event) /\ stage = "clear" /\ stage' = "wait" /\ down' = Append(down, calls)
    BY <1>3 DEF CallSends, bridge, readerThread
  <2>2. Settled /\ ~event
    BY <1>1, <2>1 DEF Stages
  <2>3. Append(<<>>, calls) = <<calls>>
    OBVIOUS
  <2>4. down' = <<calls'>> /\ Answerless'
    BY <2>1, <2>2, <2>3 DEF Settled, Answerless
  <2> QED BY <1>1, <2>1, <2>2, <2>4 DEF Stages, Returned, Settled
<1>4. CASE CallReturns
  <2>1. /\ UNCHANGED <<calls, executed, down, up, answering>> /\ (posting' <=> posting)
        /\ stage = "wait" /\ event /\ stage' = "idle" /\ results' = Append(results, last)
    BY <1>4 DEF CallReturns, bridge, line, readerThread
  <2>2. Answered /\ ~posting
    BY <1>1, <2>1 DEF Stages
  <2>3. Settled'
    BY <2>1, <2>2 DEF Answered, Settled, Answerless
  <2>4. /\ DOMAIN results' = DOMAIN results \cup {Len(results) + 1}
        /\ Len(results') = Len(results) + 1 /\ Len(results) \in Nat
        /\ results'[Len(results) + 1] = last
        /\ \A c \in DOMAIN results : results'[c] = results[c]
    BY <1>1, <2>1 DEF DongleKindsOK
  <2>5. Len(results) + 1 = calls
    BY <1>1, <2>1 DEF Returned
  <2>6. Returned'
    BY <1>1, <2>1, <2>2, <2>4, <2>5 DEF Returned, Answered
  <2> QED BY <2>1, <2>3, <2>6 DEF Stages
<1>5. CASE CallTimesOut
  BY <1>5 DEF CallTimesOut
<1>6. CASE LoopExecutes
  <2>1. /\ UNCHANGED <<calls, stage, results, up>> /\ (event' <=> event) /\ (posting' <=> posting)
        /\ answering = NoPiece /\ down # <<>> /\ down' = Tail(down)
        /\ executed' = executed \cup {Head(down)} /\ answering' = Piece("answer", Head(down), 1)
    BY <1>6 DEF LoopExecutes, gateway, readerThread
  <2>2. /\ stage = "wait" /\ ~event /\ ~posting /\ down = <<calls>> /\ Answerless
    BY <1>1, <2>1 DEF Stages, Settled, Answered, Underway
  <2>3. Head(down) = calls /\ down' = <<>>
    BY <2>1, <2>2
  <2>4. Underway'
    BY <2>1, <2>2, <2>3 DEF Underway, Answerless, Piece
  <2>5. Returned'
    BY <1>1, <2>1 DEF Returned
  <2> QED BY <2>1, <2>2, <2>4, <2>5 DEF Stages
<1>7. CASE LoopWrites
  BY <1>0, <1>7, LoopWritesStep
<1>8. CASE PacketArrives
  <2>1. /\ UNCHANGED <<calls, stage, last, results, executed, down, up, answering>>
        /\ (event' <=> event) /\ (posting' <=> posting)
    BY <1>8 DEF PacketArrives, gateway, line, readerThread
  <2> QED BY <1>1, <2>1 DEF Stages, Returned, Settled, Answered, Answerless, Underway
<1>9. CASE CallbackWrites
  BY <1>0, <1>9, CallbackWritesStep
<1>10. CASE ReaderTakes
  BY <1>0, <1>10, ReaderTakesStep
<1>11. CASE ReaderSets
  <2>1. /\ UNCHANGED <<calls, stage, last, results, executed, down, up, answering>>
        /\ posting /\ event' /\ ~posting'
    BY <1>11 DEF ReaderSets, bridge, line
  <2>2. stage = "wait" /\ Answered
    BY <1>1, <2>1 DEF Stages, Settled, Underway
  <2> QED BY <1>1, <2>1, <2>2 DEF Stages, Returned, Answered, Answerless
<1>12. CASE UNCHANGED dongleVars
  <2>1. /\ UNCHANGED <<calls, stage, last, results, executed, down, up, answering>>
        /\ (event' <=> event) /\ (posting' <=> posting)
    BY <1>12 DEF dongleVars, gateway, bridge, line, readerThread
  <2> QED BY <1>1, <2>1 DEF Stages, Returned, Settled, Answered, Answerless, Underway
<1> QED BY <1>2, <1>3, <1>4, <1>5, <1>6, <1>7, <1>8, <1>9, <1>10, <1>11, <1>12 DEF NextDongle

LEMMA DongleInvariant == SpecDongle => [](DongleFlagsOK /\ DongleInv)
<1>1. InitDongle => DongleFlagsOK
  BY DEF InitDongle, DongleFlagsOK
<1>2. ASSUME InitDongle PROVE DongleInv
  <2>1. DongleKindsOK
    BY <1>2, DongleNumbers DEF InitDongle, DongleKindsOK
  <2>2. Answerless
    BY <1>2 DEF InitDongle, Answerless
  <2>3. Returned /\ Stages
    BY <1>2, <2>2 DEF InitDongle, Returned, Stages, Settled
  <2> QED BY <2>1, <2>3 DEF DongleInv
<1>3. DongleInv /\ [NextDongle]_dongleVars => DongleInv'
  BY DongleInvStep, DongleKindsStep DEF DongleInv
<1> QED BY <1>1, <1>2, <1>3, DongleFlagsStep, PTL DEF SpecDongle

\* Every variable of the serial link keeps its type (serial_transport.py, the dongle's
\* main.cpp).
THEOREM DongleTypes == SpecDongle => []DongleTypeOK
<1>1. DongleFlagsOK /\ DongleInv => DongleTypeOK
  BY DongleNumbers DEF DongleFlagsOK, DongleInv, DongleKindsOK, DongleTypeOK
<1> QED BY <1>1, DongleInvariant, PTL

\* Although nothing in an answer says which command it is for, every command gets its own
\* as long as none has timed out: a command leaves nothing of its answer behind, however
\* its pieces and those of radio packets mix on the line (send_ctrl_cmd, _reader_loop,
\* process_ctrl_command).
THEOREM AnswersAlwaysMatch == SpecDongle => []AnswersMatch
<1>1. DongleInv => AnswersMatch
  BY DEF DongleInv, Returned, AnswersMatch
<1> QED BY <1>1, DongleInvariant, PTL
-----------------------------------------------------------------------------
\* A step of one component is a step or a stutter of each.
LEMMA LinksStep ==
  [NextLinks]_linksVars =>
    /\ [NextPlayer]_playerVars /\ [NextSsh]_sshVars /\ [NextPort]_portVars
    /\ [NextHost]_hostVars /\ [NextDongle]_dongleVars /\ focus' = focus
<1> SUFFICES ASSUME [NextLinks]_linksVars
             PROVE  /\ [NextPlayer]_playerVars /\ [NextSsh]_sshVars /\ [NextPort]_portVars
                    /\ [NextHost]_hostVars /\ [NextDongle]_dongleVars /\ focus' = focus
  OBVIOUS
<1>1. CASE PlayerSteps
  BY <1>1 DEF PlayerSteps
<1>2. CASE SshSteps
  BY <1>2 DEF SshSteps
<1>3. CASE PortSteps
  BY <1>3 DEF PortSteps
<1>4. CASE HostSteps
  BY <1>4 DEF HostSteps
<1>5. CASE DongleSteps
  BY <1>5 DEF DongleSteps
<1>6. CASE UNCHANGED linksVars
  BY <1>6 DEF linksVars
<1> QED BY <1>1, <1>2, <1>3, <1>4, <1>5, <1>6 DEF NextLinks

\* What connects a board with the world is each of its components: whatever is proved of
\* one of them, from its own specification, holds in the composition.
THEOREM LinksImplement ==
  SpecLinks => SpecPlayer /\ SpecSsh /\ SpecPort /\ SpecHost /\ SpecDongle
<1>1. InitLinks => InitPlayer /\ InitSsh /\ InitPort /\ InitHost /\ InitDongle
  BY DEF InitLinks
<1> QED BY <1>1, LinksStep, PTL DEF SpecLinks, SpecPlayer, SpecSsh, SpecPort, SpecHost, SpecDongle

\* Every variable of every component keeps its type in the composition.
THEOREM LinksTypes == SpecLinks => []LinksTypeOK
<1>1. SpecLinks => [](focus \in Focuses)
  <2>1. InitLinks => focus \in Focuses
    BY DEF InitLinks
  <2>2. focus \in Focuses /\ [NextLinks]_linksVars => (focus \in Focuses)'
    BY LinksStep
  <2> QED BY <2>1, <2>2, PTL DEF SpecLinks
<1>2. /\ focus \in Focuses /\ PlayerTypeOK /\ SshTypeOK /\ PortTypeOK /\ HostTypeOK /\ DongleTypeOK
      => LinksTypeOK
  BY DEF LinksTypeOK
<1> QED
  BY <1>1, <1>2, LinksImplement, PlayerTypes, SshTypes, PortTypes, HostTypes, DongleTypes, PTL

\* Every safety property of a component holds in the composition, for every value of the
\* constants.
THEOREM LinksSafe ==
  SpecLinks =>
    /\ [](OneReader /\ FreshOutput)
    /\ [](FramesFaithful /\ Recovers)
    /\ [](SessionBacked /\ RadioListens)
    /\ []AnswersMatch
BY LinksImplement, OneReaderAlways, OutputIsFresh, FramesAreFaithful, LinkRecovers,
  TerminalIsBacked, ReadyRadioListens, AnswersAlwaysMatch, PTL
=============================================================================
