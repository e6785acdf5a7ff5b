------------------------- MODULE LuaLibrary_proofs -------------------------
(****************************************************************************)
(* Proofs about the Lua library, for all buttons, patterns, windows, slots  *)
(* and maps: of each helper the invariant it needs, what keeps it when      *)
(* another helper is used, and in the end the library's.                    *)
(****************************************************************************)
EXTENDS LuaLibrary, TLAPS, FiniteSetTheorems, SequenceTheorems

-----------------------------------------------------------------------------
(******************************************************************************)
(* Click.                                                                     *)
(******************************************************************************)
(* A session that is pending has another level than the single one, is told *)
(* by its presses, and is in its window, unless configure ended that.       *)
ClickInv ==
  /\ C!TypeOK
  /\ ClicksAreTold
  /\ click_pending =>
       /\ actions \cap {2, 3} # {}
       /\ click_count \in 1..2
       /\ click_count = 2 => 3 \in actions
       /\ ~shrunk => tick_count <= click_threshold /\ clicks = click_count

LEMMA ClickInit == C!Init => ClickInv
<1> SUFFICES ASSUME C!Init PROVE ClickInv
  OBVIOUS
<1>1. click_pending \in BOOLEAN /\ shrunk \in BOOLEAN
  BY Zenon DEF C!Init
<1>2. C!TypeOK
  BY <1>1, LibraryAssumption DEF C!Init, C!TypeOK, C!Levels, C!Answer
<1>3. ClicksAreTold
  BY DEF C!Init, ClicksAreTold, C!ClicksAreTold
<1> QED BY <1>2, <1>3 DEF C!Init, ClickInv

(* What a reset, and an answer with it, keeps. *)
LEMMA ClickReset ==
  ASSUME C!reset, UNCHANGED click_threshold, C!TypeOK,
         told' \subseteq C!Answer, ClicksAreTold'
  PROVE  ClickInv'
<1>1. click_pending' \in BOOLEAN /\ shrunk' \in BOOLEAN
  BY Zenon DEF C!reset, C!Cleared
<1>2. C!TypeOK'
  BY <1>1 DEF C!reset, C!Cleared, C!TypeOK, C!Levels
<1> QED BY <1>2 DEF C!reset, C!Cleared, ClickInv

(* An answer that a session gets, or got, is the one it should.             *)
AnswerOK(t) ==
  /\ t \in C!Answer
  /\ t.shrunk \/ t.level = (IF t.clicks \in t.actions THEN t.clicks ELSE 0)

LEMMA AnswerRight ==
  ASSUME NEW n \in 1..3, NEW p \in Nat, NEW given \in SUBSET (1..3), NEW sh \in BOOLEAN,
         sh \/ n = p
  PROVE  AnswerOK(C!Answered(n, p, given, sh))
<1> DEFINE lv == IF n \in given THEN n ELSE 0
           t  == [clicks |-> p, level |-> lv, actions |-> given, shrunk |-> sh]
<1>1. lv \in 0..3
  OBVIOUS
<1>2. t \in C!Answer
  BY <1>1, Zenon DEF C!Answer, C!Levels
<1>3. t.shrunk = sh /\ t.level = lv /\ t.clicks = p /\ t.actions = given
  OBVIOUS
<1>4. t.shrunk \/ t.level = (IF t.clicks \in t.actions THEN t.clicks ELSE 0)
  BY <1>3
<1> QED BY <1>2, <1>4 DEF C!Answered, AnswerOK

LEMMA ToldRight ==
  ASSUME \A t \in told' : AnswerOK(t)
  PROVE  told' \subseteq C!Answer /\ ClicksAreTold'
BY DEF AnswerOK, ClicksAreTold, C!ClicksAreTold

LEMMA ClickStep ==
  ASSUME ClickInv, C!Next
  PROVE  ClickInv'
<1> USE DEF ClickInv, C!TypeOK, C!Levels
<1>1. ASSUME NEW b \in Buttons, C!NextClick(b) PROVE ClickInv'
  <2> DEFINE n == IF C!InWindow THEN click_count + 1 ELSE click_count
             answers == C!InWindow /\ ((n = 2 /\ 3 \notin actions) \/ (n = 3 /\ 3 \in actions))
  <2>1. CASE answers
    <3>1. told' = {C!Answered(n, clicks + 1, actions, shrunk)} /\ C!reset /\ UNCHANGED click_threshold
      BY <1>1, <2>1 DEF C!NextClick
    <3>2. (shrunk \/ n = clicks + 1) /\ n \in 1..3 /\ clicks + 1 \in Nat
      BY <2>1, <1>1 DEF C!NextClick
    <3>3. told' \subseteq C!Answer /\ ClicksAreTold'
      BY <3>1, <3>2, AnswerRight, ToldRight
    <3> QED BY <3>1, <3>3, ClickReset
  <2>2. CASE ~answers
    <3>1. /\ click_count' = n /\ clicks' = clicks + 1 /\ told' = {}
          /\ UNCHANGED <<tick_count, click_pending, click_last_code, actions, shrunk, click_threshold>>
      BY <1>1, <2>2 DEF C!NextClick
    <3>2. told' \subseteq C!Answer /\ ClicksAreTold'
      BY <3>1, ToldRight
    <3>3. click_pending
      BY <1>1 DEF C!NextClick
    <3>4. C!TypeOK'
      BY <3>1, <3>2, <3>3
    <3> QED BY <3>1, <2>2, <3>2, <3>3, <3>4, LibraryAssumption DEF C!InWindow
  <2> QED BY <2>1, <2>2
<1>2. ASSUME NEW b \in Buttons, NEW given \in SUBSET C!Levels, C!FirstClick(b, given) PROVE ClickInv'
  <2>1. \A t \in C!Flushed : AnswerOK(t)
    <3>1. CASE click_pending
      <4>1. C!Flushed = {C!Answered(click_count, clicks, actions, shrunk)}
        BY <3>1 DEF C!Flushed
      <4>2. AnswerOK(C!Answered(click_count, clicks, actions, shrunk))
        BY <3>1, AnswerRight
      <4> QED BY <4>1, <4>2
    <3>2. CASE ~click_pending
      BY <3>2 DEF C!Flushed
    <3> QED BY <3>1, <3>2
  <2>2. CASE given \cap {2, 3} = {}
    <3>1. told' = C!Flushed \cup {C!Answered(1, 1, given, FALSE)} /\ C!reset /\ UNCHANGED click_threshold
      BY <1>2, <2>2 DEF C!FirstClick
    <3>2. told' \subseteq C!Answer /\ ClicksAreTold'
      <4>1. 1 \in 1..3 /\ 1 \in Nat /\ given \in SUBSET (1..3)
        OBVIOUS
      <4>2. AnswerOK(C!Answered(1, 1, given, FALSE))
        BY <4>1, AnswerRight, Zenon
      <4> QED BY <3>1, <2>1, <4>2, ToldRight
    <3> QED BY <3>1, <3>2, ClickReset
  <2>3. CASE given \cap {2, 3} # {}
    <3>1. /\ told' = C!Flushed
          /\ tick_count' = 0 /\ click_count' = 1 /\ click_pending' = TRUE
          /\ click_last_code' = b /\ actions' = given
          /\ clicks' = 1 /\ shrunk' = FALSE
          /\ UNCHANGED click_threshold
      BY <1>2, <2>3 DEF C!FirstClick
    <3>2. told' \subseteq C!Answer /\ ClicksAreTold'
      BY <3>1, <2>1, ToldRight
    <3>3. click_pending' \in BOOLEAN /\ shrunk' \in BOOLEAN
      BY <3>1, Zenon
    <3>4. C!TypeOK'
      BY <3>1, <3>2, <3>3
    <3> QED BY <3>1, <3>2, <3>4, <2>3, LibraryAssumption
  <2> QED BY <2>2, <2>3
<1>3. ASSUME NEW t \in Thresholds, C!configure(t) PROVE ClickInv'
  <2>1. told' \subseteq C!Answer /\ ClicksAreTold'
    BY <1>3, ToldRight DEF C!configure
  <2>2. shrunk' = (shrunk \/ (click_pending /\ tick_count > t))
    BY <1>3 DEF C!configure
  <2>3. shrunk' \in BOOLEAN
    BY <2>2, Zenon
  <2>4. C!TypeOK'
    BY <1>3, <2>1, <2>3 DEF C!configure
  <2> QED BY <1>3, <2>1, <2>2, <2>4, LibraryAssumption DEF C!configure
<1>4. ASSUME C!Reset PROVE ClickInv'
  <2>1. told' \subseteq C!Answer /\ ClicksAreTold'
    BY <1>4, ToldRight DEF C!Reset
  <2> QED BY <1>4, <2>1, ClickReset DEF C!Reset
<1>5. ASSUME C!click_handler PROVE ClickInv'
  <2>1. CASE click_pending /\ tick_count + 1 > click_threshold
    <3>1. told' = {C!Answered(click_count, clicks, actions, shrunk)} /\ C!reset /\ UNCHANGED click_threshold
      BY <1>5, <2>1 DEF C!click_handler
    <3>2. told' \subseteq C!Answer /\ ClicksAreTold'
      <4>1. AnswerOK(C!Answered(click_count, clicks, actions, shrunk))
        BY <2>1, AnswerRight
      <4> QED BY <3>1, <4>1, ToldRight
    <3> QED BY <3>1, <3>2, ClickReset
  <2>2. CASE ~(click_pending /\ tick_count + 1 > click_threshold)
    <3>1. /\ tick_count' = tick_count + 1 /\ told' = {}
          /\ UNCHANGED <<click_count, click_pending, click_last_code, actions, clicks, shrunk,
                         click_threshold>>
      BY <1>5, <2>2 DEF C!click_handler
    <3>2. told' \subseteq C!Answer /\ ClicksAreTold'
      BY <3>1, ToldRight
    <3>3. C!TypeOK'
      BY <3>1, <3>2
    <3> QED BY <3>1, <2>2, <3>2, <3>3, LibraryAssumption
  <2> QED BY <2>1, <2>2
<1> QED BY <1>1, <1>2, <1>3, <1>4, <1>5 DEF C!Next, C!Script

-----------------------------------------------------------------------------
(****************************************************************************)
(* Ticker.                                                                  *)
(****************************************************************************)
TickerInv == K!TypeOK /\ TickerRuns /\ (ticking => registered)

LEMMA TickerInit ==
  ASSUME K!Init, timers = {}
  PROVE  TickerInv
<1>1. K!TypeOK
  BY Zenon DEF K!Init, K!TypeOK
<1> QED BY <1>1 DEF K!Init, TickerInv, TickerRuns, K!TickerRuns

LEMMA TickerStep ==
  ASSUME TickerInv, K!Next
  PROVE  TickerInv'
<1> USE DEF TickerInv, K!TypeOK, TickerRuns, K!TickerRuns
<1>1. ASSUME NEW f \in BOOLEAN, NEW imm \in BOOLEAN, K!SetNew(f, imm) PROVE TickerInv'
  BY <1>1, Zenon DEF K!SetNew
<1>2. ASSUME NEW f \in BOOLEAN, NEW imm \in BOOLEAN, K!SetAgain(f, imm) PROVE TickerInv'
  BY <1>2, Zenon DEF K!SetAgain
<1>3. ASSUME K!start PROVE TickerInv'
  <2>1. PICK ends \in BOOLEAN : ticking' = ~ends /\ leaked' = ends
    BY <1>3, Zenon DEF K!start
  <2>2. ticking' \in BOOLEAN /\ leaked' \in BOOLEAN /\ (ticking' \/ leaked')
    BY <2>1, Zenon
  <2>3. UNCHANGED <<registered, immediate, fn>> /\ registered /\ TickKey \in timers'
    BY <1>3, Zenon DEF K!start, K!StartTimer
  <2> QED BY <2>2, <2>3, Zenon
<1>4. ASSUME K!stop PROVE TickerInv'
  BY <1>4, Zenon DEF K!stop, K!StopTimer
<1>5. ASSUME K!reset PROVE TickerInv'
  BY <1>5, Zenon DEF K!reset, K!StopTimer
<1>6. ASSUME K!handler PROVE TickerInv'
  <2>1. CASE UNCHANGED <<timers, cut, ticking>>
    BY <1>6, <2>1, Zenon DEF K!handler
  <2>2. CASE ticking' = FALSE /\ K!StopTimer
    <3>1. TickKey \notin timers' /\ ticking' \in BOOLEAN /\ ~ticking'
      BY <2>2, Zenon DEF K!StopTimer
    <3> QED BY <1>6, <3>1, Zenon DEF K!handler
  <2> QED BY <1>6, <2>1, <2>2, Zenon DEF K!handler
<1> QED BY <1>1, <1>2, <1>3, <1>4, <1>5, <1>6, Zenon DEF K!Next, K!Script

(* Steps of others, which keep the ticker's timer or cut it. *)
LEMMA TickerKept ==
  ASSUME TickerInv, UNCHANGED tickerVars,
         TickKey \in timers' => TickKey \in timers,
         TickKey \in timers \cup cut => TickKey \in timers' \cup cut'
  PROVE  TickerInv'
BY Zenon DEF TickerInv, K!TypeOK, TickerRuns, K!TickerRuns, tickerVars

-----------------------------------------------------------------------------
-----------------------------------------------------------------------------
(****************************************************************************)
(* Mouse.                                                                   *)
(****************************************************************************)

(* A function that a button's reports never went through has not told it is *)
(* pressed; for one they all went through, the edges see what is down. *)
MouseInv ==
  /\ M!TypeOK
  /\ ButtonsFollow
  /\ \A b \in MouseButtons, f \in M!Functions :
       /\ f \notin via[b] => mouse_state[<<f, b>>] # "pressed"
       /\ via[b] \subseteq {f} /\ mouse_state[<<f, b>>] = "pressed" => b \in mouse_down

LEMMA MouseInit ==
  ASSUME M!Init
  PROVE  MouseInv
<1> USE DEF M!Init, M!Edge!Init
<1>1. M!TypeOK
  BY DEF M!TypeOK, M!Edge!TypeOK, M!Report
<1>2. \A b \in MouseButtons, f \in M!Functions : mouse_state[<<f, b>>] = "nil"
  BY DEF M!Ids
<1> QED BY <1>1, <1>2 DEF MouseInv, ButtonsFollow, M!ButtonsFollow

(* What emit does to one button. *)
EmitEffect(f, report, b) ==
  /\ \A g \in M!Functions : g # f => mouse_state'[<<g, b>>] = mouse_state[<<g, b>>]
  /\ report[b] = "nil" =>
       /\ mouse_state'[<<f, b>>] = mouse_state[<<f, b>>]
       /\ b \in mouse_down' <=> b \in mouse_down
       /\ b \in lost' <=> b \in lost
       /\ reported'[b] = reported[b] /\ via'[b] = via[b]
  /\ report[b] # "nil" =>
       /\ reported'[b] = report[b] /\ via'[b] = via[b] \cup {f}
  /\ report[b] = "pressed" =>
       /\ mouse_state'[<<f, b>>] = "pressed"
       /\ b \in mouse_down' <=> b \in mouse_down \/ mouse_state[<<f, b>>] # "pressed"
       /\ b \in lost' <=> b \in lost /\ mouse_state[<<f, b>>] = "pressed"
  /\ report[b] = "released" =>
       /\ mouse_state'[<<f, b>>] = "released"
       /\ b \in mouse_down' <=> b \in mouse_down /\ mouse_state[<<f, b>>] # "pressed"
       /\ b \in lost' <=> b \in lost

LEMMA EmitButton ==
  ASSUME MouseInv, NEW f \in M!Functions, NEW report \in M!Report, M!emit(f, report),
         NEW b \in MouseButtons
  PROVE  EmitEffect(f, report, b)
<1> DEFINE B == M!Mentioned(report)
           Q == {c \in B : report[c] = "pressed"}
           edges(e) == {c \in B : M!Edge!EdgeOf(<<f, c>>, c \in Q) = e}
<1>1. /\ M!Edge!detects({f} \X B, {f} \X Q)
      /\ mouse_down' = (mouse_down \ edges("release")) \cup edges("press")
      /\ reported' = [c \in MouseButtons |-> IF report[c] # "nil" THEN report[c] ELSE reported[c]]
      /\ via' = [c \in MouseButtons |-> IF c \in B THEN via[c] \cup {f} ELSE via[c]]
      /\ lost' = lost \ edges("press")
  BY DEF M!emit
<1>2. report[b] \in {"nil", "released", "pressed"}
  BY DEF M!Report
<1>3. b \in B <=> report[b] # "nil"
  BY DEF M!Mentioned
<1>4. b \in Q <=> report[b] = "pressed"
  BY <1>3
<1>5. \A g \in M!Functions :
        mouse_state'[<<g, b>>] = IF g = f /\ b \in Q THEN "pressed"
                                 ELSE IF g = f /\ b \in B THEN "released" ELSE mouse_state[<<g, b>>]
  <2> TAKE g \in M!Functions
  <2>1. <<g, b>> \in M!Ids
    BY DEF M!Ids
  <2>2. (<<g, b>> \in {f} \X B <=> g = f /\ b \in B) /\ (<<g, b>> \in {f} \X Q <=> g = f /\ b \in Q)
    OBVIOUS
  <2> QED BY <1>1, <2>1, <2>2 DEF M!Edge!detects
<1>6. /\ b \in edges("press") <=> report[b] = "pressed" /\ mouse_state[<<f, b>>] # "pressed"
      /\ b \in edges("release") <=> report[b] = "released" /\ mouse_state[<<f, b>>] = "pressed"
  BY <1>2, <1>3, <1>4 DEF M!Edge!EdgeOf
<1> HIDE DEF B, Q, edges
<1> QED BY <1>1, <1>2, <1>3, <1>4, <1>5, <1>6 DEF EmitEffect

LEMMA MouseStep ==
  ASSUME MouseInv, M!Next
  PROVE  MouseInv'
<1>1. ASSUME NEW f \in M!Functions, NEW report \in M!Report, M!emit(f, report)
      PROVE  MouseInv'
  <2>1. M!TypeOK'
    <3> USE DEF MouseInv, M!TypeOK, M!emit
    <3>1. M!Edge!TypeOK'
      BY <1>1 DEF M!Edge!TypeOK, M!Edge!detects, M!Mentioned, M!Ids
    <3>2. mouse_down' \subseteq MouseButtons /\ lost' \subseteq MouseButtons
      BY <1>1 DEF M!Mentioned
    <3>3. reported' \in M!Report /\ via' \in [MouseButtons -> SUBSET M!Functions]
      BY <1>1 DEF M!Mentioned, M!Report
    <3> QED BY <3>1, <3>2, <3>3
  <2>2. ASSUME NEW b \in MouseButtons
        PROVE  /\ b \notin lost' =>
                   /\ b \in mouse_down' => \E g \in M!Functions : mouse_state'[<<g, b>>] = "pressed"
                   /\ (\E g \in M!Functions : via'[b] \subseteq {g}) =>
                         (b \in mouse_down' <=> reported'[b] = "pressed")
               /\ \A g \in M!Functions :
                    /\ g \notin via'[b] => mouse_state'[<<g, b>>] # "pressed"
                    /\ via'[b] \subseteq {g} /\ mouse_state'[<<g, b>>] = "pressed" => b \in mouse_down'
    <3>1. /\ b \notin lost =>
                   /\ b \in mouse_down => \E g \in M!Functions : mouse_state[<<g, b>>] = "pressed"
                   /\ (\E g \in M!Functions : via[b] \subseteq {g}) =>
                         (b \in mouse_down <=> reported[b] = "pressed")
          /\ \A g \in M!Functions :
                    /\ g \notin via[b] => mouse_state[<<g, b>>] # "pressed"
                    /\ via[b] \subseteq {g} /\ mouse_state[<<g, b>>] = "pressed" => b \in mouse_down
      BY DEF MouseInv, ButtonsFollow, M!ButtonsFollow
    <3>2. via[b] \subseteq M!Functions /\ report[b] \in {"nil", "released", "pressed"}
      BY DEF MouseInv, M!TypeOK, M!Report
    <3>e. EmitEffect(f, report, b)
      BY <1>1, EmitButton
    <3>3. CASE report[b] = "nil"
      BY <3>1, <3>e, <3>3 DEF EmitEffect
    <3>4. CASE report[b] = "pressed"
      BY <3>1, <3>e, <3>2, <3>4 DEF EmitEffect
    <3>5. CASE report[b] = "released"
      BY <3>1, <3>e, <3>2, <3>5 DEF EmitEffect
    <3> QED BY <3>2, <3>3, <3>4, <3>5
  <2> QED BY <2>1, <2>2 DEF MouseInv, ButtonsFollow, M!ButtonsFollow
<1>2. ASSUME M!EdgeReset PROVE MouseInv'
  <2>1. \A b \in MouseButtons, f \in M!Functions : mouse_state'[<<f, b>>] = "nil"
    BY <1>2 DEF M!EdgeReset, M!Edge!reset, M!Ids
  <2>2. M!TypeOK'
    BY <1>2 DEF MouseInv, M!TypeOK, M!EdgeReset, M!Edge!reset, M!Edge!TypeOK
  <2>3. /\ lost' = lost \cup mouse_down
        /\ UNCHANGED <<mouse_down, reported, via>>
    BY <1>2 DEF M!EdgeReset
  <2> QED BY <2>1, <2>2, <2>3 DEF MouseInv, ButtonsFollow, M!ButtonsFollow
<1> QED BY <1>1, <1>2 DEF M!Next

LEMMA MouseKept ==
  ASSUME MouseInv, UNCHANGED mouseVars
  PROVE  MouseInv'
BY DEF MouseInv, mouseVars, ButtonsFollow, M!ButtonsFollow, M!TypeOK, M!Edge!TypeOK

-----------------------------------------------------------------------------
(******************************************************************************)
(* Sequence: that matching greedily, as detect does, is right.                *)
(******************************************************************************)
(* The first k buttons of p occur in s, in order, with others between them. *)
EmbedsTo(p, k, s) ==
  \E f \in [1..k -> DOMAIN s] :
    /\ \A i, j \in 1..k : i < j => f[i] < f[j]
    /\ \A i \in 1..k : s[f[i]] = p[i]

LEMMA EmbedsWhole ==
  ASSUME NEW p \in Seq(Buttons), NEW s
  PROVE  S!Embeds(p, s) <=> EmbedsTo(p, Len(p), s)
BY LenProperties DEF S!Embeds, EmbedsTo

LEMMA EmbedsNone ==
  ASSUME NEW p, NEW k \in Nat \ {0}
  PROVE  ~EmbedsTo(p, k, <<>>)
<1> SUFFICES ASSUME NEW f \in [1..k -> DOMAIN <<>>] PROVE FALSE
  BY DEF EmbedsTo
<1>1. 1 \in 1..k /\ DOMAIN <<>> = {}
  OBVIOUS
<1> QED BY <1>1

(* Another button completes what it fits, and nothing else: greedy matching *)
(* is right. *)
LEMMA EmbedsAppend ==
  ASSUME NEW p \in Seq(Buttons), NEW s \in Seq(Buttons), NEW b \in Buttons,
         NEW k \in 1..Len(p)
  PROVE  EmbedsTo(p, k, Append(s, b)) <=>
           EmbedsTo(p, k, s) \/ (p[k] = b /\ (k = 1 \/ EmbedsTo(p, k - 1, s)))
<1> DEFINE t == Append(s, b)
           n == Len(s)
<1>0. /\ n \in Nat /\ DOMAIN s = 1..n /\ DOMAIN t = 1..(n + 1)
      /\ t[n + 1] = b /\ \A i \in 1..n : t[i] = s[i]
  BY AppendProperties, LenProperties
<1> HIDE DEF t, n
<1>1. ASSUME EmbedsTo(p, k, t), ~EmbedsTo(p, k, s)
      PROVE  p[k] = b /\ (k = 1 \/ EmbedsTo(p, k - 1, s))
  <2>1. PICK f \in [1..k -> 1..(n + 1)] :
          /\ \A i, j \in 1..k : i < j => f[i] < f[j]
          /\ \A i \in 1..k : t[f[i]] = p[i]
    BY <1>0, <1>1 DEF EmbedsTo
  <2>2. \A i \in 1..(k - 1) : i \in 1..k /\ i < k /\ f[i] < f[k]
    BY <2>1
  <2>3. \A i \in 1..(k - 1) : f[i] \in 1..n
    BY <2>1, <2>2, <1>0
  <2>4. f[k] = n + 1
    <3> SUFFICES ASSUME f[k] # n + 1 PROVE FALSE
      OBVIOUS
    <3>1. \A i \in 1..k : f[i] \in 1..n
      BY <2>1, <2>3, <1>0
    <3>2. f \in [1..k -> 1..n]
      BY <2>1, <3>1
    <3>3. \A i \in 1..k : s[f[i]] = p[i]
      BY <2>1, <3>1, <1>0
    <3> QED BY <1>0, <1>1, <2>1, <3>2, <3>3 DEF EmbedsTo
  <2>5. CASE k # 1
    <3> DEFINE g == [i \in 1..(k - 1) |-> f[i]]
    <3>1. g \in [1..(k - 1) -> 1..n]
      BY <2>3
    <3>2. \A i, j \in 1..(k - 1) : i < j => g[i] < g[j]
      BY <2>1, <2>2
    <3>3. \A i \in 1..(k - 1) : s[g[i]] = p[i]
      BY <2>1, <2>2, <2>3, <1>0
    <3> HIDE DEF g
    <3>4. EmbedsTo(p, k - 1, s)
      BY <3>1, <3>2, <3>3, <1>0 DEF EmbedsTo
    <3> QED BY <3>4, <2>1, <2>4, <1>0
  <2> QED BY <2>1, <2>4, <2>5, <1>0
<1>2. ASSUME EmbedsTo(p, k, s)
      PROVE  EmbedsTo(p, k, t)
  <2>1. PICK f \in [1..k -> 1..n] :
          /\ \A i, j \in 1..k : i < j => f[i] < f[j]
          /\ \A i \in 1..k : s[f[i]] = p[i]
    BY <1>0, <1>2 DEF EmbedsTo
  <2>2. f \in [1..k -> 1..(n + 1)] /\ \A i \in 1..k : t[f[i]] = p[i]
    BY <2>1, <1>0
  <2> QED BY <2>1, <2>2, <1>0 DEF EmbedsTo
<1>3. ASSUME p[k] = b, k = 1 \/ EmbedsTo(p, k - 1, s)
      PROVE  EmbedsTo(p, k, t)
  <2>1. \E g \in [1..(k - 1) -> 1..n] :
          /\ \A i, j \in 1..(k - 1) : i < j => g[i] < g[j]
          /\ \A i \in 1..(k - 1) : s[g[i]] = p[i]
    <3>1. CASE k = 1
      <4>1. [i \in 1..(k - 1) |-> 1] \in [1..(k - 1) -> 1..n] /\ 1..(k - 1) = {}
        BY <3>1
      <4> QED BY <4>1
    <3>2. CASE EmbedsTo(p, k - 1, s)
      BY <3>2, <1>0 DEF EmbedsTo
    <3> QED BY <3>1, <3>2, <1>3
  <2>2. PICK g \in [1..(k - 1) -> 1..n] :
          /\ \A i, j \in 1..(k - 1) : i < j => g[i] < g[j]
          /\ \A i \in 1..(k - 1) : s[g[i]] = p[i]
    BY <2>1
  <2> DEFINE f == [i \in 1..k |-> IF i = k THEN n + 1 ELSE g[i]]
  <2>3. \A i \in 1..k : i # k => i \in 1..(k - 1) /\ g[i] \in 1..n
    BY <2>2
  <2>4. f \in [1..k -> 1..(n + 1)]
    BY <2>3, <1>0
  <2>5. \A i, j \in 1..k : i < j => f[i] < f[j]
    BY <2>2, <2>3, <1>0
  <2>6. \A i \in 1..k : t[f[i]] = p[i]
    BY <2>2, <2>3, <1>0, <1>3
  <2> HIDE DEF f
  <2> QED BY <2>4, <2>5, <2>6, <1>0 DEF EmbedsTo
<1> QED BY <1>1, <1>2, <1>3 DEF t

(* A pattern's progress is the length of what occurred of it. *)
Tracks(p, n, s) == \A k \in 1..Len(p) : EmbedsTo(p, k, s) <=> k <= n

LEMMA TracksFresh ==
  ASSUME NEW p \in Seq(Buttons)
  PROVE  Tracks(p, 0, <<>>)
BY EmbedsNone, LenProperties DEF Tracks

LEMMA TracksNext ==
  ASSUME NEW p \in Seq(Buttons), NEW s \in Seq(Buttons), NEW b \in Buttons,
         NEW n \in Nat, n < Len(p), Tracks(p, n, s)
  PROVE  Tracks(p, IF p[n + 1] = b THEN n + 1 ELSE n, Append(s, b))
<1> SUFFICES ASSUME NEW k \in 1..Len(p)
             PROVE  EmbedsTo(p, k, Append(s, b)) <=> k <= (IF p[n + 1] = b THEN n + 1 ELSE n)
  BY DEF Tracks
<1>1. Len(p) \in Nat
  BY LenProperties
<1>2. EmbedsTo(p, k, s) <=> k <= n
  BY DEF Tracks
<1>3. k # 1 => (EmbedsTo(p, k - 1, s) <=> k - 1 <= n)
  BY <1>1 DEF Tracks
<1>4. EmbedsTo(p, k, Append(s, b)) <=>
        EmbedsTo(p, k, s) \/ (p[k] = b /\ (k = 1 \/ EmbedsTo(p, k - 1, s)))
  BY EmbedsAppend
<1> QED BY <1>1, <1>2, <1>3, <1>4

LEMMA TracksWhole ==
  ASSUME NEW p \in Seq(Buttons), p # <<>>, NEW s, NEW n \in 0..Len(p), Tracks(p, n, s)
  PROVE  S!Embeds(p, s) <=> n = Len(p)
<1>1. Len(p) \in Nat \ {0}
  BY EmptySeq
<1>2. EmbedsTo(p, Len(p), s) <=> Len(p) <= n
  BY <1>1 DEF Tracks
<1> QED BY <1>1, <1>2, EmbedsWhole

-----------------------------------------------------------------------------
(******************************************************************************)
(* Sequence: its steps.                                                       *)
(******************************************************************************)
LastRecord ==
  [op : S!Ops, button : Buttons \cup {NoButton}, matched : BOOLEAN, timeouts : Nat]

SeqTypes ==
  /\ patterns \in Seq(Patterns) /\ progress \in Seq(Nat) /\ seen \in Seq(Seq(Buttons))
  /\ Len(progress) = Len(patterns) /\ Len(seen) = Len(patterns)
  /\ \A i \in DOMAIN patterns : progress[i] <= Len(patterns[i])
  /\ seq_ticks \in Nat

SeqFlags ==
  /\ stream \in BOOLEAN /\ seq_active \in BOOLEAN
  /\ match_fn \in BOOLEAN /\ timeout_fn \in BOOLEAN
  /\ threshold \in Thresholds /\ last \in LastRecord

(* A session with a match_fn follows its patterns; none of them is complete. *)
SequenceInv ==
  /\ SeqTypes /\ SeqFlags
  /\ SeqKey \in timers => seq_active
  /\ ~seq_active => \A i \in DOMAIN patterns : seen[i] = <<>>
  /\ seq_active /\ match_fn =>
       \A i \in DOMAIN patterns :
         progress[i] < Len(patterns[i]) /\ Tracks(patterns[i], progress[i], seen[i])

LEMMA LastType ==
  ASSUME NEW op \in S!Ops, NEW b \in Buttons \cup {NoButton}, NEW m \in BOOLEAN, NEW t \in Nat,
         last' = [op |-> op, button |-> b, matched |-> m, timeouts |-> t]
  PROVE  last' \in LastRecord
BY Zenon DEF LastRecord

(* The patterns, one for one with their progress and what was seen. *)
LEMMA PatternOK ==
  ASSUME SeqTypes
  PROVE  /\ DOMAIN patterns = 1..Len(patterns) /\ Len(patterns) \in Nat
         /\ DOMAIN progress = DOMAIN patterns /\ DOMAIN seen = DOMAIN patterns
         /\ \A i \in DOMAIN patterns :
              /\ patterns[i] \in Seq(Buttons) /\ patterns[i] # <<>>
              /\ Len(patterns[i]) \in Nat \ {0}
              /\ Len(patterns[i]) > 1 => patterns[i][1] # patterns[i][2]
              /\ progress[i] \in Nat /\ seen[i] \in Seq(Buttons)
<1>1. /\ DOMAIN patterns = 1..Len(patterns) /\ Len(patterns) \in Nat
      /\ DOMAIN progress = 1..Len(patterns) /\ DOMAIN seen = 1..Len(patterns)
  BY LenProperties DEF SeqTypes
<1>2. ASSUME NEW i \in DOMAIN patterns
      PROVE  patterns[i] \in Patterns /\ progress[i] \in Nat /\ seen[i] \in Seq(Buttons)
  BY <1>1, ElementOfSeq DEF SeqTypes
<1>3. ASSUME NEW i \in DOMAIN patterns
      PROVE  /\ patterns[i] \in Seq(Buttons) /\ patterns[i] # <<>>
             /\ Len(patterns[i]) > 1 => patterns[i][1] # patterns[i][2]
  BY <1>2, LibraryAssumption
<1>4. ASSUME NEW i \in DOMAIN patterns
      PROVE  Len(patterns[i]) \in Nat \ {0}
  BY <1>3, EmptySeq
<1> QED BY <1>1, <1>2, <1>3, <1>4

LEMMA FunIsSeq ==
  ASSUME NEW n \in Nat, NEW T, NEW f \in [1..n -> T]
  PROVE  f \in Seq(T) /\ Len(f) = n
<1>1. f \in Seq(T)
  BY SeqDef
<1>2. DOMAIN f = 1..n /\ DOMAIN f = 1..Len(f) /\ Len(f) \in Nat
  BY <1>1, LenProperties
<1> QED BY <1>1, <1>2

LEMMA ZeroFresh ==
  ASSUME SeqTypes
  PROVE  /\ S!Zero \in Seq(Nat) /\ Len(S!Zero) = Len(patterns)
         /\ S!Fresh \in Seq(Seq(Buttons)) /\ Len(S!Fresh) = Len(patterns)
         /\ \A i \in DOMAIN patterns : S!Zero[i] = 0 /\ S!Fresh[i] = <<>>
<1>1. S!Zero \in [1..Len(patterns) -> Nat]
  BY PatternOK DEF S!Zero
<1>2. S!Fresh \in [1..Len(patterns) -> Seq(Buttons)]
  BY PatternOK, EmptySeq DEF S!Fresh
<1>3. Len(patterns) \in Nat /\ DOMAIN patterns = 1..Len(patterns)
  BY PatternOK
<1>4. S!Zero \in Seq(Nat) /\ Len(S!Zero) = Len(patterns)
  BY <1>1, <1>3, FunIsSeq
<1>5. S!Fresh \in Seq(Seq(Buttons)) /\ Len(S!Fresh) = Len(patterns)
  BY <1>2, <1>3, FunIsSeq
<1>6. \A i \in DOMAIN patterns : S!Zero[i] = 0 /\ S!Fresh[i] = <<>>
  BY <1>3 DEF S!Zero, S!Fresh
<1> QED BY <1>4, <1>5, <1>6

(* A start from nothing, and what follows, is right. *)
LEMMA FreshTypes ==
  ASSUME SeqTypes, UNCHANGED patterns, progress' = S!Zero, seen' = S!Fresh, seq_ticks' = 0
  PROVE  /\ SeqTypes'
         /\ \A i \in DOMAIN patterns' :
              progress'[i] < Len(patterns'[i]) /\ Tracks(patterns'[i], progress'[i], seen'[i])
         /\ \A i \in DOMAIN patterns' : seen'[i] = <<>>
<1>1. SeqTypes'
  <2>1. \A i \in DOMAIN patterns' : progress'[i] <= Len(patterns'[i])
    BY PatternOK, ZeroFresh
  <2> QED BY <2>1, ZeroFresh DEF SeqTypes
<1>2. ASSUME NEW i \in DOMAIN patterns
      PROVE  progress'[i] = 0 /\ seen'[i] = <<>> /\ 0 < Len(patterns[i])
  BY PatternOK, ZeroFresh
<1>3. ASSUME NEW i \in DOMAIN patterns
      PROVE  Tracks(patterns[i], 0, <<>>)
  BY PatternOK, TracksFresh
<1> QED BY <1>1, <1>2, <1>3

LEMMA SequenceInit ==
  ASSUME S!Init, timers = {}
  PROVE  SequenceInv
<1> USE DEF S!Init
<1>1. SeqFlags
  <2>1. last \in LastRecord
    BY DEF S!Ops, LastRecord
  <2> QED BY <2>1, Zenon DEF SeqFlags
<1>2. SeqTypes
  BY EmptySeq, LibraryAssumption DEF SeqTypes
<1>3. DOMAIN patterns = {} /\ SeqKey \notin timers
  OBVIOUS
<1>4. ~seq_active
  OBVIOUS
<1> QED BY <1>1, <1>2, <1>3, <1>4 DEF SequenceInv

(* The end of a session. *)
LEMMA OverKeeps ==
  ASSUME SequenceInv, S!Over, UNCHANGED <<threshold, stream, patterns>>,
         last' \in LastRecord
  PROVE  SequenceInv'
<1>1. SeqTypes /\ SeqFlags
  BY DEF SequenceInv
<1>2. SeqFlags'
  BY <1>1, Zenon DEF S!Over, SeqFlags
<1>3. SeqTypes' /\ \A i \in DOMAIN patterns' : seen'[i] = <<>>
  BY <1>1, FreshTypes DEF S!Over
<1>4. SeqKey \notin timers' /\ ~seq_active'
  BY DEF S!Over, S!StopTimer
<1> QED BY <1>2, <1>3, <1>4 DEF SequenceInv

(* Break ends no loop when there is nothing to end it. *)
LEMMA BreakNone ==
  ASSUME SeqTypes
  PROVE  S!Break({}) = Len(patterns) + 1
BY PatternOK DEF S!Break

(* The step of a pattern, and of all. *)
LEMMA StepType ==
  ASSUME SeqTypes, NEW from \in [DOMAIN patterns -> Nat], NEW b,
         \A i \in DOMAIN patterns : from[i] <= Len(patterns[i])
  PROVE  /\ \A i \in DOMAIN patterns :
              /\ S!Step(i, from, b) \in Nat /\ S!Step(i, from, b) <= Len(patterns[i])
              /\ from[i] < Len(patterns[i]) =>
                   S!Step(i, from, b) = IF patterns[i][from[i] + 1] = b THEN from[i] + 1 ELSE from[i]
         /\ S!Advanced(from, b) \in Seq(Nat) /\ Len(S!Advanced(from, b)) = Len(patterns)
         /\ \A i \in DOMAIN patterns : S!Advanced(from, b)[i] <= Len(patterns[i])
<1>1. \A i \in DOMAIN patterns :
              /\ S!Step(i, from, b) \in Nat /\ S!Step(i, from, b) <= Len(patterns[i])
              /\ from[i] < Len(patterns[i]) =>
                   S!Step(i, from, b) = IF patterns[i][from[i] + 1] = b THEN from[i] + 1 ELSE from[i]
  BY PatternOK DEF S!Step
<1>2. \A i \in DOMAIN patterns :
        S!Advanced(from, b)[i] = IF i > S!Break(S!Completing(from, b)) THEN from[i] ELSE S!Step(i, from, b)
  BY DEF S!Advanced
<1>3. S!Advanced(from, b) \in [1..Len(patterns) -> Nat]
  BY <1>1, PatternOK DEF S!Advanced
<1> QED BY <1>1, <1>2, <1>3, PatternOK, FunIsSeq

LEMMA AdvancedAll ==
  ASSUME SeqTypes, NEW from, NEW b, S!Completing(from, b) = {}, NEW i \in DOMAIN patterns
  PROVE  S!Advanced(from, b)[i] = S!Step(i, from, b)
<1>1. S!Break(S!Completing(from, b)) = Len(patterns) + 1
  BY BreakNone
<1>2. ~(i > Len(patterns) + 1)
  BY PatternOK
<1> QED BY <1>1, <1>2 DEF S!Advanced

LEMMA StartedType ==
  ASSUME SeqTypes, NEW b
  PROVE  /\ S!Started(b) \in [DOMAIN patterns -> Nat]
         /\ \A i \in DOMAIN patterns : S!Started(b)[i] <= Len(patterns[i])
         /\ (\A i \in DOMAIN patterns : patterns[i] # <<b>>) =>
              \A i \in DOMAIN patterns : S!Started(b)[i] = IF patterns[i][1] = b THEN 1 ELSE 0
<1> DEFINE I   == {i \in DOMAIN patterns : patterns[i] = <<b>>}
           end == S!Break(I)
<1>1. S!Started(b) = [i \in DOMAIN patterns |->
        IF i > end THEN progress[i] ELSE IF patterns[i][1] = b THEN 1 ELSE 0]
  BY DEF S!Started
<1>2. (\A i \in DOMAIN patterns : patterns[i] # <<b>>) => \A i \in DOMAIN patterns : ~(i > end)
  <2>1. (\A i \in DOMAIN patterns : patterns[i] # <<b>>) => end = Len(patterns) + 1
    <3>1. (\A i \in DOMAIN patterns : patterns[i] # <<b>>) => I = {}
      OBVIOUS
    <3> HIDE DEF I
    <3> QED BY <3>1, BreakNone
  <2> HIDE DEF end
  <2> QED BY <2>1, PatternOK
<1> HIDE DEF end
<1> QED BY <1>1, <1>2, PatternOK DEF SeqTypes
\* An index of a table with one more entry is the new one or an old one.
LEMMA NewOrOld ==
  ASSUME NEW m \in Nat
  PROVE  \A i \in 1..(m + 1) : i = m + 1 \/ i \in 1..m
BY SMT

LEMMA AddKeeps ==
  ASSUME SequenceInv, NEW p \in Patterns, S!add_pattern(p)
  PROVE  SequenceInv'
<1> USE DEF S!add_pattern
<1>1. SeqTypes /\ SeqFlags
  BY DEF SequenceInv
<1>2. last' \in LastRecord
  BY LastType DEF S!Done, S!Ops
<1>3. SeqFlags'
  BY <1>1, <1>2, Zenon DEF SeqFlags
<1> DEFINE n == Len(patterns)
<1>4. n \in Nat /\ p \in Seq(Buttons) /\ p # <<>> /\ Len(p) \in Nat \ {0} /\ <<>> \in Seq(Buttons)
  BY PatternOK, <1>1, LibraryAssumption, EmptySeq
<1>5. /\ patterns' \in Seq(Patterns) /\ Len(patterns') = n + 1 /\ patterns'[n + 1] = p
      /\ progress' \in Seq(Nat) /\ Len(progress') = n + 1 /\ progress'[n + 1] = 0
      /\ seen' \in Seq(Seq(Buttons)) /\ Len(seen') = n + 1 /\ seen'[n + 1] = <<>>
      /\ \A i \in 1..n : /\ patterns'[i] = patterns[i] /\ progress'[i] = progress[i]
                         /\ seen'[i] = seen[i]
  BY <1>1, <1>4, AppendProperties DEF SeqTypes
<1>6. DOMAIN patterns' = 1..(n + 1) /\ DOMAIN patterns = 1..n
  BY <1>1, <1>5, PatternOK, LenProperties
<1>7. SeqTypes'
  BY <1>1, <1>4, <1>5, <1>6 DEF SeqTypes
<1>8. Tracks(p, 0, <<>>)
  BY <1>4, TracksFresh
<1> HIDE DEF n
<1>9. UNCHANGED <<timers, seq_active, match_fn>>
  OBVIOUS
<1>10. \A i \in 1..(n + 1) : i = n + 1 \/ i \in 1..n
  BY <1>4, NewOrOld
<1> QED BY <1>3, <1>4, <1>5, <1>6, <1>7, <1>8, <1>9, <1>10 DEF SequenceInv

LEMMA ClearKeeps ==
  ASSUME SequenceInv, S!clear_patterns
  PROVE  SequenceInv'
<1> USE DEF S!clear_patterns
<1>1. last' \in LastRecord
  BY LastType DEF S!Done, S!Ops
<1>2. SeqFlags'
  BY <1>1, Zenon DEF SeqFlags, SequenceInv
<1>3. DOMAIN patterns' = {}
  OBVIOUS
<1>4. SeqTypes'
  BY <1>3, EmptySeq DEF SeqTypes, SequenceInv
<1> QED BY <1>2, <1>3, <1>4 DEF SequenceInv

LEMMA ConfigureKeeps ==
  ASSUME SequenceInv, NEW s \in BOOLEAN, NEW t \in Thresholds, S!configure(s, t)
  PROVE  SequenceInv'
<1> USE DEF S!configure
<1>1. last' \in LastRecord
  BY LastType DEF S!Done, S!Ops
<1>2. SeqFlags'
  BY <1>1, Zenon DEF SeqFlags, SequenceInv
<1>3. SeqTypes'
  BY DEF SeqTypes, SequenceInv
<1> QED BY <1>2, <1>3 DEF SequenceInv

LEMMA HandlerKeeps ==
  ASSUME SequenceInv, S!handler
  PROVE  SequenceInv'
<1>1. SeqTypes /\ SeqFlags /\ seq_active
  BY DEF SequenceInv, S!handler
<1>2. CASE seq_ticks + 1 > threshold
  <2>1. S!Over /\ S!Done("handler", FALSE, (IF timeout_fn THEN 1 ELSE 0) + S!Forced(FALSE))
        /\ UNCHANGED <<threshold, stream, patterns>>
    BY <1>1, <1>2 DEF S!handler
  <2>2. "handler" \in S!Ops /\ (IF timeout_fn THEN 1 ELSE 0) + S!Forced(FALSE) \in Nat
        /\ NoButton \in Buttons \cup {NoButton}
    BY DEF S!Ops, S!Forced
  <2>3. FALSE \in BOOLEAN
    BY Zenon
  <2>4. last' \in LastRecord
    BY <2>1, <2>2, <2>3, LastType, Zenon DEF S!Done
  <2> QED BY <2>1, <2>4, OverKeeps
<1>3. CASE ~(seq_ticks + 1 > threshold)
  <2>1. /\ seq_ticks' = seq_ticks + 1 /\ S!Done("handler", FALSE, 0)
        /\ UNCHANGED <<timers, progress, seq_active, match_fn, timeout_fn, seen, threshold, stream,
                       patterns>>
    BY <1>1, <1>3 DEF S!handler
  <2>2. last' \in LastRecord
    BY <2>1, LastType DEF S!Done, S!Ops
  <2>3. SeqFlags'
    BY <1>1, <2>1, <2>2, Zenon DEF SeqFlags
  <2>4. SeqTypes'
    BY <1>1, <1>3, <2>1, LibraryAssumption DEF SeqTypes
  <2> QED BY <2>1, <2>3, <2>4 DEF SequenceInv
<1> QED BY <1>2, <1>3

LEMMA ResetKeeps ==
  ASSUME SequenceInv, S!reset
  PROVE  SequenceInv'
<1>1. "reset" \in S!Ops /\ S!Forced(timeout_fn) \in Nat /\ NoButton \in Buttons \cup {NoButton}
  BY DEF S!Ops, S!Forced
<1>2. FALSE \in BOOLEAN
  BY Zenon
<1>3. last' \in LastRecord
  BY <1>1, <1>2, LastType, Zenon DEF S!reset, S!Done
<1> QED BY <1>3, OverKeeps DEF S!reset

LEMMA PressedType ==
  ASSUME NEW b \in Buttons, NEW m \in BOOLEAN, NEW t \in Nat, S!Pressed(b, m, t)
  PROVE  last' \in LastRecord /\ last'.matched = m /\ last'.timeouts = t /\ last'.button = b
<1>1. "detect" \in S!Ops /\ b \in Buttons \cup {NoButton}
  BY DEF S!Ops
<1>2. last' \in LastRecord
  BY <1>1, LastType, Zenon DEF S!Pressed, LastRecord
<1> QED BY <1>2 DEF S!Pressed

(* A match: what match_fn and the reset after it leave. *)
LEMMA MatchedKeeps ==
  ASSUME SequenceInv, NEW b \in Buttons, NEW ht \in BOOLEAN, S!Matched(b, ht),
         UNCHANGED <<threshold, stream, patterns>>,
         seq_active' \/ SeqKey \notin timers',
         match_fn' \in BOOLEAN, timeout_fn' \in BOOLEAN
  PROVE  /\ SequenceInv'
         /\ last'.matched = TRUE
         /\ last'.timeouts = IF ~seq_active' /\ stream /\ ht THEN 1 ELSE 0
<1>1. PICK resets \in BOOLEAN :
        /\ progress' = S!Zero /\ seen' = S!Fresh /\ seq_ticks' = 0
        /\ S!Pressed(b, TRUE, IF resets /\ stream /\ ht THEN 1 ELSE 0)
        /\ seq_active' = (stream /\ ~resets)
  BY DEF S!Matched
<1>2. (IF resets /\ stream /\ ht THEN 1 ELSE 0) \in Nat /\ TRUE \in BOOLEAN
  OBVIOUS
<1>3. /\ last' \in LastRecord /\ last'.matched = TRUE
      /\ last'.timeouts = IF resets /\ stream /\ ht THEN 1 ELSE 0
  BY <1>1, <1>2, PressedType
<1>4. stream \in BOOLEAN /\ threshold' = threshold /\ threshold \in Thresholds
  BY DEF SequenceInv, SeqFlags
<1>5. SeqFlags'
  <2>1. threshold' \in Thresholds
    BY <1>4
  <2> QED BY <1>1, <1>3, <1>4, <2>1, Zenon DEF SeqFlags, LastRecord
<1>6. /\ SeqTypes'
      /\ \A i \in DOMAIN patterns' :
           progress'[i] < Len(patterns'[i]) /\ Tracks(patterns'[i], progress'[i], seen'[i])
      /\ \A i \in DOMAIN patterns' : seen'[i] = <<>>
  BY <1>1, FreshTypes DEF SequenceInv
<1>7. last'.timeouts = IF ~seq_active' /\ stream /\ ht THEN 1 ELSE 0
  BY <1>1, <1>3, <1>4
<1> QED BY <1>3, <1>5, <1>6, <1>7 DEF SequenceInv

(* The patterns that occur after a press, of which a match tells. *)
Occurs(b) == \E i \in DOMAIN patterns : S!Embeds(patterns[i], Append(seen[i], b))

LEMMA FirstKeeps ==
  ASSUME SequenceInv, NEW b \in Buttons, NEW hm \in BOOLEAN, NEW ht \in BOOLEAN,
         S!DetectFirst(b, hm, ht)
  PROVE  /\ SequenceInv'
         /\ (seq_active' => match_fn') => (last'.matched <=> Occurs(b))
<1>0. SeqTypes /\ SeqFlags /\ ~seq_active /\ UNCHANGED <<threshold, stream, patterns>>
  BY DEF SequenceInv, S!DetectFirst
<1>1. /\ DOMAIN patterns = 1..Len(patterns) /\ Len(patterns) \in Nat
      /\ DOMAIN progress = DOMAIN patterns /\ DOMAIN seen = DOMAIN patterns
      /\ \A i \in DOMAIN patterns :
           /\ patterns[i] \in Seq(Buttons) /\ patterns[i] # <<>>
           /\ Len(patterns[i]) \in Nat \ {0}
           /\ Len(patterns[i]) > 1 => patterns[i][1] # patterns[i][2]
           /\ progress[i] \in Nat /\ seen[i] = <<>>
  BY <1>0, PatternOK DEF SequenceInv
(* What occurs after one press is a pattern of one button. *)
<1>2. ASSUME NEW i \in DOMAIN patterns
      PROVE  LET n == IF patterns[i][1] = b THEN 1 ELSE 0 IN
             /\ Append(seen[i], b) = <<b>> /\ <<b>> \in Seq(Buttons)
             /\ Tracks(patterns[i], n, <<b>>)
             /\ S!Embeds(patterns[i], <<b>>) <=> patterns[i] = <<b>>
             /\ n = Len(patterns[i]) <=> patterns[i] = <<b>>
  <2> DEFINE p == patterns[i]
             n == IF p[1] = b THEN 1 ELSE 0
  <2>1. Append(<<>>, b) = <<b>> /\ <<>> \in Seq(Buttons) /\ <<b>> \in Seq(Buttons)
    OBVIOUS
  <2>2. p \in Seq(Buttons) /\ p # <<>> /\ Len(p) \in Nat \ {0}
    BY <1>1
  <2> HIDE DEF p
  <2>3. Tracks(p, 0, <<>>)
    BY <2>2, TracksFresh
  <2>4. 0 \in Nat /\ 0 < Len(p) /\ 0 + 1 = 1
    BY <2>2
  <2>5. Tracks(p, IF p[0 + 1] = b THEN 0 + 1 ELSE 0, Append(<<>>, b))
    BY <2>1, <2>2, <2>3, <2>4, TracksNext
  <2>6. Tracks(p, n, <<b>>)
    BY <2>1, <2>4, <2>5
  <2>7. Len(p) = 1 /\ p[1] = b => p = <<b>>
    <3> SUFFICES ASSUME Len(p) = 1, p[1] = b PROVE p = <<b>>
      OBVIOUS
    <3>1. Len(<<b>>) = 1 /\ <<b>>[1] = b
      OBVIOUS
    <3> QED BY <3>1, <2>1, <2>2, SeqEqual
  <2>8. n = Len(p) <=> p = <<b>>
    BY <2>2, <2>7
  <2>9. n \in 0..Len(p)
    BY <2>2
  <2>10. S!Embeds(p, <<b>>) <=> n = Len(p)
    BY <2>2, <2>6, <2>9, TracksWhole
  <2> QED BY <2>1, <2>6, <2>8, <2>10, <1>1 DEF p
<1>3. Occurs(b) <=> \E i \in DOMAIN patterns : patterns[i] = <<b>>
  BY <1>2 DEF Occurs
<1>4. CASE \A i \in DOMAIN patterns : patterns[i][1] # b
  <2>1. /\ progress' = S!Zero /\ S!Pressed(b, FALSE, 0)
        /\ UNCHANGED <<timers, seq_ticks, seq_active, match_fn, timeout_fn, seen>>
    BY <1>4 DEF S!DetectFirst
  <2>2. 0 \in Nat /\ FALSE \in BOOLEAN
    OBVIOUS
  <2>3. last' \in LastRecord /\ last'.matched = FALSE
    BY <2>1, <2>2, PressedType
  <2>4. SeqFlags'
    BY <1>0, <2>1, <2>3, Zenon DEF SeqFlags, LastRecord
  <2>5. SeqTypes'
    <3>1. progress' \in Seq(Nat) /\ Len(progress') = Len(patterns)
          /\ \A i \in DOMAIN patterns : progress'[i] <= Len(patterns[i])
      BY <1>0, <1>1, <2>1, ZeroFresh
    <3> QED BY <1>0, <2>1, <3>1 DEF SeqTypes
  <2>6. ~Occurs(b)
    BY <1>3, <1>4
  <2> QED BY <1>0, <2>1, <2>3, <2>4, <2>5, <2>6 DEF SequenceInv
<1>5. CASE ~(\A i \in DOMAIN patterns : patterns[i][1] # b)
  <2> DEFINE from  == S!Started(b)
             first == \E i \in DOMAIN patterns : patterns[i] = <<b>>
  <2>1. /\ from \in [DOMAIN patterns -> Nat]
        /\ \A i \in DOMAIN patterns : from[i] <= Len(patterns[i])
        /\ ~first => \A i \in DOMAIN patterns : from[i] = IF patterns[i][1] = b THEN 1 ELSE 0
    BY <1>0, StartedType
  <2>2. CASE hm /\ (first \/ S!Completing(from, b) # {})
    <3>1. S!Matched(b, ht)
      BY <1>5, <2>2 DEF S!DetectFirst
    <3>2. seq_active' \in BOOLEAN
      BY <1>0, Zenon, <3>1 DEF S!Matched, SeqFlags
    <3>3. IF seq_active' THEN S!SetTimer /\ match_fn' = hm /\ timeout_fn' = ht
          ELSE S!StopTimer /\ match_fn' = FALSE /\ timeout_fn' = FALSE
      BY <1>5, <2>2 DEF S!DetectFirst
    <3>4. seq_active' \/ SeqKey \notin timers'
      BY <3>3 DEF S!StopTimer
    <3>5. match_fn' \in BOOLEAN /\ timeout_fn' \in BOOLEAN
      BY <3>3, Zenon
    <3>6. SequenceInv' /\ last'.matched = TRUE
      BY <1>0, <3>1, <3>4, <3>5, MatchedKeeps
    <3>7. first
      <4> SUFFICES ASSUME ~first PROVE FALSE
        OBVIOUS
      <4>1. PICK i \in DOMAIN patterns : S!Step(i, from, b) # from[i] /\ S!Step(i, from, b) = Len(patterns[i])
        BY <2>2 DEF S!Completing
      <4>2. from[i] = IF patterns[i][1] = b THEN 1 ELSE 0
        BY <2>1
      <4>3. Len(patterns[i]) # 1 \/ patterns[i][1] # b
        BY <1>2
      <4> QED BY <4>1, <4>2, <4>3, <1>1 DEF S!Step
    <3> QED BY <3>6, <3>7, <1>3
  <2>3. CASE ~(hm /\ (first \/ S!Completing(from, b) # {}))
    <3>1. /\ progress' = S!Advanced(from, b)
          /\ seen' = [i \in DOMAIN patterns |-> <<b>>]
          /\ seq_ticks' = 0 /\ seq_active' = TRUE
          /\ match_fn' = hm /\ timeout_fn' = ht
          /\ S!Pressed(b, FALSE, 0)
      BY <1>5, <2>3 DEF S!DetectFirst
    <3>2. 0 \in Nat /\ FALSE \in BOOLEAN
      OBVIOUS
    <3>3. last' \in LastRecord /\ last'.matched = FALSE
      BY <3>1, <3>2, PressedType
    <3>4. SeqFlags'
      BY <1>0, <3>1, <3>3, Zenon DEF SeqFlags, LastRecord
    <3>5. SeqTypes'
      <4>1. seen' \in [1..Len(patterns) -> Seq(Buttons)]
        BY <1>1, <3>1
      <4>2. seen' \in Seq(Seq(Buttons)) /\ Len(seen') = Len(patterns)
        BY <4>1, <1>1, FunIsSeq
      <4>3. progress' \in Seq(Nat) /\ Len(progress') = Len(patterns)
            /\ \A i \in DOMAIN patterns : progress'[i] <= Len(patterns[i])
        BY <1>0, <2>1, <3>1, StepType
      <4> QED BY <1>0, <3>1, <4>2, <4>3, LibraryAssumption DEF SeqTypes
    <3>6. hm => \A i \in DOMAIN patterns : progress'[i] = IF patterns[i][1] = b THEN 1 ELSE 0
      <4> SUFFICES ASSUME hm, NEW i \in DOMAIN patterns
                   PROVE  progress'[i] = IF patterns[i][1] = b THEN 1 ELSE 0
        OBVIOUS
      <4>1. ~first /\ S!Completing(from, b) = {}
        BY <2>3
      <4>2. progress'[i] = S!Step(i, from, b)
        BY <1>0, <3>1, <4>1, AdvancedAll
      <4>3. from[i] = IF patterns[i][1] = b THEN 1 ELSE 0
        BY <2>1, <4>1
      <4> QED BY <4>2, <4>3, <1>1 DEF S!Step
    <3>7. hm => \A i \in DOMAIN patterns :
                  progress'[i] < Len(patterns[i]) /\ Tracks(patterns[i], progress'[i], seen'[i])
      <4> SUFFICES ASSUME hm, NEW i \in DOMAIN patterns
                   PROVE  progress'[i] < Len(patterns[i]) /\ Tracks(patterns[i], progress'[i], seen'[i])
        OBVIOUS
      <4>1. seen'[i] = <<b>> /\ patterns[i] # <<b>>
        BY <2>3, <3>1
      <4>2. progress'[i] = IF patterns[i][1] = b THEN 1 ELSE 0
        BY <3>6
      <4> QED BY <4>1, <4>2, <1>1, <1>2
    <3>8. hm => ~Occurs(b)
      BY <1>3, <2>3
    <3>9. match_fn' = hm /\ seq_active'
      BY <3>1
    <3> QED BY <1>0, <3>3, <3>4, <3>5, <3>7, <3>8, <3>9 DEF SequenceInv
  <2> QED BY <2>2, <2>3
<1> QED BY <1>4, <1>5

LEMMA NextKeeps ==
  ASSUME SequenceInv, NEW b \in Buttons, S!DetectNext(b)
  PROVE  /\ SequenceInv'
         /\ match_fn => (last'.matched <=> Occurs(b))
         /\ ~seq_active' => last'.timeouts = IF stream /\ timeout_fn THEN 1 ELSE 0
<1>0. SeqTypes /\ SeqFlags /\ seq_active /\ UNCHANGED <<threshold, stream, patterns>>
  BY DEF SequenceInv, S!DetectNext
<1>1. /\ DOMAIN patterns = 1..Len(patterns) /\ Len(patterns) \in Nat
      /\ DOMAIN progress = DOMAIN patterns /\ DOMAIN seen = DOMAIN patterns
      /\ \A i \in DOMAIN patterns :
           /\ patterns[i] \in Seq(Buttons) /\ patterns[i] # <<>>
           /\ Len(patterns[i]) \in Nat \ {0}
           /\ progress[i] \in Nat /\ seen[i] \in Seq(Buttons)
           /\ progress[i] <= Len(patterns[i])
  BY <1>0, PatternOK DEF SeqTypes
<1>2. progress \in [DOMAIN patterns -> Nat]
  BY <1>0, <1>1, LenProperties DEF SeqTypes
(* With a match_fn, a pattern is complete exactly when it occurs. *)
<1>3. ASSUME match_fn, NEW i \in DOMAIN patterns
      PROVE  LET n == S!Step(i, progress, b) IN
             /\ Tracks(patterns[i], n, Append(seen[i], b))
             /\ S!Embeds(patterns[i], Append(seen[i], b)) <=> i \in S!Completing(progress, b)
             /\ i \notin S!Completing(progress, b) => n < Len(patterns[i])
  <2>1. progress[i] < Len(patterns[i]) /\ Tracks(patterns[i], progress[i], seen[i])
    BY <1>0, <1>3 DEF SequenceInv
  <2>2. /\ S!Step(i, progress, b) \in Nat /\ S!Step(i, progress, b) <= Len(patterns[i])
        /\ S!Step(i, progress, b)
             = IF patterns[i][progress[i] + 1] = b THEN progress[i] + 1 ELSE progress[i]
    BY <1>1, <2>1 DEF S!Step
  <2>3. Tracks(patterns[i], S!Step(i, progress, b), Append(seen[i], b))
    BY <1>1, <2>1, <2>2, TracksNext
  <2>4. S!Step(i, progress, b) \in 0..Len(patterns[i])
    BY <2>2, <1>1
  <2>5. S!Embeds(patterns[i], Append(seen[i], b)) <=> S!Step(i, progress, b) = Len(patterns[i])
    BY <1>1, <2>3, <2>4, TracksWhole
  <2>6. i \in S!Completing(progress, b) <=> S!Step(i, progress, b) = Len(patterns[i])
    BY <2>1 DEF S!Completing
  <2> QED BY <2>2, <2>3, <2>5, <2>6, <1>1
<1>4. match_fn => (Occurs(b) <=> S!Completing(progress, b) # {})
  <2>1. S!Completing(progress, b) \subseteq DOMAIN patterns
    BY DEF S!Completing
  <2> QED BY <1>3, <2>1 DEF Occurs
<1>5. CASE match_fn /\ S!Completing(progress, b) # {}
  <2>1. S!Matched(b, timeout_fn)
    BY <1>5 DEF S!DetectNext
  <2>2. IF seq_active' THEN UNCHANGED <<timers, cut, match_fn, timeout_fn>>
        ELSE S!StopTimer /\ match_fn' = FALSE /\ timeout_fn' = FALSE
    BY <1>5 DEF S!DetectNext
  <2>3. seq_active' \/ SeqKey \notin timers'
    BY <2>2 DEF S!StopTimer
  <2>4. match_fn' \in BOOLEAN /\ timeout_fn' \in BOOLEAN /\ timeout_fn \in BOOLEAN
    BY <1>0, <2>2, Zenon DEF SeqFlags
  <2>5. SequenceInv' /\ last'.matched = TRUE
        /\ last'.timeouts = IF ~seq_active' /\ stream /\ timeout_fn THEN 1 ELSE 0
    BY <1>0, <2>1, <2>3, <2>4, MatchedKeeps
  <2> QED BY <2>5, <1>4, <1>5
<1>6. CASE ~(match_fn /\ S!Completing(progress, b) # {})
  <2>1. /\ progress' = S!Advanced(progress, b)
        /\ seen' = [i \in DOMAIN patterns |-> Append(seen[i], b)]
        /\ seq_ticks' = 0 /\ S!Pressed(b, FALSE, 0)
        /\ UNCHANGED <<timers, cut, seq_active, match_fn, timeout_fn>>
    BY <1>6 DEF S!DetectNext
  <2>2. 0 \in Nat /\ FALSE \in BOOLEAN
    OBVIOUS
  <2>3. last' \in LastRecord /\ last'.matched = FALSE
    BY <2>1, <2>2, PressedType
  <2>4. SeqFlags'
    BY <1>0, <2>1, <2>3, Zenon DEF SeqFlags, LastRecord
  <2>5. SeqTypes'
    <3>1. seen' \in [1..Len(patterns) -> Seq(Buttons)]
      BY <1>1, <2>1, AppendProperties
    <3>2. seen' \in Seq(Seq(Buttons)) /\ Len(seen') = Len(patterns)
      BY <3>1, <1>1, FunIsSeq
    <3>3. progress' \in Seq(Nat) /\ Len(progress') = Len(patterns)
          /\ \A i \in DOMAIN patterns : progress'[i] <= Len(patterns[i])
      BY <1>0, <1>1, <1>2, <2>1, StepType
    <3> QED BY <1>0, <2>1, <3>2, <3>3, LibraryAssumption DEF SeqTypes
  <2>6. match_fn => \A i \in DOMAIN patterns :
                      progress'[i] < Len(patterns[i]) /\ Tracks(patterns[i], progress'[i], seen'[i])
    <3> SUFFICES ASSUME match_fn, NEW i \in DOMAIN patterns
                 PROVE  progress'[i] < Len(patterns[i]) /\ Tracks(patterns[i], progress'[i], seen'[i])
      OBVIOUS
    <3>1. progress'[i] = S!Step(i, progress, b)
      BY <1>0, <1>6, <2>1, AdvancedAll
    <3>2. seen'[i] = Append(seen[i], b)
      BY <2>1
    <3> QED BY <1>3, <1>6, <3>1, <3>2
  <2> QED BY <1>0, <1>4, <1>6, <2>1, <2>3, <2>4, <2>5, <2>6 DEF SequenceInv
<1> QED BY <1>5, <1>6
LEMMA SequenceStep ==
  ASSUME SequenceInv, S!Next
  PROVE  SequenceInv'
BY FirstKeeps, NextKeeps, AddKeeps, ConfigureKeeps, ClearKeeps, ResetKeeps, HandlerKeeps
   DEF S!Next, S!Script, S!Detect

LEMMA SequenceKept ==
  ASSUME SequenceInv, UNCHANGED sequenceVars, SeqKey \in timers' => SeqKey \in timers
  PROVE  SequenceInv'
<1>1. SeqFlags'
  BY Zenon DEF SequenceInv, SeqFlags, sequenceVars
<1>2. SeqTypes'
  BY DEF SequenceInv, SeqTypes, sequenceVars
<1> QED BY <1>1, <1>2 DEF SequenceInv, sequenceVars

(* The two action properties, of a step.                                    *)
MatchTold ==
  \A b \in Buttons :
    last'.op = "detect" /\ last'.button = b /\ (seq_active => match_fn) /\ (seq_active' => match_fn') =>
      (last'.matched <=>
         \E i \in DOMAIN patterns : S!Embeds(patterns[i], Append(seen[i], b)))

TimeoutOnce ==
  seq_active /\ ~seq_active' =>
    last'.timeouts = IF timeout_fn /\ (stream \/ last'.op = "handler") THEN 1 ELSE 0

LEMMA SequenceSteps ==
  ASSUME SequenceInv, S!Next
  PROVE  MatchTold /\ TimeoutOnce
<1>0. SeqFlags
  BY DEF SequenceInv
<1>1. ASSUME NEW b \in Buttons, NEW hm \in BOOLEAN, NEW ht \in BOOLEAN, S!DetectFirst(b, hm, ht)
      PROVE  MatchTold /\ TimeoutOnce
  <2>1. ~seq_active
    BY <1>1 DEF S!DetectFirst
  <2>2. last'.button = b
    BY <1>1 DEF S!DetectFirst, S!Matched, S!Pressed
  <2>3. (seq_active' => match_fn') => (last'.matched <=> Occurs(b))
    BY <1>1, FirstKeeps
  <2> QED BY <2>1, <2>2, <2>3 DEF MatchTold, TimeoutOnce, Occurs
<1>2. ASSUME NEW b \in Buttons, S!DetectNext(b)
      PROVE  MatchTold /\ TimeoutOnce
  <2>0. seq_active /\ ((\E t \in BOOLEAN : S!Matched(b, t)) \/ S!Pressed(b, FALSE, 0))
    BY <1>2, <1>0 DEF S!DetectNext, SeqFlags
  <2>1. last'.button = b /\ last'.op = "detect"
    BY <2>0 DEF S!Matched, S!Pressed
  <2>2. /\ match_fn => (last'.matched <=> Occurs(b))
        /\ ~seq_active' => last'.timeouts = IF stream /\ timeout_fn THEN 1 ELSE 0
    BY <1>2, NextKeeps
  <2> QED BY <2>0, <2>1, <2>2, <1>0 DEF MatchTold, TimeoutOnce, Occurs, SeqFlags
<1>3. ASSUME S!reset
      PROVE  MatchTold /\ TimeoutOnce
  <2>1. last'.op = "reset" /\ last'.timeouts = S!Forced(timeout_fn)
    BY <1>3 DEF S!reset, S!Done
  <2> QED BY <2>1, <1>0 DEF MatchTold, TimeoutOnce, S!Forced, SeqFlags
<1>4. ASSUME S!handler
      PROVE  MatchTold /\ TimeoutOnce
  <2>1. CASE seq_active /\ seq_ticks + 1 > threshold
    <3>1. S!Done("handler", FALSE, (IF timeout_fn THEN 1 ELSE 0) + S!Forced(FALSE))
      BY <1>4, <2>1 DEF S!handler
    <3>2. (IF timeout_fn THEN 1 ELSE 0) + S!Forced(FALSE) = IF timeout_fn THEN 1 ELSE 0
      BY DEF S!Forced
    <3>3. last'.op = "handler" /\ last'.timeouts = IF timeout_fn THEN 1 ELSE 0
      BY <3>1, <3>2 DEF S!Done
    <3> QED BY <3>3 DEF MatchTold, TimeoutOnce
  <2>2. CASE ~(seq_active /\ seq_ticks + 1 > threshold)
    <3>1. S!Done("handler", FALSE, 0) /\ UNCHANGED seq_active
      BY <1>4, <2>2 DEF S!handler
    <3>2. last'.op = "handler"
      BY <3>1 DEF S!Done
    <3> QED BY <3>1, <3>2 DEF MatchTold, TimeoutOnce
  <2> QED BY <2>1, <2>2
<1>5. ASSUME NEW p \in Patterns, S!add_pattern(p)
      PROVE  MatchTold /\ TimeoutOnce
  BY <1>5 DEF S!add_pattern, S!Done, MatchTold, TimeoutOnce
<1>6. ASSUME S!clear_patterns
      PROVE  MatchTold /\ TimeoutOnce
  BY <1>6 DEF S!clear_patterns, S!Done, MatchTold, TimeoutOnce
<1>7. ASSUME NEW s \in BOOLEAN, NEW t \in Thresholds, S!configure(s, t)
      PROVE  MatchTold /\ TimeoutOnce
  BY <1>7 DEF S!configure, S!Done, MatchTold, TimeoutOnce
<1> QED BY <1>1, <1>2, <1>3, <1>4, <1>5, <1>6, <1>7 DEF S!Next, S!Script, S!Detect

-----------------------------------------------------------------------------
(******************************************************************************)
(* Touchpad.                                                                  *)
(******************************************************************************)
TouchTypes ==
  /\ P!Edge!TypeOK
  /\ contacts \in [P!Tids -> P!Contact \cup {P!NoContact}]
  /\ slots \in [P!Slots -> P!Tids \cup {0}] /\ mt \in [P!Slots -> P!Tids \cup {0}]
  /\ next_tracking_id \in P!Tids /\ basic_tid \in P!Tids \cup {0}
  /\ tool_keys_down \subseteq P!Tools
  /\ keys_down \subseteq P!Tools \cup {"TOUCH", BtnId}

TouchFlags ==
  mode \in {"multitouch", "basic"} /\ in_frame \in BOOLEAN

(* Each slot has a contact of its own, and shows it if it touches, in the   *)
(* middle of a frame as well. *)
SlotsShow ==
  /\ \A s \in P!Slots :
       /\ slots[s] # 0 => slots[s] \in P!Live
       /\ mt[s] # 0 => mt[s] = slots[s]
       /\ mode = "multitouch" /\ slots[s] # 0 /\ contacts[slots[s]].touching => mt[s] = slots[s]
       /\ mode = "basic" => slots[s] = 0
  /\ \A s, r \in P!Slots : slots[s] = slots[r] /\ slots[s] # 0 => s = r
  /\ mode = "multitouch" => \A t \in P!Live : \E s \in P!Slots : slots[s] = t

KeysShow ==
  /\ keys_down \cap P!Tools = tool_keys_down
  /\ ~in_frame => /\ tool_keys_down = P!DesiredTools
                  /\ "TOUCH" \in keys_down <=> P!Touching # {}

TouchpadInv == TouchTypes /\ TouchFlags /\ SlotsShow /\ KeysShow

LEMMA FingerCardinality ==
  P!FingerCount = Cardinality(P!Touching)
BY DEF P!FingerCount, P!Cardinality, Cardinality

LEMMA TouchpadMeans ==
  ASSUME TouchpadInv
  PROVE  P!TypeOK /\ ContactsAgree
<1>1. P!TypeOK
  BY Zenon DEF TouchpadInv, TouchTypes, TouchFlags, P!TypeOK
<1>2. 0 \notin P!Live
  BY DEF P!Live, P!Tids
<1>3. mode = "multitouch" => P!Live = {slots[s] : s \in P!Slots} \ {0}
  BY <1>2 DEF TouchpadInv, SlotsShow
<1>4. ContactsAgree
  BY <1>2, <1>3 DEF TouchpadInv, SlotsShow, KeysShow, ContactsAgree, P!ContactsAgree
<1> QED BY <1>1, <1>4

LEMMA Fingers ==
  ASSUME contacts \in [P!Tids -> P!Contact \cup {P!NoContact}]
  PROVE  /\ P!FingerCount \in Nat /\ (P!FingerCount > 0 <=> P!Touching # {})
         /\ P!DesiredTools \subseteq P!Tools
<1>1. IsFiniteSet(P!Tids)
  BY FS_Interval, LibraryAssumption DEF P!Tids
<1>2. P!Touching \subseteq P!Tids
  BY DEF P!Touching, P!Live
<1>3. IsFiniteSet(P!Touching)
  BY <1>1, <1>2, FS_Subset
<1>4. P!FingerCount \in Nat /\ (P!FingerCount = 0 <=> P!Touching = {})
  BY <1>3, FS_CardinalityType, FS_EmptySet, FingerCardinality
<1>5. P!DesiredTools \subseteq P!Tools
  BY <1>4 DEF P!DesiredTools, P!Tools
<1> QED BY <1>4, <1>5

LEMMA TouchpadInit ==
  ASSUME P!Init
  PROVE  TouchpadInv
<1> USE DEF P!Init, P!Edge!Init
<1>1. TouchFlags
  BY Zenon DEF TouchFlags
<1>2. TouchTypes
  BY LibraryAssumption DEF TouchTypes, P!Edge!TypeOK, P!Tids, P!Slots
<1>3. P!Live = {} /\ P!Ended = {} /\ P!Touching = {}
  BY DEF P!Live, P!Ended, P!Touching
<1>4. SlotsShow
  BY <1>3 DEF SlotsShow
<1>5. P!DesiredTools = {}
  <2>1. P!FingerCount = 0
    BY <1>3, FS_EmptySet, FingerCardinality
  <2> QED BY <2>1 DEF P!DesiredTools
<1>6. KeysShow
  BY <1>3, <1>5 DEF KeysShow
<1> QED BY <1>1, <1>2, <1>4, <1>6 DEF TouchpadInv

LEMMA BeginKeeps ==
  ASSUME TouchpadInv, P!begin_frame
  PROVE  TouchpadInv'
<1> USE DEF TouchpadInv, P!begin_frame
<1>1. TouchFlags'
  BY Zenon DEF TouchFlags
<1>2. ASSUME NEW t \in P!Tids
      PROVE  /\ contacts'[t] \in P!Contact \cup {P!NoContact}
             /\ contacts'[t] = P!NoContact <=> contacts[t] = P!NoContact
             /\ contacts'[t].touching = contacts[t].touching
  <2>1. contacts[t] \in P!Contact \cup {P!NoContact}
    BY DEF TouchTypes
  <2>2. contacts'[t] = [contacts[t] EXCEPT !.seen = FALSE]
    OBVIOUS
  <2>3. CASE contacts[t] = P!NoContact
    <3>1. /\ P!NoContact.seen = FALSE
          /\ P!NoContact \in [touching : BOOLEAN, button : {"none"}, seen : BOOLEAN]
      BY DEF P!NoContact
    <3>2. [P!NoContact EXCEPT !.seen = FALSE] = P!NoContact
      BY <3>1
    <3> QED BY <2>2, <2>3, <3>2
  <2>4. CASE contacts[t] \in P!Contact
    <3>1. contacts'[t] \in P!Contact /\ contacts'[t].touching = contacts[t].touching
      BY <2>2, <2>4 DEF P!Contact
    <3>2. contacts'[t] # P!NoContact /\ contacts[t] # P!NoContact
      BY <3>1, <2>4 DEF P!Contact, P!NoContact
    <3> QED BY <3>1, <3>2
  <2> QED BY <2>1, <2>3, <2>4
<1>3. contacts' \in [P!Tids -> P!Contact \cup {P!NoContact}] /\ P!Live' = P!Live
  BY <1>2 DEF P!Live
<1>4. TouchTypes'
  BY <1>3 DEF TouchTypes, P!Edge!TypeOK
<1>5. SlotsShow'
  BY <1>2, <1>3 DEF SlotsShow, P!Live
<1>6. KeysShow'
  BY DEF KeysShow
<1> QED BY <1>1, <1>4, <1>5, <1>6

LEMMA FeedKeeps ==
  ASSUME TouchpadInv, NEW s \in P!Slots, NEW touching \in BOOLEAN,
         NEW button \in {"nil", "released", "pressed"}, P!feed_contact(s, touching, button)
  PROVE  TouchpadInv'
<1> DEFINE known == IF mode = "multitouch" THEN slots[s] ELSE basic_tid
           c     == [touching |-> touching, button |-> button, seen |-> TRUE]
<1>1. PICK t \in P!Tids :
        /\ P!Tid(known, t)
        /\ next_tracking_id' = IF known = 0 THEN P!NextTid ELSE next_tracking_id
        /\ contacts' = [contacts EXCEPT ![t] = c]
        /\ IF mode = "multitouch"
           THEN /\ slots' = [slots EXCEPT ![s] = t]
                /\ mt' = IF touching THEN [mt EXCEPT ![s] = t] ELSE mt
                /\ UNCHANGED basic_tid
           ELSE basic_tid' = t /\ UNCHANGED <<slots, mt>>
  BY DEF P!feed_contact
<1>2. in_frame /\ UNCHANGED <<mode, tool_keys_down, in_frame, keys_down, last_state, active_ids>>
  BY DEF P!feed_contact
<1>3. TouchFlags'
  BY <1>2, Zenon DEF TouchpadInv, TouchFlags
<1>4. c \in P!Contact /\ c # P!NoContact /\ c.touching = touching
  BY DEF P!Contact, P!NoContact
<1> HIDE DEF c
<1>5. TouchTypes'
  <2>1. P!NextTid \in P!Tids
    BY LibraryAssumption DEF P!NextTid, P!Tids, TouchpadInv, TouchTypes
  <2> QED BY <1>1, <1>2, <1>4, <2>1 DEF TouchpadInv, TouchTypes, P!Edge!TypeOK
<1>6. P!Live' = P!Live \cup {t} /\ t # 0
  BY <1>1, <1>4 DEF TouchpadInv, TouchTypes, P!Live, P!Tids
<1>7. SlotsShow'
  <2>1. \A u \in P!Tids : contacts'[u] = IF u = t THEN c ELSE contacts[u]
    BY <1>1 DEF TouchpadInv, TouchTypes
  <2>2. CASE mode = "multitouch"
    <3>1. \A r \in P!Slots : /\ slots'[r] = IF r = s THEN t ELSE slots[r]
                             /\ mt'[r] = IF r = s /\ touching THEN t ELSE mt[r]
      BY <1>1, <2>2 DEF TouchpadInv, TouchTypes
    <3>2. \A r \in P!Slots : r # s => slots[r] # t
      BY <1>1, <1>6, <2>2 DEF TouchpadInv, SlotsShow, P!Tid, P!TidFree
    <3>3. slots[s] # 0 => slots[s] = t
      BY <1>1, <2>2 DEF P!Tid
    <3>4. \A r \in P!Slots : slots[r] \in P!Tids \cup {0}
      BY DEF TouchpadInv, TouchTypes
    <3>5. ASSUME NEW r \in P!Slots
          PROVE  /\ slots'[r] # 0 => slots'[r] \in P!Live'
                 /\ mt'[r] # 0 => mt'[r] = slots'[r]
                 /\ slots'[r] # 0 /\ contacts'[slots'[r]].touching => mt'[r] = slots'[r]
      <4>1. CASE r = s
        <5>1. slots'[r] = t /\ contacts'[t] = c /\ t \in P!Live'
          BY <1>6, <2>1, <3>1, <4>1
        <5>2. mt[r] # 0 => mt[r] = t
          BY <3>3, <4>1 DEF TouchpadInv, SlotsShow
        <5> QED BY <1>4, <3>1, <4>1, <5>1, <5>2
      <4>2. CASE r # s
        <5>1. slots'[r] = slots[r] /\ mt'[r] = mt[r]
          BY <3>1, <4>2
        <5>2. slots[r] # 0 => contacts'[slots[r]] = contacts[slots[r]]
          BY <2>1, <3>2, <3>4, <4>2
        <5> QED BY <1>6, <2>2, <5>1, <5>2 DEF TouchpadInv, SlotsShow
      <4> QED BY <4>1, <4>2
    <3>6. \A q, r \in P!Slots : slots'[q] = slots'[r] /\ slots'[q] # 0 => q = r
      BY <3>1, <3>2 DEF TouchpadInv, SlotsShow
    <3>7. ASSUME NEW u \in P!Live'
          PROVE  \E r \in P!Slots : slots'[r] = u
      <4>1. CASE u = t
        BY <3>1, <4>1
      <4>2. CASE u # t
        <5>1. PICK r \in P!Slots : slots[r] = u
          BY <1>6, <2>2, <4>2 DEF TouchpadInv, SlotsShow
        <5>2. r # s
          BY <3>3, <4>2, <5>1, <1>6 DEF P!Live, P!Tids
        <5> QED BY <3>1, <5>1, <5>2
      <4> QED BY <4>1, <4>2
    <3> QED BY <1>2, <2>2, <3>5, <3>6, <3>7 DEF SlotsShow
  <2>3. CASE mode = "basic"
    BY <1>1, <1>2, <1>6, <2>3 DEF TouchpadInv, SlotsShow
  <2> QED BY <2>2, <2>3 DEF TouchpadInv, TouchFlags
<1>8. KeysShow'
  BY <1>2 DEF TouchpadInv, KeysShow
<1> QED BY <1>3, <1>5, <1>7, <1>8 DEF TouchpadInv

LEMMA EdgeResetKeeps ==
  ASSUME TouchpadInv, P!EdgeReset
  PROVE  TouchpadInv'
<1> USE DEF TouchpadInv, P!EdgeReset
<1>1. TouchFlags'
  BY Zenon DEF TouchFlags
<1>2. P!Edge!TypeOK'
  BY DEF TouchTypes, P!Edge!TypeOK, P!Edge!reset
<1>3. TouchTypes' /\ SlotsShow'
  BY <1>2 DEF TouchTypes, SlotsShow, P!Live
<1>4. KeysShow'
  BY DEF KeysShow, P!DesiredTools, P!FingerCount, P!Touching, P!Ended, P!Live
<1> QED BY <1>1, <1>3, <1>4

(* The button: nothing is reported, or an edge at most is emitted. *)
LEMMA EndButton ==
  ASSUME P!end_frame, P!Edge!TypeOK
  PROVE  LET keys == P!TouchAndTools(keys_down)
         IN  keys_down' \ {BtnId} = keys \ {BtnId} /\ P!Edge!TypeOK'
<1> DEFINE keys == P!TouchAndTools(keys_down)
<1>1. \/ \E t \in P!ButtonSources :
           /\ keys_down' = P!ButtonEvent(keys, contacts[t].button = "pressed")
           /\ P!Edge!detect(BtnId, contacts[t].button = "pressed")
      \/ keys_down' = keys /\ UNCHANGED <<last_state, active_ids>>
  BY DEF P!end_frame
<1> HIDE DEF keys
<1>2. ASSUME NEW t \in P!ButtonSources,
             keys_down' = P!ButtonEvent(keys, contacts[t].button = "pressed"),
             P!Edge!detect(BtnId, contacts[t].button = "pressed")
      PROVE  keys_down' \ {BtnId} = keys \ {BtnId} /\ P!Edge!TypeOK'
  BY <1>2 DEF P!ButtonEvent, P!Edge!detect, P!Edge!detects, P!Edge!TypeOK
<1>3. ASSUME keys_down' = keys, UNCHANGED <<last_state, active_ids>>
      PROVE  keys_down' \ {BtnId} = keys \ {BtnId} /\ P!Edge!TypeOK'
  BY <1>3 DEF P!Edge!TypeOK
<1> QED BY <1>1, <1>2, <1>3 DEF keys

LEMMA EndKeeps ==
  ASSUME TouchpadInv, P!end_frame
  PROVE  TouchpadInv'
<1> DEFINE keys == P!TouchAndTools(keys_down)
<1>0. TouchTypes /\ TouchFlags /\ SlotsShow /\ KeysShow
  BY DEF TouchpadInv
<1>1. /\ in_frame' = FALSE /\ mt' = P!EndedMt /\ tool_keys_down' = P!DesiredTools
      /\ contacts' = [t \in P!Tids |-> IF t \in P!Ended THEN P!NoContact ELSE contacts[t]]
      /\ slots' = [s \in P!Slots |-> IF slots[s] \in P!Ended THEN 0 ELSE slots[s]]
      /\ UNCHANGED <<mode, next_tracking_id, basic_tid>>
  BY DEF P!end_frame
<1>2. /\ P!FingerCount \in Nat /\ (P!FingerCount > 0 <=> P!Touching # {})
      /\ P!DesiredTools \subseteq P!Tools
  <2>1. contacts \in [P!Tids -> P!Contact \cup {P!NoContact}]
    BY <1>0 DEF TouchTypes
  <2> QED BY <2>1, Fingers
<1>3. /\ keys \cap P!Tools = P!DesiredTools
      /\ "TOUCH" \in keys <=> P!Touching # {}
      /\ BtnId \in keys <=> BtnId \in keys_down
      /\ keys \subseteq P!Tools \cup {"TOUCH", BtnId}
      /\ BtnId \notin P!Tools /\ BtnId # "TOUCH" /\ "TOUCH" \notin P!Tools
  <2>1. BtnId \notin P!Tools /\ BtnId # "TOUCH" /\ "TOUCH" \notin P!Tools
    BY LibraryAssumption DEF P!Tools
  <2> QED BY <1>0, <1>2, <2>1 DEF P!TouchAndTools, P!ToolEvents, KeysShow, TouchTypes
<1> HIDE DEF keys
(* What is left: the contacts that were fed. *)
<1>4. /\ P!Ended \subseteq P!Live /\ P!Live' = P!Live \ P!Ended
      /\ P!Ended' = {} /\ P!Touching' = P!Touching
      /\ \A t \in P!Live' : contacts'[t] = contacts[t]
  <2>1. P!Ended \subseteq P!Live /\ P!Live \subseteq P!Tids
    BY DEF P!Ended, P!Live
  <2>2. \A t \in P!Tids : contacts'[t] = IF t \in P!Ended THEN P!NoContact ELSE contacts[t]
    BY <1>1
  <2>3. P!Live' = P!Live \ P!Ended
    BY <2>1, <2>2 DEF P!Live
  <2>4. \A t \in P!Live' : contacts'[t] = contacts[t] /\ contacts[t].seen
    BY <2>1, <2>2, <2>3 DEF P!Ended
  <2>5. P!Ended' = {}
    BY <2>4 DEF P!Ended
  <2>6. P!Touching' = P!Touching
    BY <2>3, <2>4, <2>5 DEF P!Touching
  <2> QED BY <2>1, <2>3, <2>4, <2>5, <2>6
<1>5. P!DesiredTools' = P!DesiredTools
  BY <1>4 DEF P!DesiredTools, P!FingerCount
<1>6. keys_down' \ {BtnId} = keys \ {BtnId} /\ P!Edge!TypeOK'
  BY <1>0, EndButton DEF keys, TouchTypes
<1>7. TouchFlags'
  BY <1>0, <1>1, Zenon DEF TouchFlags
<1>8. TouchTypes'
  <2>1. contacts' \in [P!Tids -> P!Contact \cup {P!NoContact}]
    BY <1>0, <1>1 DEF TouchTypes
  <2>2. slots' \in [P!Slots -> P!Tids \cup {0}] /\ mt' \in [P!Slots -> P!Tids \cup {0}]
    BY <1>0, <1>1 DEF TouchTypes, P!EndedMt
  <2>3. keys_down' \subseteq P!Tools \cup {"TOUCH", BtnId}
    BY <1>3, <1>6
  <2> QED BY <1>0, <1>1, <1>2, <1>6, <2>1, <2>2, <2>3 DEF TouchTypes
<1>9. SlotsShow'
  <2>1. \A s \in P!Slots :
          /\ slots'[s] = IF slots[s] \in P!Ended THEN 0 ELSE slots[s]
          /\ mt'[s] = IF mode = "multitouch" /\ slots[s] \in P!Ended THEN 0 ELSE mt[s]
    BY <1>1 DEF P!EndedMt
  <2>2. 0 \notin P!Live
    BY DEF P!Live, P!Tids
  <2>3. ASSUME NEW s \in P!Slots
        PROVE  /\ slots'[s] # 0 => slots'[s] \in P!Live'
               /\ mt'[s] # 0 => mt'[s] = slots'[s]
               /\ mode = "multitouch" /\ slots'[s] # 0 /\ contacts'[slots'[s]].touching
                    => mt'[s] = slots'[s]
               /\ mode = "basic" => slots'[s] = 0
    BY <1>0, <1>4, <2>1, <2>2 DEF SlotsShow, TouchFlags
  <2>4. \A s, r \in P!Slots : slots'[s] = slots'[r] /\ slots'[s] # 0 => s = r
    BY <1>0, <2>1 DEF SlotsShow
  <2>5. mode = "multitouch" => \A t \in P!Live' : \E s \in P!Slots : slots'[s] = t
    BY <1>0, <1>4, <2>1 DEF SlotsShow
  <2> QED BY <1>1, <2>3, <2>4, <2>5 DEF SlotsShow
<1>10. KeysShow'
  <2>1. keys_down' \cap P!Tools = P!DesiredTools /\ ("TOUCH" \in keys_down' <=> P!Touching # {})
    BY <1>3, <1>6
  <2> QED BY <1>1, <1>4, <1>5, <2>1 DEF KeysShow
<1> QED BY <1>7, <1>8, <1>9, <1>10 DEF TouchpadInv

LEMMA TouchpadStep ==
  ASSUME TouchpadInv, P!Next
  PROVE  TouchpadInv'
BY BeginKeeps, EndKeeps, EdgeResetKeeps, FeedKeeps DEF P!Next, P!Script

LEMMA TouchpadKept ==
  ASSUME TouchpadInv, UNCHANGED touchpadVars
  PROVE  TouchpadInv'
<1> USE DEF touchpadVars
<1>1. TouchFlags'
  BY Zenon DEF TouchpadInv, TouchFlags
<1>2. TouchTypes'
  BY DEF TouchpadInv, TouchTypes, P!Edge!TypeOK
<1>3. P!Live' = P!Live /\ P!Touching' = P!Touching /\ P!DesiredTools' = P!DesiredTools
  BY DEF P!Live, P!Touching, P!Ended, P!DesiredTools, P!FingerCount
<1>4. SlotsShow' /\ KeysShow'
  BY <1>3 DEF TouchpadInv, SlotsShow, KeysShow
<1> QED BY <1>1, <1>2, <1>4 DEF TouchpadInv

-----------------------------------------------------------------------------
(******************************************************************************)
(* Keyboard.  NoStuckKeys and FnIsHeld are inductive, with the types: what a  *)
(* second press of a key replaces goes into replaced or forced.  That it can  *)
(* be replaced only for a modifier, or after a lost release (MappingIsKept),  *)
(* needs to know which keys are tracked while a report is being fed: of the   *)
(* other keys none that is still to be pressed (HidTracks).                   *)
(******************************************************************************)
TodoOK == todo.modsDown \subseteq prev_mods /\ todo.keysDown \subseteq prev_keys

HidTracks ==
  \A c \in Codes :
    active_keys["hid"][c] # {} =>
      IF c \in Mods THEN c \in todo.modsUp \cup todo.keysUp \cup prev_mods \cup prev_keys
      ELSE c \in todo.keysUp \/ c \in prev_keys \ todo.keysDown

EvdevTracks ==
  \A c \in Codes : active_keys["evdev"][c] # {} => c \in held \cup orphans

KeyboardInv == TypeOK /\ NoStuckKeys /\ FnIsHeld /\ TodoOK /\ HidTracks /\ EvdevTracks

(* Whatever a key is pressed as is a set of output keys. *)
LEMMA MappingType ==
  ASSUME NEW i \in Remappers, NEW c \in Codes
  PROVE  resolve_mapping(i, c) \subseteq Outs
<1>1. /\ c \in DOMAIN normal_map => normal_map[c] \subseteq Outs
      /\ c \in DOMAIN modifier_map => modifier_map[c] \subseteq Outs
      /\ c \in DOMAIN fn_map => fn_map[c] \subseteq Outs
      /\ {c} \subseteq Outs /\ {} \subseteq Outs
  BY DEF Outs
<1> QED BY <1>1 DEF resolve_mapping

(* What follows from a press, of a key that is tracked already or not.      *)
LEMMA PressKeeps ==
  ASSUME TypeOK, NoStuckKeys, FnIsHeld, NEW i \in Remappers, NEW c \in Codes, Press(i, c)
  PROVE  /\ fn_down' \in [Remappers -> BOOLEAN]
         /\ active_keys' \in [Remappers -> [Codes -> SUBSET Outs]]
         /\ down' \subseteq Outs /\ replaced' \subseteq Outs /\ forced' \subseteq Remappers
         /\ NoStuckKeys' /\ FnIsHeld'
         /\ \A j \in Remappers, e \in Codes :
              active_keys'[j][e] = active_keys[j][e] \/ (j = i /\ e = c)
<1> DEFINE old    == active_keys[i][c]
           mapped == resolve_mapping(i, c)
           lost_  == IF mapped \in {{}, old} THEN {} ELSE old
<1>1. mapped \subseteq Outs
  BY MappingType
<1>2. active_keys \in [Remappers -> [Codes -> SUBSET Outs]] /\ fn_down \in [Remappers -> BOOLEAN]
      /\ down \subseteq Outs /\ replaced \subseteq Outs /\ forced \subseteq Remappers
  BY DEF TypeOK
<1>3. /\ active_keys' = IF mapped = {} THEN active_keys ELSE [active_keys EXCEPT ![i][c] = mapped]
      /\ IF mapped = Placeholder
         THEN fn_down' = [fn_down EXCEPT ![i] = TRUE] /\ UNCHANGED down
         ELSE down' = down \cup mapped /\ UNCHANGED fn_down
      /\ IF lost_ = Placeholder
         THEN forced' = (IF fn_down[i] THEN forced \cup {i} ELSE forced) /\ UNCHANGED replaced
         ELSE replaced' = replaced \cup lost_ /\ UNCHANGED forced
  BY DEF Press
<1> HIDE DEF mapped
<1>4. /\ active_keys' \in [Remappers -> [Codes -> SUBSET Outs]]
      /\ \A j \in Remappers, e \in Codes :
           active_keys'[j][e] = active_keys[j][e] \/ (j = i /\ e = c)
      /\ active_keys'[i][c] = IF mapped = {} THEN old ELSE mapped
  BY <1>1, <1>2, <1>3
<1>5. fn_down' \in [Remappers -> BOOLEAN] /\ down' \subseteq Outs /\ replaced' \subseteq Outs
      /\ forced' \subseteq Remappers
  BY <1>1, <1>2, <1>3
<1>6. NoStuckKeys'
  <2> SUFFICES ASSUME NEW o \in down', o \notin replaced'
               PROVE  \E j \in Remappers, e \in Codes :
                        active_keys'[j][e] # Placeholder /\ o \in active_keys'[j][e]
    BY DEF NoStuckKeys, Tracked, Remappers
  <2>1. CASE o \in mapped /\ mapped # Placeholder
    BY <1>4, <2>1
  <2>2. CASE o \in down
    <3>1. o \notin replaced
      BY <1>3
    <3>2. PICK j \in Remappers, e \in Codes :
                 active_keys[j][e] # Placeholder /\ o \in active_keys[j][e]
      BY <2>2, <3>1 DEF NoStuckKeys, Tracked, Remappers
    <3>3. CASE active_keys'[j][e] = active_keys[j][e]
      BY <3>2, <3>3
    <3>4. CASE active_keys'[j][e] # active_keys[j][e]
      <4>1. j = i /\ e = c /\ o \in old /\ old # Placeholder
        BY <1>4, <3>2, <3>4
      <4>2. lost_ = old
        BY <1>4, <3>4, <4>1
      <4>3. o \in replaced'
        BY <1>3, <4>1, <4>2
      <4> QED BY <4>3
    <3> QED BY <3>3, <3>4
  <2> QED BY <1>3, <2>1, <2>2
<1>7. FnIsHeld'
  <2> SUFFICES ASSUME NEW j \in Remappers, fn_down'[j], j \notin forced'
               PROVE  \E e \in Codes : active_keys'[j][e] = Placeholder
    BY DEF FnIsHeld
  <2>1. CASE mapped = Placeholder /\ j = i
    BY <1>4, <2>1 DEF Placeholder
  <2>2. CASE ~(mapped = Placeholder /\ j = i)
    <3>1. fn_down[j] /\ j \notin forced
      BY <1>2, <1>3, <2>2
    <3>2. PICK e \in Codes : active_keys[j][e] = Placeholder
      BY <3>1 DEF FnIsHeld
    <3>3. CASE active_keys'[j][e] = active_keys[j][e]
      BY <3>2, <3>3
    <3>4. CASE active_keys'[j][e] # active_keys[j][e]
      <4>1. j = i /\ old = Placeholder
        BY <1>4, <3>2, <3>4
      <4>2. lost_ = Placeholder
        BY <1>4, <3>4, <4>1
      <4> QED BY <1>3, <3>1, <4>1, <4>2
    <3> QED BY <3>3, <3>4
  <2> QED BY <2>1, <2>2
<1> QED BY <1>4, <1>5, <1>6, <1>7

(* What follows from the release of a key: it is no longer tracked, and     *)
(* nothing else changes for the others. *)
LEMMA ReleaseKeeps ==
  ASSUME TypeOK, NoStuckKeys, FnIsHeld, NEW i \in Remappers, NEW c \in Codes, Release(i, c)
  PROVE  /\ fn_down' \in [Remappers -> BOOLEAN]
         /\ active_keys' \in [Remappers -> [Codes -> SUBSET Outs]]
         /\ down' \subseteq Outs /\ replaced' \subseteq Outs /\ forced' \subseteq Remappers
         /\ NoStuckKeys' /\ FnIsHeld'
         /\ active_keys'[i][c] = {}
         /\ \A j \in Remappers, e \in Codes :
              active_keys'[j][e] = active_keys[j][e] \/ (j = i /\ e = c)
<1> DEFINE mapped == active_keys[i][c]
<1>1. active_keys \in [Remappers -> [Codes -> SUBSET Outs]] /\ fn_down \in [Remappers -> BOOLEAN]
      /\ down \subseteq Outs /\ replaced \subseteq Outs /\ forced \subseteq Remappers
  BY DEF TypeOK
<1>2. /\ active_keys' = [active_keys EXCEPT ![i][c] = {}]
      /\ IF mapped = Placeholder
         THEN /\ fn_down' = [fn_down EXCEPT ![i] = FALSE] /\ forced' = forced \ {i}
              /\ UNCHANGED <<down, replaced>>
         ELSE /\ down' = down \ mapped /\ replaced' = replaced \ mapped
              /\ UNCHANGED <<fn_down, forced>>
  BY DEF Release
<1>3. /\ active_keys' \in [Remappers -> [Codes -> SUBSET Outs]]
      /\ \A j \in Remappers, e \in Codes :
           active_keys'[j][e] = active_keys[j][e] \/ (j = i /\ e = c)
      /\ active_keys'[i][c] = {}
  BY <1>1, <1>2
<1>4. fn_down' \in [Remappers -> BOOLEAN] /\ down' \subseteq Outs /\ replaced' \subseteq Outs
      /\ forced' \subseteq Remappers
  BY <1>1, <1>2
<1>5. NoStuckKeys'
  <2> SUFFICES ASSUME NEW o \in down', o \notin replaced'
               PROVE  \E j \in Remappers, e \in Codes :
                        active_keys'[j][e] # Placeholder /\ o \in active_keys'[j][e]
    BY DEF NoStuckKeys, Tracked, Remappers
  <2>1. o \in down /\ (mapped = Placeholder \/ o \notin mapped) /\ o \notin replaced
    BY <1>2
  <2>2. PICK j \in Remappers, e \in Codes :
               active_keys[j][e] # Placeholder /\ o \in active_keys[j][e]
    BY <2>1 DEF NoStuckKeys, Tracked, Remappers
  <2>3. ~(j = i /\ e = c)
    BY <2>1, <2>2
  <2> QED BY <1>3, <2>2, <2>3
<1>6. FnIsHeld'
  <2> SUFFICES ASSUME NEW j \in Remappers, fn_down'[j], j \notin forced'
               PROVE  \E e \in Codes : active_keys'[j][e] = Placeholder
    BY DEF FnIsHeld
  <2>1. fn_down[j] /\ j \notin forced /\ ~(mapped = Placeholder /\ j = i)
    BY <1>1, <1>2
  <2>2. PICK e \in Codes : active_keys[j][e] = Placeholder
    BY <2>1 DEF FnIsHeld
  <2> QED BY <1>3, <2>1, <2>2
<1> QED BY <1>3, <1>4, <1>5, <1>6

LEMMA KeyboardInit == Init => KeyboardInv
  BY DEF Init, KeyboardInv, TypeOK, NoStuckKeys, FnIsHeld, TodoOK, HidTracks, EvdevTracks,
         NoEvents, Remappers

(* An event of a report is the press or the release of one of its codes.    *)
FeedsPress(c) ==
  /\ Press("hid", c)
  /\ \/ c \in todo.modsDown /\ todo' = [todo EXCEPT !.modsDown = @ \ {c}]
     \/ c \in todo.keysDown /\ todo.keysUp = {} /\ todo' = [todo EXCEPT !.keysDown = @ \ {c}]

FeedsRelease(c) ==
  /\ Release("hid", c)
  /\ \/ c \in todo.modsUp /\ todo' = [todo EXCEPT !.modsUp = @ \ {c}]
     \/ c \in todo.keysUp /\ todo' = [todo EXCEPT !.keysUp = @ \ {c}]

LEMMA FeedCases ==
  ASSUME TypeOK, Feed
  PROVE  /\ UNCHANGED <<prev_mods, prev_keys, held, orphans>>
         /\ \E c \in Codes : FeedsPress(c) \/ FeedsRelease(c)
<1>1. todo.modsUp \cup todo.modsDown \cup todo.keysUp \cup todo.keysDown \subseteq Codes
  BY KeyboardAssumption DEF TypeOK
<1>2. /\ \A c \in todo.modsUp :
           Release("hid", c) /\ todo' = [todo EXCEPT !.modsUp = @ \ {c}] => FeedsRelease(c)
      /\ \A c \in todo.keysUp :
           Release("hid", c) /\ todo' = [todo EXCEPT !.keysUp = @ \ {c}] => FeedsRelease(c)
  BY Zenon DEF FeedsRelease
<1>3. /\ \A c \in todo.modsDown :
           Press("hid", c) /\ todo' = [todo EXCEPT !.modsDown = @ \ {c}] => FeedsPress(c)
      /\ \A c \in todo.keysDown :
           todo.keysUp = {} /\ Press("hid", c) /\ todo' = [todo EXCEPT !.keysDown = @ \ {c}]
             => FeedsPress(c)
  BY Zenon DEF FeedsPress
<1>4. \/ \E c \in todo.modsUp : Release("hid", c) /\ todo' = [todo EXCEPT !.modsUp = @ \ {c}]
      \/ \E c \in todo.modsDown : Press("hid", c) /\ todo' = [todo EXCEPT !.modsDown = @ \ {c}]
      \/ \E c \in todo.keysUp : Release("hid", c) /\ todo' = [todo EXCEPT !.keysUp = @ \ {c}]
      \/ \E c \in todo.keysDown :
           todo.keysUp = {} /\ Press("hid", c) /\ todo' = [todo EXCEPT !.keysDown = @ \ {c}]
  <2>1. todo.modsUp \cup todo.modsDown \cup todo.keysUp = {} => todo.keysUp = {}
    OBVIOUS
  <2> QED BY <2>1, Zenon DEF Feed
<1>5. \E c \in todo.modsUp \cup todo.modsDown \cup todo.keysUp \cup todo.keysDown :
        FeedsPress(c) \/ FeedsRelease(c)
  BY <1>2, <1>3, <1>4, Zenon
<1>6. UNCHANGED <<prev_mods, prev_keys, held, orphans>>
  BY DEF Feed
<1> QED BY <1>1, <1>5, <1>6

(* A report, one event after another. *)
LEMMA ReportKeeps ==
  ASSUME KeyboardInv,
         \/ \E mods \in SUBSET Mods, keys \in SUBSET Codes : parse_report(mods, keys)
         \/ Feed
  PROVE  KeyboardInv'
<1> USE DEF KeyboardInv
<1>1. ASSUME NEW mods \in SUBSET Mods, NEW keys \in SUBSET Codes, parse_report(mods, keys)
      PROVE  KeyboardInv'
  <2>1. /\ UNCHANGED <<fn_down, active_keys, held, down, forced, orphans, replaced>>
        /\ prev_mods' = mods /\ prev_keys' = keys
        /\ todo' = [modsUp |-> prev_mods \ mods, modsDown |-> mods \ prev_mods,
                    keysUp |-> prev_keys \ keys, keysDown |-> keys \ prev_keys]
        /\ todo = NoEvents
    BY <1>1 DEF parse_report, Idle
  <2>2. TypeOK' /\ TodoOK'
    BY <2>1 DEF TypeOK, TodoOK
  <2>3. HidTracks'
    BY <2>1 DEF HidTracks, NoEvents
  <2>4. NoStuckKeys' /\ EvdevTracks' /\ FnIsHeld'
    BY <2>1 DEF NoStuckKeys, Tracked, EvdevTracks, FnIsHeld
  <2> QED BY <2>2, <2>3, <2>4
<1>2. ASSUME NEW c \in Codes, FeedsPress(c), UNCHANGED <<prev_mods, prev_keys, held, orphans>>
      PROVE  KeyboardInv'
  <2>1. /\ fn_down' \in [Remappers -> BOOLEAN]
        /\ active_keys' \in [Remappers -> [Codes -> SUBSET Outs]]
        /\ down' \subseteq Outs /\ replaced' \subseteq Outs /\ forced' \subseteq Remappers
        /\ NoStuckKeys' /\ FnIsHeld'
        /\ \A j \in Remappers, e \in Codes :
             active_keys'[j][e] = active_keys[j][e] \/ (j = "hid" /\ e = c)
    BY <1>2, PressKeeps DEF Remappers, FeedsPress
  <2>2. TypeOK' /\ TodoOK'
    <3>1. CASE todo' = [todo EXCEPT !.modsDown = @ \ {c}]
      BY <1>2, <2>1, <3>1 DEF TypeOK, TodoOK
    <3>2. CASE todo' = [todo EXCEPT !.keysDown = @ \ {c}]
      BY <1>2, <2>1, <3>2 DEF TypeOK, TodoOK
    <3> QED BY <1>2, <3>1, <3>2 DEF FeedsPress
  <2>3. HidTracks'
    BY <1>2, <2>1 DEF HidTracks, TodoOK, TypeOK, Remappers, FeedsPress
  <2>4. EvdevTracks'
    BY <1>2, <2>1 DEF EvdevTracks, Remappers
  <2> QED BY <2>1, <2>2, <2>3, <2>4
<1>3. ASSUME NEW c \in Codes, FeedsRelease(c), UNCHANGED <<prev_mods, prev_keys, held, orphans>>
      PROVE  KeyboardInv'
  <2>1. /\ fn_down' \in [Remappers -> BOOLEAN]
        /\ active_keys' \in [Remappers -> [Codes -> SUBSET Outs]]
        /\ down' \subseteq Outs /\ replaced' \subseteq Outs /\ forced' \subseteq Remappers
        /\ NoStuckKeys' /\ FnIsHeld' /\ active_keys'["hid"][c] = {}
        /\ \A j \in Remappers, e \in Codes :
             active_keys'[j][e] = active_keys[j][e] \/ (j = "hid" /\ e = c)
    BY <1>3, ReleaseKeeps DEF Remappers, FeedsRelease
  <2>2. TypeOK' /\ TodoOK'
    BY <1>3, <2>1 DEF TypeOK, TodoOK, FeedsRelease
  <2>3. HidTracks'
    BY <1>3, <2>1 DEF HidTracks, TypeOK, Remappers, FeedsRelease
  <2>4. EvdevTracks'
    BY <1>3, <2>1 DEF EvdevTracks, Remappers
  <2> QED BY <2>1, <2>2, <2>3, <2>4
<1>4. CASE Feed
  BY <1>2, <1>3, <1>4, FeedCases
<1> QED BY <1>1, <1>4

LEMMA KeyboardStep == KeyboardInv /\ [Next]_vars => KeyboardInv'
<1> SUFFICES ASSUME KeyboardInv, [Next]_vars PROVE KeyboardInv'
  OBVIOUS
<1> USE DEF KeyboardInv
<1>1. ASSUME NEW i \in Remappers, NEW b \in BOOLEAN, set_fn_down(i, b) PROVE KeyboardInv'
  <2>1. TypeOK'
    BY <1>1 DEF set_fn_down, TypeOK
  <2>2. FnIsHeld'
    BY <1>1 DEF set_fn_down, FnIsHeld, TypeOK
  <2>3. NoStuckKeys' /\ HidTracks' /\ TodoOK' /\ EvdevTracks'
    BY <1>1 DEF set_fn_down, NoStuckKeys, Tracked, HidTracks, TodoOK, EvdevTracks
  <2> QED BY <2>1, <2>2, <2>3
<1>2. ASSUME NEW c \in Codes, EvdevPress(c) PROVE KeyboardInv'
  <2>1. /\ fn_down' \in [Remappers -> BOOLEAN]
        /\ active_keys' \in [Remappers -> [Codes -> SUBSET Outs]]
        /\ down' \subseteq Outs /\ replaced' \subseteq Outs /\ forced' \subseteq Remappers
        /\ NoStuckKeys' /\ FnIsHeld'
        /\ \A j \in Remappers, e \in Codes :
             active_keys'[j][e] = active_keys[j][e] \/ (j = "evdev" /\ e = c)
    BY <1>2, PressKeeps DEF EvdevPress, Remappers
  <2>2. TypeOK'
    BY <1>2, <2>1 DEF EvdevPress, TypeOK
  <2>3. HidTracks' /\ TodoOK' /\ EvdevTracks'
    BY <1>2, <2>1 DEF EvdevPress, HidTracks, TodoOK, EvdevTracks, Remappers
  <2> QED BY <2>1, <2>2, <2>3
<1>3. ASSUME NEW c \in Codes, EvdevRelease(c) PROVE KeyboardInv'
  <2>1. /\ fn_down' \in [Remappers -> BOOLEAN]
        /\ active_keys' \in [Remappers -> [Codes -> SUBSET Outs]]
        /\ down' \subseteq Outs /\ replaced' \subseteq Outs /\ forced' \subseteq Remappers
        /\ NoStuckKeys' /\ FnIsHeld' /\ active_keys'["evdev"][c] = {}
        /\ \A j \in Remappers, e \in Codes :
             active_keys'[j][e] = active_keys[j][e] \/ (j = "evdev" /\ e = c)
    BY <1>3, ReleaseKeeps DEF EvdevRelease, Remappers
  <2>2. TypeOK'
    BY <1>3, <2>1 DEF EvdevRelease, TypeOK
  <2>3. HidTracks' /\ TodoOK' /\ EvdevTracks'
    BY <1>3, <2>1 DEF EvdevRelease, HidTracks, TodoOK, EvdevTracks, Remappers
  <2> QED BY <2>1, <2>2, <2>3
<1>4. ASSUME NEW now \in SUBSET Codes, LoseEvents(now) PROVE KeyboardInv'
  <2>1. TypeOK'
    BY <1>4 DEF LoseEvents, TypeOK, Keys, Remappers
  <2>2. NoStuckKeys' /\ FnIsHeld'
    BY <1>4 DEF LoseEvents, NoStuckKeys, Tracked, FnIsHeld
  <2>3. HidTracks' /\ TodoOK' /\ EvdevTracks'
    BY <1>4 DEF LoseEvents, HidTracks, TodoOK, EvdevTracks, Keys
  <2> QED BY <2>1, <2>2, <2>3
<1>5. CASE UNCHANGED vars
  BY <1>5 DEF vars, TypeOK, NoStuckKeys, Tracked, HidTracks, TodoOK, EvdevTracks, FnIsHeld
<1> QED BY <1>1, <1>2, <1>3, <1>4, <1>5, ReportKeeps DEF Next

LEMMA KeyboardMeans == KeyboardInv => TypeOK /\ NoStuckKeys /\ TracksHeld /\ FnIsHeld
<1> SUFFICES ASSUME KeyboardInv PROVE TracksHeld
  BY DEF KeyboardInv
<1> QED BY DEF KeyboardInv, TracksHeld, HidTracks, EvdevTracks, Keys, Idle, NoEvents

(* The action property, of a step. *)
Kept ==
  \A i \in Remappers, c \in Codes :
    active_keys[i][c] # {} /\ active_keys'[i][c] \notin {{}, active_keys[i][c]} =>
      IF i = "evdev" THEN c \in orphans ELSE c \in Mods

(* Only a press replaces a mapping, and only that of its key. *)
LEMMA PressReplaces ==
  ASSUME TypeOK, NEW i \in Remappers, NEW c \in Codes, Press(i, c),
         active_keys[i][c] = {} \/ (IF i = "evdev" THEN c \in orphans ELSE c \in Mods)
  PROVE  Kept
<1>1. \A j \in Remappers, e \in Codes :
        active_keys'[j][e] = active_keys[j][e] \/ (j = i /\ e = c)
  BY DEF TypeOK, Press
<1> QED BY <1>1 DEF Kept

LEMMA KeyboardKept == KeyboardInv /\ [Next]_vars => [Kept]_vars
<1> SUFFICES ASSUME KeyboardInv, Next PROVE Kept
  OBVIOUS
<1>0. TypeOK /\ TodoOK /\ HidTracks /\ EvdevTracks
  BY DEF KeyboardInv
<1>1. ASSUME NEW i \in Remappers, NEW c \in Codes, Release(i, c) PROVE Kept
  <2>1. \A j \in Remappers, e \in Codes : active_keys'[j][e] \in {{}, active_keys[j][e]}
    BY <1>0, <1>1 DEF TypeOK, Release
  <2> QED BY <2>1 DEF Kept
<1>2. ASSUME UNCHANGED active_keys PROVE Kept
  BY <1>2 DEF Kept
<1>3. ASSUME NEW c \in Codes, FeedsPress(c) PROVE Kept
  <2>1. active_keys["hid"][c] = {} \/ c \in Mods
    BY <1>0, <1>3 DEF FeedsPress, HidTracks, TypeOK
  <2> QED BY <1>0, <1>3, <2>1, PressReplaces DEF FeedsPress, Remappers
<1>4. ASSUME NEW c \in Codes, EvdevPress(c) PROVE Kept
  <2>1. active_keys["evdev"][c] = {} \/ c \in orphans
    BY <1>0, <1>4 DEF EvdevPress, EvdevTracks
  <2> QED BY <1>0, <1>4, <2>1, PressReplaces DEF EvdevPress, Remappers
<1>5. CASE Feed
  <2>1. PICK c \in Codes : FeedsPress(c) \/ FeedsRelease(c)
    BY <1>0, <1>5, FeedCases
  <2> QED BY <1>1, <1>3, <2>1 DEF FeedsRelease, Remappers
<1>6. ASSUME NEW c \in Codes, EvdevRelease(c) PROVE Kept
  BY <1>1, <1>6 DEF EvdevRelease, Remappers
<1> QED BY <1>2, <1>4, <1>5, <1>6 DEF Next, set_fn_down, parse_report, LoseEvents

(* The variables of the remappers keep their types. *)
THEOREM KeyboardType == Spec => []TypeOK
  BY KeyboardInit, KeyboardStep, KeyboardMeans, PTL DEF Spec

(* No key stays down on the virtual keyboard whose release is not owed, but *)
(* for those of mappings that a second press replaced: whatever the maps    *)
(* are, and though a report may hold one code twice. *)
THEOREM KeyboardNoStuckKeys == Spec => []NoStuckKeys
  BY KeyboardInit, KeyboardStep, KeyboardMeans, PTL DEF Spec

(* A mapping is replaced only for a modifier of a report, or after its      *)
(* release was lost. *)
THEOREM KeyboardMappingIsKept == Spec => MappingIsKept
  BY KeyboardInit, KeyboardStep, KeyboardKept, PTL DEF Spec, MappingIsKept, Kept

(* Once all keys are up a remapper owes no release. *)
THEOREM KeyboardTracksHeld == Spec => []TracksHeld
  BY KeyboardInit, KeyboardStep, KeyboardMeans, PTL DEF Spec

(* Fn mode is on only while an Fn key is tracked, or was forced, or since   *)
(* the mapping of such a key was replaced. *)
THEOREM KeyboardFnIsHeld == Spec => []FnIsHeld
  BY KeyboardInit, KeyboardStep, KeyboardMeans, PTL DEF Spec

-----------------------------------------------------------------------------
(****************************************************************************)
(* The library.                                                             *)
(****************************************************************************)
TimersOK == timers \subseteq Callbacks /\ cut \subseteq Callbacks

LibraryInv ==
  TimersOK /\ ClickInv /\ SequenceInv /\ TickerInv /\ TouchpadInv /\ MouseInv

(* A helper sets and stops no timer but its own, and cuts none. *)
OwnTimer(k) ==
  /\ timers' \subseteq timers \cup {k} /\ timers \subseteq timers' \cup {k}
  /\ cut' \subseteq cut /\ cut \subseteq cut' \cup {k}

LEMMA ClickOwn == C!Next => OwnTimer(ClickKey)
<1> USE DEF OwnTimer, C!reset, C!Cleared, C!StopHeartbeat
<1>1. ASSUME NEW b \in Buttons, C!NextClick(b) PROVE OwnTimer(ClickKey)
  BY <1>1 DEF C!NextClick
<1>2. ASSUME NEW b \in Buttons, NEW given \in SUBSET C!Levels, C!FirstClick(b, given)
      PROVE  OwnTimer(ClickKey)
  BY <1>2 DEF C!FirstClick
<1>3. ASSUME NEW t \in Thresholds, C!configure(t) PROVE OwnTimer(ClickKey)
  BY <1>3 DEF C!configure
<1>4. ASSUME C!Reset PROVE OwnTimer(ClickKey)
  BY <1>4 DEF C!Reset
<1>5. ASSUME C!click_handler PROVE OwnTimer(ClickKey)
  BY <1>5 DEF C!click_handler
<1> QED BY <1>1, <1>2, <1>3, <1>4, <1>5 DEF C!Next, C!Script

LEMMA SequenceOwn == S!Next => OwnTimer(SeqKey)
<1> USE DEF OwnTimer, S!Over, S!SetTimer, S!StopTimer
<1>1. ASSUME NEW b \in Buttons, NEW hm \in BOOLEAN, NEW ht \in BOOLEAN, S!DetectFirst(b, hm, ht)
      PROVE  OwnTimer(SeqKey)
  <2>1. UNCHANGED <<timers, cut>> \/ S!SetTimer \/ S!StopTimer
    BY <1>1, Zenon DEF S!DetectFirst
  <2> QED BY <2>1
<1>2. ASSUME NEW b \in Buttons, S!DetectNext(b) PROVE OwnTimer(SeqKey)
  <2>1. UNCHANGED <<timers, cut>> \/ S!StopTimer
    BY <1>2, Zenon DEF S!DetectNext
  <2> QED BY <2>1
<1>3. ASSUME NEW p \in Patterns, S!add_pattern(p) PROVE OwnTimer(SeqKey)
  BY <1>3 DEF S!add_pattern
<1>4. ASSUME NEW s \in BOOLEAN, NEW t \in Thresholds, S!configure(s, t) PROVE OwnTimer(SeqKey)
  BY <1>4 DEF S!configure
<1>5. ASSUME S!clear_patterns PROVE OwnTimer(SeqKey)
  BY <1>5 DEF S!clear_patterns
<1>6. ASSUME S!reset PROVE OwnTimer(SeqKey)
  BY <1>6 DEF S!reset
<1>7. ASSUME S!handler PROVE OwnTimer(SeqKey)
  BY <1>7 DEF S!handler
<1> QED
  BY <1>1, <1>2, <1>3, <1>4, <1>5, <1>6, <1>7 DEF S!Next, S!Script, S!Detect

LEMMA TickerOwn == K!Next => OwnTimer(TickKey)
<1> SUFFICES ASSUME K!Next PROVE OwnTimer(TickKey)
  OBVIOUS
<1>1. UNCHANGED <<timers, cut>> \/ K!StartTimer \/ K!StopTimer
  BY Zenon DEF K!Next, K!Script, K!SetNew, K!SetAgain, K!start, K!stop, K!reset, K!handler
<1> QED BY <1>1 DEF OwnTimer, K!StartTimer, K!StopTimer

LEMMA ClickKept ==
  ASSUME ClickInv, UNCHANGED clickVars
  PROVE  ClickInv'
<1>1. C!TypeOK'
  BY Zenon DEF ClickInv, C!TypeOK, clickVars
<1> QED BY <1>1 DEF ClickInv, clickVars, ClicksAreTold, C!ClicksAreTold

(* A helper's own timer is a callback, and is none of the others'. *)
LEMMA OwnKeeps ==
  ASSUME TimersOK, NEW k \in Callbacks, OwnTimer(k)
  PROVE  /\ TimersOK'
         /\ \A h \in Callbacks \ {k} : /\ h \in timers' <=> h \in timers
                                       /\ h \in cut' <=> h \in cut
BY DEF TimersOK, OwnTimer

LEMMA KeysDiffer ==
  /\ ClickKey \in Callbacks /\ SeqKey \in Callbacks /\ TickKey \in Callbacks
  /\ ClickKey # SeqKey /\ ClickKey # TickKey /\ SeqKey # TickKey
BY DEF Callbacks, ClickKey, SeqKey, TickKey

LEMMA LibraryStart == LibraryInit => LibraryInv
<1> SUFFICES ASSUME LibraryInit PROVE LibraryInv
  OBVIOUS
<1>1. timers = {} /\ cut = {} /\ C!Init /\ S!Init /\ K!Init /\ P!Init /\ M!Init
  BY DEF LibraryInit
<1> QED
  BY <1>1, ClickInit, SequenceInit, TickerInit, TouchpadInit, MouseInit DEF LibraryInv, TimersOK

LEMMA LibraryStep == LibraryInv /\ [LibraryNext]_allVars => LibraryInv'
<1> SUFFICES ASSUME LibraryInv, [LibraryNext]_allVars PROVE LibraryInv'
  OBVIOUS
<1>0. TimersOK /\ ClickInv /\ SequenceInv /\ TickerInv /\ TouchpadInv /\ MouseInv
  BY DEF LibraryInv
<1>1. ASSUME UseClick PROVE LibraryInv'
  <2>1. C!Next /\ UNCHANGED <<sequenceVars, tickerVars, touchpadVars, mouseVars>>
    BY <1>1 DEF UseClick
  <2>2. ClickInv' /\ TouchpadInv' /\ MouseInv'
    BY <1>0, <2>1, ClickStep, TouchpadKept, MouseKept
  <2>3. TimersOK' /\ (SeqKey \in timers' <=> SeqKey \in timers)
        /\ (TickKey \in timers' <=> TickKey \in timers) /\ (TickKey \in cut' <=> TickKey \in cut)
    BY <1>0, <2>1, ClickOwn, OwnKeeps, KeysDiffer
  <2>4. SequenceInv' /\ TickerInv'
    BY <1>0, <2>1, <2>3, SequenceKept, TickerKept
  <2> QED BY <2>2, <2>3, <2>4 DEF LibraryInv
<1>2. ASSUME UseSequence PROVE LibraryInv'
  <2>1. S!Next /\ UNCHANGED <<clickVars, tickerVars, touchpadVars, mouseVars>>
    BY <1>2 DEF UseSequence
  <2>2. SequenceInv' /\ ClickInv' /\ TouchpadInv' /\ MouseInv'
    BY <1>0, <2>1, SequenceStep, ClickKept, TouchpadKept, MouseKept
  <2>3. TimersOK'
        /\ (TickKey \in timers' <=> TickKey \in timers) /\ (TickKey \in cut' <=> TickKey \in cut)
    BY <1>0, <2>1, SequenceOwn, OwnKeeps, KeysDiffer
  <2>4. TickerInv'
    BY <1>0, <2>1, <2>3, TickerKept
  <2> QED BY <2>2, <2>3, <2>4 DEF LibraryInv
<1>3. ASSUME UseTicker PROVE LibraryInv'
  <2>1. K!Next /\ UNCHANGED <<clickVars, sequenceVars, touchpadVars, mouseVars>>
    BY <1>3 DEF UseTicker
  <2>2. TickerInv' /\ ClickInv' /\ TouchpadInv' /\ MouseInv'
    BY <1>0, <2>1, TickerStep, ClickKept, TouchpadKept, MouseKept
  <2>3. TimersOK' /\ (SeqKey \in timers' <=> SeqKey \in timers)
    BY <1>0, <2>1, TickerOwn, OwnKeeps, KeysDiffer
  <2>4. SequenceInv'
    BY <1>0, <2>1, <2>3, SequenceKept
  <2> QED BY <2>2, <2>3, <2>4 DEF LibraryInv
<1>4. ASSUME UseTouchpad PROVE LibraryInv'
  <2>1. P!Next /\ UNCHANGED <<timerVars, clickVars, sequenceVars, tickerVars, mouseVars>>
    BY <1>4 DEF UseTouchpad
  <2>2. TouchpadInv'
    BY <1>0, <2>1, TouchpadStep
  <2> QED BY <1>0, <2>1, <2>2, ClickKept, SequenceKept, TickerKept, MouseKept
      DEF LibraryInv, timerVars, TimersOK
<1>5. ASSUME UseMouse PROVE LibraryInv'
  <2>1. M!Next /\ UNCHANGED <<timerVars, clickVars, sequenceVars, tickerVars, touchpadVars>>
    BY <1>5 DEF UseMouse
  <2>2. MouseInv'
    BY <1>0, <2>1, MouseStep
  <2> QED BY <1>0, <2>1, <2>2, ClickKept, SequenceKept, TickerKept, TouchpadKept
      DEF LibraryInv, timerVars, TimersOK
<1>6. ASSUME CancelAll PROVE LibraryInv'
  <2>1. /\ timers' = {} /\ cut' = cut \cup timers
        /\ UNCHANGED <<clickVars, sequenceVars, tickerVars, touchpadVars, mouseVars>>
    BY <1>6 DEF CancelAll
  <2>2. TimersOK' /\ SeqKey \notin timers' /\ TickKey \notin timers'
        /\ (TickKey \in timers \cup cut => TickKey \in timers' \cup cut')
    BY <1>0, <2>1 DEF TimersOK
  <2> QED BY <1>0, <2>1, <2>2, ClickKept, SequenceKept, TickerKept, TouchpadKept, MouseKept
      DEF LibraryInv
<1>7. ASSUME UNCHANGED libraryVars PROVE LibraryInv'
  <2>1. UNCHANGED <<timerVars, clickVars, sequenceVars, tickerVars, touchpadVars, mouseVars>>
    BY <1>7 DEF libraryVars
  <2> QED BY <1>0, <2>1, ClickKept, SequenceKept, TickerKept, TouchpadKept, MouseKept
      DEF LibraryInv, timerVars, TimersOK
<1> QED BY <1>1, <1>2, <1>3, <1>4, <1>5, <1>6, <1>7 DEF LibraryNext, UseKeyboard, allVars

LEMMA SequenceTypes == SequenceInv => S!TypeOK
BY Zenon DEF SequenceInv, SeqTypes, SeqFlags, LastRecord, S!TypeOK

LEMMA LibraryMeans ==
  LibraryInv => /\ LibraryTypeOK /\ ClicksAreTold /\ TickerRuns
                /\ ContactsAgree /\ ButtonsFollow
<1> SUFFICES ASSUME LibraryInv
             PROVE  /\ LibraryTypeOK /\ ClicksAreTold /\ TickerRuns
                    /\ ContactsAgree /\ ButtonsFollow
  OBVIOUS
<1>1. TimersOK /\ ClickInv /\ SequenceInv /\ TickerInv /\ TouchpadInv /\ MouseInv
  BY DEF LibraryInv
<1>2. P!TypeOK /\ ContactsAgree
  BY <1>1, TouchpadMeans
<1>3. C!TypeOK /\ ClicksAreTold /\ K!TypeOK /\ TickerRuns /\ M!TypeOK /\ ButtonsFollow
  BY <1>1, Zenon DEF ClickInv, TickerInv, MouseInv
<1>4. S!TypeOK
  BY <1>1, SequenceTypes
<1> QED BY <1>1, <1>2, <1>3, <1>4, Zenon DEF LibraryTypeOK, TimersOK

LEMMA LibraryInvariant == LibrarySpec => []LibraryInv
BY LibraryStart, LibraryStep, PTL DEF LibrarySpec

(* Every step is one of the sequence helper, or leaves it alone. *)
LEMMA LibrarySequence ==
  LibraryInv /\ [LibraryNext]_allVars => [MatchTold]_(S!qvars) /\ [TimeoutOnce]_(S!qvars)
<1> SUFFICES ASSUME LibraryInv, [LibraryNext]_allVars
             PROVE  [MatchTold]_(S!qvars) /\ [TimeoutOnce]_(S!qvars)
  OBVIOUS
<1>1. CASE UseSequence
  BY <1>1, SequenceSteps DEF LibraryInv, UseSequence
<1>2. CASE UNCHANGED sequenceVars
  BY <1>2 DEF sequenceVars, S!qvars
<1> QED BY <1>1, <1>2 DEF LibraryNext, UseClick, UseTicker, UseTouchpad, UseMouse, UseKeyboard,
                           CancelAll, allVars, libraryVars

(* The values the helpers' variables take, whatever the script does with them. *)
THEOREM LibraryTypes == LibrarySpec => []LibraryTypeOK
BY LibraryInvariant, LibraryMeans, PTL

(* click answers a session with the action of its number of presses. *)
THEOREM LibraryClicksAreTold == LibrarySpec => []ClicksAreTold
BY LibraryInvariant, LibraryMeans, PTL

(* sequence calls match_fn exactly when a press makes a pattern occur: its  *)
(* greedy matching misses none. *)
THEOREM LibrarySequenceMatches == LibrarySpec => SequenceMatches
<1>1. LibraryInv /\ [LibraryNext]_allVars => [MatchTold]_(S!qvars)
  BY LibrarySequence
<1> QED BY <1>1, LibraryInvariant, PTL DEF LibrarySpec, SequenceMatches, S!SequenceMatches, MatchTold

(* sequence calls timeout_fn once for a session, however it ends. *)
THEOREM LibraryTimeoutFiresOnce == LibrarySpec => TimeoutFiresOnce
<1>1. LibraryInv /\ [LibraryNext]_allVars => [TimeoutOnce]_(S!qvars)
  BY LibrarySequence
<1> QED BY <1>1, LibraryInvariant, PTL DEF LibrarySpec, TimeoutFiresOnce, S!TimeoutFiresOnce, TimeoutOnce

(* A started ticker has its timer until it is stopped, a stopped one none.  *)
THEOREM LibraryTickerRuns == LibrarySpec => []TickerRuns
BY LibraryInvariant, LibraryMeans, PTL

(* touchpad: slots, contacts and the keys of the virtual touchpad agree.    *)
THEOREM LibraryContactsAgree == LibrarySpec => []ContactsAgree
BY LibraryInvariant, LibraryMeans, PTL

(* mouse: a button is down when the last report of it says so, unless it    *)
(* went through several emit functions. *)
THEOREM LibraryButtonsFollow == LibrarySpec => []ButtonsFollow
BY LibraryInvariant, LibraryMeans, PTL

-----------------------------------------------------------------------------
(****************************************************************************)
(* What is safety in ClickEnds and SequenceEnds.                            *)
(****************************************************************************)
ClickBeats ==
  /\ click_pending => ClickKey \in timers \cup cut
  /\ ClickKey \in timers => click_pending

SeqBeats == seq_active => SeqKey \in timers \cup cut

HeartbeatsRun ==
  /\ ClickBeats
  /\ SeqBeats /\ (SeqKey \in timers => seq_active)

LEMMA ClickBeatsOn == ASSUME ClickInv, ClickBeats, C!Next PROVE ClickBeats'
<1> USE DEF ClickBeats, C!reset, C!Cleared, C!StopHeartbeat
<1>1. ASSUME NEW b \in Buttons, C!NextClick(b) PROVE ClickBeats'
  BY <1>1 DEF C!NextClick
<1>2. ASSUME NEW b \in Buttons, NEW given \in SUBSET C!Levels, C!FirstClick(b, given)
      PROVE  ClickBeats'
  BY <1>2 DEF C!FirstClick
<1>3. ASSUME NEW t \in Thresholds, C!configure(t) PROVE ClickBeats'
  BY <1>3 DEF C!configure
<1>4. ASSUME C!Reset PROVE ClickBeats'
  BY <1>4 DEF C!Reset
<1>5. ASSUME C!click_handler PROVE ClickBeats'
  BY <1>5 DEF C!click_handler
<1> QED BY <1>1, <1>2, <1>3, <1>4, <1>5 DEF C!Next, C!Script

LEMMA SeqBeatsOn == ASSUME SequenceInv, SeqBeats, S!Next PROVE SeqBeats'
<1> USE DEF SeqBeats, S!Over, S!StopTimer, S!SetTimer
<1>1. ASSUME NEW b \in Buttons, NEW hm \in BOOLEAN, NEW ht \in BOOLEAN, S!DetectFirst(b, hm, ht)
      PROVE  SeqBeats'
  BY <1>1 DEF S!DetectFirst
<1>2. ASSUME NEW b \in Buttons, S!DetectNext(b) PROVE SeqBeats'
  BY <1>2 DEF S!DetectNext
<1>3. CASE S!handler
  BY <1>3 DEF S!handler
<1>4. CASE \/ S!clear_patterns \/ \E p \in Patterns : S!add_pattern(p)
           \/ \E s \in BOOLEAN, t \in Thresholds : S!configure(s, t)
  BY <1>4 DEF S!clear_patterns, S!add_pattern, S!configure
<1>5. CASE S!reset
  BY <1>5 DEF S!reset
<1> QED BY <1>1, <1>2, <1>3, <1>4, <1>5 DEF S!Next, S!Script, S!Detect

LEMMA LibraryBeats ==
  ASSUME LibraryInv, ClickBeats, SeqBeats, [LibraryNext]_allVars
  PROVE  ClickBeats' /\ SeqBeats'
<1>0. TimersOK /\ ClickInv /\ SequenceInv
  BY DEF LibraryInv
<1>1. CASE UseClick
  <2>1. ClickBeats'
    BY <1>0, <1>1, ClickBeatsOn DEF UseClick
  <2>2. /\ SeqKey \in timers' <=> SeqKey \in timers
        /\ SeqKey \in cut' <=> SeqKey \in cut
    BY <1>0, <1>1, ClickOwn, OwnKeeps, KeysDiffer DEF UseClick
  <2> QED BY <1>1, <2>1, <2>2 DEF UseClick, SeqBeats, sequenceVars
<1>2. CASE UseSequence
  <2>1. SeqBeats'
    BY <1>0, <1>2, SeqBeatsOn DEF UseSequence
  <2>2. /\ ClickKey \in timers' <=> ClickKey \in timers
        /\ ClickKey \in cut' <=> ClickKey \in cut
    BY <1>0, <1>2, SequenceOwn, OwnKeeps, KeysDiffer DEF UseSequence
  <2> QED BY <1>2, <2>1, <2>2 DEF UseSequence, ClickBeats, clickVars
<1>3. CASE UseTicker
  <2>1. \A k \in {ClickKey, SeqKey} : /\ k \in timers' <=> k \in timers
                                      /\ k \in cut' <=> k \in cut
    BY <1>0, <1>3, TickerOwn, OwnKeeps, KeysDiffer DEF UseTicker
  <2> QED BY <1>3, <2>1 DEF UseTicker, ClickBeats, SeqBeats, clickVars, sequenceVars
<1>4. CASE CancelAll
  BY <1>4 DEF CancelAll, ClickBeats, SeqBeats, clickVars, sequenceVars
<1>5. CASE UNCHANGED <<timerVars, clickVars, sequenceVars>>
  BY <1>5 DEF timerVars, clickVars, sequenceVars, ClickBeats, SeqBeats
<1> QED BY <1>1, <1>2, <1>3, <1>4, <1>5
        DEF LibraryNext, UseTouchpad, UseMouse, UseKeyboard, allVars, libraryVars

(* click and sequence: a session has the heartbeat that will end it, or the *)
(* script's tick(0, nil) took it since it was started, and no heartbeat     *)
(* runs without a session: whichever press, match, reset, configure or      *)
(* other helper comes between. *)
THEOREM LibraryHeartbeats == LibrarySpec => []HeartbeatsRun
<1>1. LibraryInit => ClickBeats /\ SeqBeats
  BY DEF LibraryInit, C!Init, S!Init, ClickBeats, SeqBeats
<1>2. LibraryInv /\ ClickBeats /\ SeqBeats => HeartbeatsRun
  BY DEF LibraryInv, SequenceInv, HeartbeatsRun
<1>3. LibraryInv /\ (ClickBeats /\ SeqBeats) /\ [LibraryNext]_allVars => (ClickBeats /\ SeqBeats)'
  BY LibraryBeats
<1> QED BY <1>1, <1>2, <1>3, LibraryInvariant, PTL DEF LibrarySpec

(* A session goes on: the same button's, and still pending. *)
GoesOn == click_pending /\ click_pending' /\ click_last_code' = click_last_code

Ages ==
  GoesOn => /\ tick_count' \in {tick_count, tick_count + 1} /\ actions' = actions
            /\ C!click_handler => tick_count' = tick_count + 1
            /\ shrunk' \/ tick_count' <= click_threshold'

ClickAges == [][Ages]_(C!cvars)

LEMMA AgesOn == ASSUME ClickInv, ClickInv', C!Next PROVE Ages
<1> SUFFICES ASSUME GoesOn
             PROVE  /\ tick_count' \in {tick_count, tick_count + 1} /\ actions' = actions
                    /\ C!click_handler => tick_count' = tick_count + 1
  BY DEF Ages, GoesOn, ClickInv
<1> USE DEF GoesOn, C!reset, C!Cleared
<1>1. ASSUME NEW b \in Buttons, C!NextClick(b)
      PROVE  UNCHANGED <<tick_count, actions, timers>>
  BY <1>1 DEF C!NextClick
<1>2. ASSUME NEW b \in Buttons, NEW given \in SUBSET C!Levels, C!FirstClick(b, given)
      PROVE  FALSE
  BY <1>2 DEF C!FirstClick
<1>3. ASSUME NEW t \in Thresholds, C!configure(t)
      PROVE  UNCHANGED <<tick_count, actions, timers>>
  BY <1>3 DEF C!configure
<1>4. ASSUME C!Reset PROVE FALSE
  BY <1>4 DEF C!Reset
<1>5. ASSUME C!click_handler PROVE tick_count' = tick_count + 1 /\ actions' = actions
  BY <1>5 DEF C!click_handler
<1> QED BY <1>1, <1>2, <1>3, <1>4, <1>5 DEF C!Next, C!Script

(* click: every heartbeat brings a session one tick closer to its end, no   *)
(* press sets it back, and unless configure made the window shorter it is   *)
(* over within the window.  So ClickEnds needs only that the timer fires.   *)
THEOREM LibraryClickAges == LibrarySpec => ClickAges
<1>1. ASSUME LibraryInv, LibraryInv', [LibraryNext]_allVars PROVE [Ages]_(C!cvars)
  <2>1. CASE UseClick
    BY <1>1, <2>1, AgesOn DEF LibraryInv, UseClick
  <2>2. CASE UNCHANGED clickVars
    BY <2>2 DEF clickVars, C!cvars, C!svars
  <2> QED BY <1>1, <2>1, <2>2
          DEF LibraryNext, UseSequence, UseTicker, UseTouchpad, UseMouse, UseKeyboard, CancelAll,
              allVars, libraryVars
<1> QED BY <1>1, LibraryInvariant, PTL DEF LibrarySpec, ClickAges

(* A session of sequence goes on without a press. *)
Unpressed == seq_active /\ seq_active' /\ last'.op # "detect"

SeqAged ==
  Unpressed =>
    /\ IF S!handler THEN seq_ticks' = seq_ticks + 1 /\ seq_ticks' <= threshold
       ELSE seq_ticks' = seq_ticks
    /\ UNCHANGED <<match_fn, timeout_fn>>

SequenceAges == [][SeqAged]_(S!qvars)

LEMMA SeqAgesOn == ASSUME SequenceInv, S!Next PROVE SeqAged
<1>0. seq_ticks \in Nat /\ threshold \in Nat
  BY LibraryAssumption DEF SequenceInv, SeqTypes, SeqFlags
<1> SUFFICES ASSUME Unpressed
             PROVE  /\ IF S!handler THEN seq_ticks' = seq_ticks + 1 /\ seq_ticks' <= threshold
                       ELSE seq_ticks' = seq_ticks
                    /\ UNCHANGED <<match_fn, timeout_fn>>
  BY DEF SeqAged
<1> USE DEF Unpressed, S!Over, S!Done
<1>1. ASSUME NEW b \in Buttons, NEW hm \in BOOLEAN, NEW ht \in BOOLEAN, S!DetectFirst(b, hm, ht)
      PROVE  FALSE
  BY <1>1 DEF S!DetectFirst
<1>2. ASSUME NEW b \in Buttons, S!DetectNext(b) PROVE FALSE
  <2>1. ASSUME NEW m, NEW t, S!Pressed(b, m, t) PROVE FALSE
    BY <2>1 DEF S!Pressed
  <2>2. CASE S!Matched(b, timeout_fn)
    BY <2>1, <2>2 DEF S!Matched
  <2> QED BY <1>2, <2>1, <2>2 DEF S!DetectNext
<1>3. ASSUME S!handler
      PROVE  /\ seq_ticks' = seq_ticks + 1 /\ seq_ticks' <= threshold
             /\ UNCHANGED <<match_fn, timeout_fn>>
  BY <1>0, <1>3 DEF S!handler
<1>4. ASSUME \/ S!clear_patterns \/ \E p \in Patterns : S!add_pattern(p)
             \/ \E s \in BOOLEAN, t \in Thresholds : S!configure(s, t)
      PROVE  UNCHANGED <<seq_ticks, match_fn, timeout_fn>> /\ last'.op = "other"
  BY <1>4 DEF S!clear_patterns, S!add_pattern, S!configure
<1>5. CASE S!reset
  BY <1>5 DEF S!reset
<1>6. S!handler => last'.op = "handler"
  BY DEF S!handler
<1> QED BY <1>1, <1>2, <1>3, <1>4, <1>5, <1>6 DEF S!Next, S!Script, S!Detect

(* sequence: between two presses a session only grows older, by one with    *)
(* each heartbeat that does not end it, which leaves it within the window   *)
(* there is then; and it keeps its functions.  Neither new patterns nor     *)
(* clearing them holds it up.  configure may move the window, but sets no   *)
(* session back: a window made shorter than the session is old is over with *)
(* the next heartbeat.  So SequenceEnds needs that the timer fires, and     *)
(* that there is a longest window. *)
THEOREM LibrarySequenceAges == LibrarySpec => SequenceAges
<1>1. ASSUME LibraryInv, [LibraryNext]_allVars PROVE [SeqAged]_(S!qvars)
  <2>1. CASE UseSequence
    BY <1>1, <2>1, SeqAgesOn DEF LibraryInv, UseSequence
  <2>2. CASE UNCHANGED sequenceVars
    BY <2>2 DEF sequenceVars, S!qvars
  <2> QED BY <1>1, <2>1, <2>2
          DEF LibraryNext, UseClick, UseTicker, UseTouchpad, UseMouse, UseKeyboard, CancelAll,
              allVars, libraryVars
<1> QED BY <1>1, LibraryInvariant, PTL DEF LibrarySpec, SequenceAges
=============================================================================
