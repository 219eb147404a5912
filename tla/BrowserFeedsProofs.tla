------------------------- MODULE BrowserFeedsProofs -------------------------
(***************************************************************************)
(* For every set of ids, every chain of rotations and every bound: the tab *)
(* of BrowserFeeds keeps its inductive invariant IInv, and with it the     *)
(* properties FocusIsHome, MapIsHome, ScopeClean, NeverMissing, Discovered *)
(* and OwnScreen, however many messages of the page are unanswered.        *)
EXTENDS BrowserFeeds, FiniteSetTheorems, TLAPS

USE FeedsAssumption

-----------------------------------------------------------------------------
(* The server moves on: a turn stays in its conversation, what is over stays
   over, the owner does not log in again. *)

Onward ==
    /\ \A s \in Streams :
         /\ turn[s].st # "unused" =>
              turn'[s].st # "unused" /\ Chain[turn'[s].cur] = Chain[turn[s].cur]
         /\ Over(s) => turn'[s].st = turn[s].st
    /\ login = "other" => login' = "other"

LEMMA StreamNumbers == Streams \subseteq Nat \ {0} /\ NoStream \notin Streams /\ Closed # 0
BY DEF Streams, NoStream, Closed

LEMMA ServerKept ==
  ASSUME UNCHANGED server
  PROVE  Onward /\ (TurnInv => TurnInv')
BY DEF Onward, TurnInv, server

\* Home(s, i) after the step.
HomeNext(s, i) == turn'[s].st # "unused" /\ Chain[turn'[s].cur] = Chain[i]

LEMMA HomeKept ==
  ASSUME Onward, NEW s \in Streams, NEW i
  PROVE  Home(s, i) => HomeNext(s, i)
BY DEF Onward, Home, HomeNext

LEMMA NoControlFacts ==
  NoControl.id = NoId /\ NoControl.queue = <<>> /\ NoControl.open = FALSE
BY DEF NoControl

-----------------------------------------------------------------------------
(* Frames: what a step has to respect for a part of the invariant to hold on. *)

LEMMA ListFrame ==
  ASSUME ListInv, Onward, lists' \subseteq lists, S'.scope = S.scope \/ lists' = {}
  PROVE  ListInv'
<1>1. ASSUME NEW l \in lists', NEW i \in Ids, l.streaming[i] # NoStream
      PROVE  HomeNext(l.streaming[i], i)
  <2>1. l.streaming[i] \in Streams /\ Home(l.streaming[i], i)
    BY <1>1 DEF ListInv
  <2> QED BY <2>1, HomeKept
<1> QED BY <1>1 DEF ListInv, Onward, Home, HomeNext

Channel == [id : Ids \cup {NoId}, open : BOOLEAN, queue : Seq(Event)]

LEMMA ChannelFacts ==
  ASSUME TypeOK, NEW q \in Seq(Event)
  PROVE  /\ control \in Channel /\ NoControl \in Channel
         /\ [control EXCEPT !.queue = q] \in Channel
         /\ [control EXCEPT !.queue = q].id = control.id
         /\ [control EXCEPT !.queue = q].queue = q
         /\ \A b \in BOOLEAN : /\ [control EXCEPT !.open = b, !.queue = q] \in Channel
                               /\ [control EXCEPT !.open = b, !.queue = q].id = control.id
                               /\ [control EXCEPT !.open = b, !.queue = q].queue = q
<1> DEFINE Q == Seq(Event)
           C == [id : Ids \cup {NoId}, open : BOOLEAN, queue : Q]
<1>1. q \in Q /\ <<>> \in Q /\ control \in C /\ Channel = C
  BY DEF TypeOK, Channel
<1> HIDE DEF Q
<1>2. NoControl \in C
  BY <1>1 DEF NoControl
<1>3. /\ [control EXCEPT !.queue = q] \in C
      /\ [control EXCEPT !.queue = q].id = control.id
      /\ [control EXCEPT !.queue = q].queue = q
  BY <1>1
<1>4. ASSUME NEW b \in BOOLEAN
      PROVE  /\ [control EXCEPT !.open = b, !.queue = q] \in C
             /\ [control EXCEPT !.open = b, !.queue = q].id = control.id
             /\ [control EXCEPT !.open = b, !.queue = q].queue = q
  BY <1>1
<1> QED BY <1>1, <1>2, <1>3, <1>4

LEMMA OneFacts ==
  ASSUME NEW P, NEW e \in P
  PROVE  <<e>> \in Seq(P) /\ Len(<<e>>) = 1 /\ <<e>>[1] = e
OBVIOUS

LEMMA AppendFacts ==
  ASSUME NEW P, NEW q \in Seq(P), NEW e \in P
  PROVE  /\ Append(q, e) \in Seq(P) /\ Len(q) \in Nat
         /\ Len(Append(q, e)) = Len(q) + 1
         /\ \A k \in 1..Len(q) : Append(q, e)[k] = q[k]
         /\ Append(q, e)[Len(q) + 1] = e
OBVIOUS

LEMMA QueueFacts ==
  ASSUME TypeOK
  PROVE  /\ control.queue \in Seq(Event)
         /\ \A k \in 1..Len(control.queue) : /\ control.queue[k] \in Event
                                             /\ control.queue[k].s \in Streams
                                             /\ control.queue[k].again \in BOOLEAN
<1>1. control.queue \in Seq(Event)
  BY DEF TypeOK
<1>2. \A k \in 1..Len(control.queue) : control.queue[k] \in Event
  BY <1>1
<1>3. \A e \in Event : e.s \in Streams /\ e.again \in BOOLEAN
  BY DEF Event
<1> QED BY <1>1, <1>2, <1>3

LEMMA ControlFrame ==
  ASSUME TypeOK, ControlInv, Onward, UNCHANGED control
  PROVE  ControlInv'
<1>1. ASSUME NEW k \in 1..Len(control.queue)
      PROVE  HomeNext(control.queue[k].s, control.id)
  <2>1. control.queue[k].s \in Streams /\ Home(control.queue[k].s, control.id)
    BY QueueFacts DEF ControlInv
  <2> QED BY <2>1, HomeKept DEF Onward, Home, HomeNext
<1> QED BY <1>1 DEF ControlInv, Home, HomeNext

LEMMA OpenFrame ==
  ASSUME OpenInv, DropInv, Onward, opens' \subseteq opens,
         \/ opens' = {}
         \/ S.gen < S'.gen /\ S'.gen \in Nat /\ S.gen \in Nat
         \/ /\ S'.gen = S.gen
            /\ \A o \in opens' : o.gen = S.gen =>
                 /\ S'.sid = S.sid /\ S'.switching = S.switching /\ S'.focus = S.focus
                 /\ \A p \in posts' : p.gen = S.gen => \E q \in posts : q.gen = S.gen
  PROVE  OpenInv' /\ DropInv'
<1>1. ASSUME NEW o \in opens'
      PROVE  /\ o.live # NoStream => HomeNext(o.live, o.id)
             /\ \A s \in o.hist : HomeNext(s, o.id)
             /\ o.gen <= S'.gen
             /\ o.gen = S'.gen => /\ S'.sid = o.id /\ S'.switching = o.id
                                  /\ S'.focus = NoStream
                                  /\ \A p \in posts' : p.gen # S'.gen
  <2>1. o.live # NoStream => o.live \in Streams /\ Home(o.live, o.id)
    BY DEF OpenInv
  <2>2. \A s \in o.hist : s \in Streams /\ Home(s, o.id)
    BY DEF OpenInv
  <2>3. o.gen <= S.gen /\ o.gen \in Nat
    BY DEF OpenInv
  <2>4. o.gen <= S'.gen
    BY <2>3
  <2>5. o.gen = S'.gen => S'.gen = S.gen
    BY <2>3
  <2>6. o.gen = S'.gen => /\ S'.sid = o.id /\ S'.switching = o.id
                          /\ S'.focus = NoStream
                          /\ \A p \in posts' : p.gen # S'.gen
    BY <2>5 DEF OpenInv
  <2> QED BY <2>1, <2>2, <2>4, <2>6, HomeKept
<1>2. OpenInv'
  BY <1>1 DEF OpenInv, Home, HomeNext
<1>3. DropInv'
  BY DEF DropInv, OpenInv, Onward, Over
<1> QED BY <1>2, <1>3

LEMMA PostFrame ==
  ASSUME PostInv, Onward, posts' \subseteq posts, S'.gen \in Nat, S.gen \in Nat,
         S.gen <= S'.gen \/ posts' = {}
  PROVE  PostInv'
<1>1. ASSUME NEW p \in posts', p.step = "started" PROVE HomeNext(p.s, p.id)
  <2>1. p.s \in Streams /\ Home(p.s, p.id)
    BY <1>1 DEF PostInv
  <2> QED BY <2>1, HomeKept
<1>2. \A p \in posts' : p.gen <= S'.gen
  BY DEF PostInv
<1>3. IsFiniteSet(posts')
  BY FS_Subset DEF PostInv
<1> QED BY <1>1, <1>2, <1>3 DEF PostInv, Onward, Home, HomeNext

\* A step that a page that is still booting does not take, or does not notice.
LEMMA BootFrame ==
  ASSUME TypeOK, BootInv, Onward, UNCHANGED boot,
         boot.on => UNCHANGED <<opens, posts, probes, control, S, screen, feed>>
  PROVE  BootInv'
<1>1. ASSUME NEW s \in boot.hist PROVE HomeNext(s, boot.view)
  <2>1. s \in Streams /\ Home(s, boot.view)
    BY DEF BootInv, TypeOK
  <2> QED BY <2>1 DEF Onward, Home, HomeNext
<1> QED BY <1>1 DEF BootInv, Home, HomeNext

LEMMA ViewFrame ==
  ASSUME TypeOK, ViewInv, FocusFed, Onward, UNCHANGED <<S, screen, feed>>
  PROVE  ViewInv' /\ FocusFed'
<1>1. S.focus # NoStream => HomeNext(S.focus, S.sid)
  BY DEF ViewInv, TypeOK, View, Onward, Home, HomeNext
<1>2. ASSUME NEW i \in Ids, S.streaming[i] # NoStream PROVE HomeNext(S.streaming[i], i)
  <2>1. S.streaming[i] \in Streams /\ Home(S.streaming[i], i)
    BY <1>2 DEF ViewInv, TypeOK, View
  <2> QED BY <2>1, HomeKept
<1>3. ViewInv'
  BY <1>1, <1>2 DEF ViewInv, Home, HomeNext
<1>4. FocusFed'
  BY DEF FocusFed, Onward, Over, TypeOK, View
<1> QED BY <1>3, <1>4

LEMMA ScopeFrame ==
  ASSUME ScopeInv, Onward, UNCHANGED <<S, screen, feed>>, S.scope = "other" => control'.id = NoId
  PROVE  ScopeInv'
BY DEF ScopeInv, Onward

-----------------------------------------------------------------------------
(* What the helpers of the tab do to a view. *)

LEMMA setBusyFacts ==
  ASSUME NEW v \in View, NEW b \in BOOLEAN
  PROVE  /\ setBusy(v, b) \in View
         /\ setBusy(v, b).sid = v.sid /\ setBusy(v, b).focus = v.focus
         /\ setBusy(v, b).gen = v.gen /\ setBusy(v, b).fresh = v.fresh
         /\ setBusy(v, b).own = v.own /\ setBusy(v, b).switching = v.switching
         /\ setBusy(v, b).scope = v.scope /\ setBusy(v, b).streaming = v.streaming
<1> DEFINE owns == CASE v.sid # NoId -> v.streaming[v.sid] # NoStream
                     [] v.sid = NoId /\ v.fresh -> v.own # NoStream /\ v.own = v.focus
                     [] OTHER -> v.focus # NoStream
<1>1. owns \in BOOLEAN
  <2>1. CASE v.sid # NoId
    BY <2>1
  <2>2. CASE v.sid = NoId /\ v.fresh
    BY <2>2
  <2>3. CASE v.sid = NoId /\ ~v.fresh
    BY <2>3
  <2> QED BY <2>1, <2>2, <2>3 DEF View
<1> HIDE DEF owns
<1>2. setBusy(v, b) = [v EXCEPT !.busy = b, !.owns = b /\ owns]
  BY DEF setBusy, owns
<1>3. (b /\ owns) \in BOOLEAN
  BY <1>1
<1> QED BY <1>2, <1>3 DEF View

LEMMA attachFacts ==
  ASSUME NEW v \in View, NEW s \in Streams
  PROVE  /\ attach(v, s) \in View
         /\ attach(v, s).sid = v.sid /\ attach(v, s).focus = s
         /\ attach(v, s).gen = v.gen /\ attach(v, s).fresh = v.fresh
         /\ attach(v, s).own = v.own /\ attach(v, s).switching = v.switching
         /\ attach(v, s).scope = v.scope /\ attach(v, s).streaming = v.streaming
<1> DEFINE w == [v EXCEPT !.focus = s]
<1>1. /\ w \in View /\ w.sid = v.sid /\ w.focus = s /\ w.gen = v.gen /\ w.fresh = v.fresh
      /\ w.own = v.own /\ w.switching = v.switching /\ w.scope = v.scope
      /\ w.streaming = v.streaming
  BY DEF View
<1> HIDE DEF w
<1> QED BY <1>1, setBusyFacts DEF attach, w

LEMMA OpenedFacts ==
  ASSUME NEW v \in View, NEW id \in Ids
  PROVE  /\ Opened(v, id) \in View
         /\ Opened(v, id).sid = id /\ Opened(v, id).focus = NoStream
         /\ Opened(v, id).gen = v.gen + 1 /\ Opened(v, id).fresh = FALSE
         /\ Opened(v, id).switching = id
         /\ Opened(v, id).scope = v.scope /\ Opened(v, id).streaming = v.streaming
<1> DEFINE w == [v EXCEPT !.gen = @ + 1, !.own = NoStream, !.fresh = FALSE,
                          !.focus = NoStream, !.sid = id, !.switching = id]
<1>1. /\ w \in View /\ w.sid = id /\ w.focus = NoStream /\ w.gen = v.gen + 1 /\ w.fresh = FALSE
      /\ w.switching = id /\ w.scope = v.scope /\ w.streaming = v.streaming
  <2>1. v.gen + 1 \in Nat
    BY DEF View
  <2> DEFINE g == v.gen + 1
  <2>2. w = [v EXCEPT !.gen = g, !.own = NoStream, !.fresh = FALSE,
                      !.focus = NoStream, !.sid = id, !.switching = id]
    OBVIOUS
  <2>3. g \in Nat
    BY <2>1
  <2> HIDE DEF g
  <2>4. w \in View
    BY <2>2, <2>3 DEF View
  <2>5. /\ w.sid = id /\ w.focus = NoStream /\ w.gen = g /\ w.fresh = FALSE
        /\ w.switching = id /\ w.scope = v.scope /\ w.streaming = v.streaming
    BY <2>2 DEF View
  <2> QED BY <2>4, <2>5 DEF g
<1>2. v.busy \in BOOLEAN
  BY DEF View
<1> HIDE DEF w
<1> QED BY <1>1, <1>2, setBusyFacts DEF Opened, w

\* Only the mark of one id changes.
LEMMA MarkFacts ==
  ASSUME NEW v \in View, NEW id \in Ids, NEW s \in Streams \cup {NoStream}
  PROVE  /\ [v EXCEPT !.streaming[id] = s] \in View
         /\ [v EXCEPT !.streaming[id] = s].sid = v.sid
         /\ [v EXCEPT !.streaming[id] = s].focus = v.focus
         /\ [v EXCEPT !.streaming[id] = s].gen = v.gen
         /\ [v EXCEPT !.streaming[id] = s].fresh = v.fresh
         /\ [v EXCEPT !.streaming[id] = s].own = v.own
         /\ [v EXCEPT !.streaming[id] = s].switching = v.switching
         /\ [v EXCEPT !.streaming[id] = s].scope = v.scope
         /\ \A i \in Ids : [v EXCEPT !.streaming[id] = s].streaming[i] =
                             IF i = id THEN s ELSE v.streaming[i]
BY DEF View

LEMMA BlankFacts ==
  ASSUME NEW scope \in Scopes
  PROVE  /\ Blank(scope) \in View
         /\ Blank(scope).sid = NoId /\ Blank(scope).focus = NoStream /\ Blank(scope).gen = 0
         /\ Blank(scope).fresh = FALSE /\ Blank(scope).own = NoStream
         /\ Blank(scope).switching = NoId /\ Blank(scope).scope = scope
         /\ Blank(scope).streaming = NoStreaming
BY DEF Blank, View, NoStreaming

Feeds == [Streams -> {Closed} \cup 0..Frames]

LEMMA FeedFacts ==
  ASSUME NEW f \in Feeds, NEW s \in Streams, NEW replay \in BOOLEAN
  PROVE  /\ attachFeed(f, s, replay) \in Feeds
         /\ attachFeed(f, s, replay)[s] # Closed
         /\ \A t \in Streams : f[t] # Closed => attachFeed(f, s, replay)[t] # Closed
BY DEF attachFeed, Closed, Frames, Feeds

LEMMA CloseFacts ==
  ASSUME NEW f \in Feeds, NEW s \in Streams
  PROVE  /\ closeEs(f, s) \in Feeds
         /\ \A t \in Streams : closeEs(f, s)[t] = IF t = s THEN Closed ELSE f[t]
BY DEF closeEs, Closed, Frames, Feeds

LEMMA RunningMapFacts ==
  /\ RunningMap \in [Ids -> Streams \cup {NoStream}]
  /\ \A i \in Ids : RunningMap[i] # NoStream =>
       Running(RunningMap[i]) /\ turn[RunningMap[i]].cur = i
<1> SUFFICES ASSUME NEW i \in Ids
             PROVE  /\ RunningMap[i] \in Streams \cup {NoStream}
                    /\ RunningMap[i] # NoStream =>
                         Running(RunningMap[i]) /\ turn[RunningMap[i]].cur = i
  BY DEF RunningMap
<1> DEFINE P(s) == Running(s) /\ turn[s].cur = i
<1>1. RunningMap[i] = IF \E s \in Streams : P(s) THEN CHOOSE s \in Streams : P(s) ELSE NoStream
  BY DEF RunningMap
<1>2. CASE \E s \in Streams : P(s)
  <2>1. (CHOOSE s \in Streams : P(s)) \in Streams /\ P(CHOOSE s \in Streams : P(s))
    BY <1>2
  <2> QED BY <1>1, <1>2, <2>1
<1>3. CASE ~\E s \in Streams : P(s)
  BY <1>1, <1>3
<1> QED BY <1>2, <1>3

LEMMA NextStreamFacts ==
  NextStream # NoStream => NextStream \in Streams /\ turn[NextStream].st = "unused"
BY DEF NextStream

-----------------------------------------------------------------------------
(* The server's own steps. *)

LEMMA TurnShape ==
  ASSUME TypeOK, NEW s \in Streams
  PROVE  /\ turn[s] \in Turn /\ turn[s].ids \in Seq(Ids)
         /\ turn[s].st # "unused" => turn[s].cur \in Ids
BY DEF TypeOK, Turn

LEMMA StartedFacts ==
  ASSUME TypeOK, TurnInv, NEW s \in Streams, turn[s].st = "unused", NEW id \in Ids,
         turn' = Started(s, id), UNCHANGED login
  PROVE  /\ Onward /\ TurnInv' /\ turn' \in [Streams -> Turn]
         /\ \A t \in Streams : turn'[t].st # "unused" => turn'[t].cur \in Ids
         /\ turn'[s].st = "running" /\ turn'[s].cur = id
<1> DEFINE new == [st |-> "running", cur |-> id, ids |-> <<id>>]
<1>1. new \in Turn /\ new.st = "running" /\ new.cur = id /\ Len(new.ids) = 1 /\ new.ids[1] = id
  BY DEF Turn
<1> HIDE DEF new
<1>2. turn' = [turn EXCEPT ![s] = new] /\ turn \in [Streams -> Turn]
  BY DEF Started, new, TypeOK
<1>3. \A t \in Streams : turn'[t] = IF t = s THEN new ELSE turn[t]
  BY <1>2
<1>4. turn' \in [Streams -> Turn]
  BY <1>1, <1>2
<1>5. Onward
  BY <1>1, <1>3 DEF Onward, Over
<1>6. TurnInv'
  <2>1. \A t \in Streams : t # s => turn'[t] = turn[t]
    BY <1>3
  <2>2. /\ turn'[s].st = "running" /\ Len(turn'[s].ids) = 1
        /\ \A k \in 1..Len(turn'[s].ids) : turn'[s].ids[k] = turn'[s].cur /\ turn'[s].cur \in Ids
    BY <1>1, <1>3
  <2> QED BY <2>1, <2>2 DEF TurnInv
<1> QED BY <1>1, <1>3, <1>4, <1>5, <1>6 DEF TypeOK

LEMMA ServerFrame ==
  ASSUME IInv, Onward, TypeOK', TurnInv', ControlInv',
         S.scope = "other" => control'.id = NoId, boot.on => control' = NoControl,
         UNCHANGED <<S, feed, screen, lists, opens, posts, probes, boot>>
  PROVE  IInv'
<1>1. ViewInv' /\ FocusFed'
  BY ViewFrame DEF IInv
<1>2. ListInv'
  BY ListFrame DEF IInv
<1>3. S.gen \in Nat
  BY DEF IInv, TypeOK, View
<1>4. OpenInv' /\ DropInv'
  BY <1>3, OpenFrame DEF IInv
<1>5. PostInv'
  BY <1>3, PostFrame DEF IInv
<1>6. BootInv'
  BY BootFrame DEF IInv, BootInv
<1>7. ScopeInv'
  BY ScopeFrame DEF IInv
<1> QED BY <1>1, <1>2, <1>4, <1>5, <1>6, <1>7 DEF IInv

LEMMA ServerTurnStep ==
  ASSUME IInv, NEW id \in Ids, ServerTurn(id)
  PROVE  IInv'
<1> DEFINE s == NextStream
           e == [s |-> s, again |-> FALSE]
<1>1. /\ s \in Streams /\ turn[s].st = "unused" /\ turn' = Started(s, id)
      /\ UNCHANGED <<login, S, feed, screen, lists, opens, posts, probes, boot, moves>>
  BY NextStreamFacts DEF ServerTurn, asks
<1>2. /\ Onward /\ TurnInv' /\ turn' \in [Streams -> Turn]
      /\ \A t \in Streams : turn'[t].st # "unused" => turn'[t].cur \in Ids
      /\ turn'[s].st = "running" /\ turn'[s].cur = id
  BY <1>1, StartedFacts DEF IInv
<1>3. control' = control \/ (control.id = id /\ control' = [control EXCEPT !.queue = Append(@, e)])
  BY DEF ServerTurn
<1> HIDE DEF s
<1>4. CASE control' = control
  <2>1. TypeOK'
    BY <1>1, <1>2, <1>4 DEF IInv, TypeOK
  <2>2. ControlInv'
    BY <1>2, <1>4, ControlFrame DEF IInv
  <2> QED BY <1>1, <1>2, <1>4, <2>1, <2>2, ServerFrame DEF IInv, ScopeInv, BootInv
<1>5. CASE control.id = id /\ control' = [control EXCEPT !.queue = Append(@, e)]
  <2>1. e \in Event /\ e.s = s
    BY <1>1 DEF Event
  <2> HIDE DEF e
  <2>2. control.queue \in Seq(Event)
    BY QueueFacts DEF IInv
  <2>3. /\ control'.queue = Append(control.queue, e) /\ control'.id = id
        /\ control' \in Channel
    <3> DEFINE q == Append(control.queue, e)
    <3>1. q \in Seq(Event)
      BY <2>1, <2>2
    <3>2. control' = [control EXCEPT !.queue = q]
      BY <1>5
    <3> HIDE DEF q
    <3>3. control'.queue = q /\ control'.id = id /\ control' \in Channel
      BY <1>5, <3>1, <3>2, ChannelFacts DEF IInv
    <3> QED BY <3>3 DEF q
  <2>4. TypeOK'
    BY <1>1, <1>2, <2>3 DEF IInv, TypeOK, Channel
  <2> DEFINE n == Len(control.queue)
  <2>5. /\ n \in Nat /\ Len(control'.queue) = n + 1
        /\ \A k \in 1..n : control'.queue[k] = control.queue[k]
        /\ control'.queue[n + 1] = e
    BY <2>1, <2>2, <2>3
  <2>6. ASSUME NEW k \in 1..n + 1
        PROVE  HomeNext(control'.queue[k].s, id)
    <3>1. CASE k \in 1..n
      <4>1. control.queue[k].s \in Streams /\ Home(control.queue[k].s, id)
        BY <1>5, <3>1, QueueFacts DEF IInv, ControlInv
      <4>2. control'.queue[k].s = control.queue[k].s
        BY <2>5, <3>1
      <4> QED BY <1>2, <4>1, <4>2 DEF Onward, Home, HomeNext
    <3>2. CASE k = n + 1
      BY <1>2, <2>1, <2>5, <3>2 DEF HomeNext
    <3> QED BY <2>5, <3>1, <3>2
  <2>7. ControlInv'
    <3>1. \A k \in 1..Len(control'.queue) : HomeNext(control'.queue[k].s, control'.id)
      BY <2>3, <2>5, <2>6
    <3> QED BY <2>3, <3>1 DEF ControlInv, Home, HomeNext
  <2>8. S.scope # "other" /\ ~boot.on
    BY <1>5, NoControlFacts DEF IInv, ScopeInv, BootInv
  <2> QED BY <1>1, <1>2, <2>4, <2>7, <2>8, ServerFrame
<1> QED BY <1>3, <1>4, <1>5

LEMMA SpendFacts == ASSUME TypeOK, Spend PROVE moves' \in 0..MaxMoves
BY DEF TypeOK, Spend

\* Steps of one running turn: it goes on in its conversation, or ends.
LEMMA TurnStep ==
  ASSUME IInv, NEW s \in Streams, turn[s].st = "running",
         NEW t \in Turn, turn' = [turn EXCEPT ![s] = t],
         t.cur \in Ids, Chain[t.cur] = Chain[turn[s].cur],
         \/ t.st = "running" /\ t.ids = turn[s].ids
         \/ t.st = "ended" /\ t.ids = Append(turn[s].ids, turn[s].cur),
         moves' \in 0..MaxMoves, UNCHANGED <<login, S, feed, screen, control, asks>>
  PROVE  IInv'
<1>1. \A u \in Streams : turn'[u] = IF u = s THEN t ELSE turn[u]
  BY DEF IInv, TypeOK
<1>2. turn' \in [Streams -> Turn]
  BY DEF IInv, TypeOK
<1>3. Onward
  BY <1>1 DEF Onward, Over
<1>4. TypeOK'
  BY <1>1, <1>2 DEF IInv, TypeOK, asks
<1>5. turn[s].ids \in Seq(Ids) /\ turn[s].cur \in Ids /\ Len(turn[s].ids) = 1
  BY TurnShape DEF IInv, TurnInv
<1>6. \A k \in 1..Len(t.ids) : t.ids[k] \in Ids /\ Chain[t.ids[k]] = Chain[t.cur]
  <2>1. \A k \in 1..Len(turn[s].ids) :
          turn[s].ids[k] \in Ids /\ Chain[turn[s].ids[k]] = Chain[turn[s].cur]
    BY DEF IInv, TurnInv
  <2>2. CASE t.ids = turn[s].ids
    BY <2>1, <2>2
  <2>3. CASE t.ids = Append(turn[s].ids, turn[s].cur)
    <3>1. Len(t.ids) = 2 /\ t.ids[1] = turn[s].ids[1] /\ t.ids[2] = turn[s].cur
      BY <1>5, <2>3
    <3>2. 1 \in 1..Len(turn[s].ids) /\ \A k \in 1..Len(t.ids) : k = 1 \/ k = 2
      BY <1>5, <3>1
    <3> QED BY <1>5, <2>1, <3>1, <3>2
  <2> QED BY <2>2, <2>3
<1>7. t.st = "running" => Len(t.ids) = 1
  BY <1>5
<1>8. t.st = "ended" => Len(t.ids) = Frames
  <2> DEFINE q == turn[s].ids
             e == turn[s].cur
  <2>1. q \in Seq(Ids) /\ e \in Ids /\ Len(q) = 1
    BY <1>5
  <2>2. t.st = "ended" => t.ids = Append(q, e)
    OBVIOUS
  <2> HIDE DEF q, e
  <2>3. Len(Append(q, e)) = Len(q) + 1
    BY ONLY <2>1, AppendFacts
  <2>4. Len(Append(q, e)) = 2
    BY ONLY <2>1, <2>3
  <2> QED BY <2>2, <2>4 DEF Frames
<1>9. TurnInv'
  BY <1>1, <1>6, <1>7, <1>8 DEF IInv, TurnInv
<1>10. ControlInv'
  BY <1>3, ControlFrame DEF IInv
<1> QED BY <1>3, <1>4, <1>9, <1>10, ServerFrame DEF IInv, ScopeInv, BootInv, asks

LEMMA RotateStep ==
  ASSUME IInv, NEW s \in Streams, Rotate(s)
  PROVE  IInv'
<1> DEFINE t == [turn[s] EXCEPT !.cur = Heir[turn[s].cur]]
<1>1. turn[s].cur \in Ids /\ turn[s] \in Turn /\ turn[s].st = "running"
  BY TurnShape DEF IInv, Rotate
<1>2. Heir[turn[s].cur] \in Ids /\ Chain[Heir[turn[s].cur]] = Chain[turn[s].cur]
  BY <1>1 DEF Rotate
<1>3. t \in Turn /\ t.cur = Heir[turn[s].cur] /\ t.st = "running" /\ t.ids = turn[s].ids
  BY <1>1, <1>2 DEF Turn
<1>4. turn' = [turn EXCEPT ![s] = t]
  BY DEF Rotate
<1> HIDE DEF t
<1>5. moves' \in 0..MaxMoves /\ UNCHANGED <<login, S, feed, screen, control, asks>>
  BY SpendFacts DEF Rotate, IInv
<1> QED BY <1>1, <1>2, <1>3, <1>4, <1>5, TurnStep

LEMMA FinishStep ==
  ASSUME IInv, NEW s \in Streams, Finish(s)
  PROVE  IInv'
<1> DEFINE t == [turn[s] EXCEPT !.st = "ended", !.ids = Append(turn[s].ids, turn[s].cur)]
<1>1. /\ turn[s].cur \in Ids /\ turn[s] \in Turn /\ turn[s].st = "running"
      /\ turn[s].ids \in Seq(Ids)
  BY TurnShape DEF IInv, Finish
<1>2. Append(turn[s].ids, turn[s].cur) \in Seq(Ids)
  BY <1>1
<1>3. t \in Turn /\ t.cur = turn[s].cur /\ t.st = "ended" /\ t.ids = Append(turn[s].ids, turn[s].cur)
  BY <1>1, <1>2 DEF Turn
<1>4. turn' = [turn EXCEPT ![s] = t]
  <2>1. turn \in [Streams -> Turn]
    BY DEF IInv, TypeOK
  <2> QED BY <2>1, <1>1 DEF Finish
<1>5. moves' \in 0..MaxMoves
  BY DEF IInv, TypeOK, Finish
<1> HIDE DEF t
<1> QED BY <1>1, <1>3, <1>4, <1>5, TurnStep DEF Finish

LEMMA RestartStep ==
  ASSUME IInv, Restart
  PROVE  IInv'
<1>1. /\ turn' = [s \in Streams |-> IF turn[s].st = "running"
                                    THEN [turn[s] EXCEPT !.st = "gone"] ELSE turn[s]]
      /\ control' = [control EXCEPT !.open = FALSE, !.queue = <<>>]
      /\ UNCHANGED <<login, S, feed, screen, lists, opens, posts, probes, boot>>
      /\ moves' \in 0..MaxMoves
  BY SpendFacts DEF Restart, asks, IInv
<1>2. \A s \in Streams :
        /\ turn[s].st = "running" =>
             /\ turn'[s] \in Turn /\ turn'[s].st = "gone" /\ turn'[s].cur = turn[s].cur
             /\ turn'[s].ids = turn[s].ids
        /\ turn[s].st # "running" => turn'[s] = turn[s]
  <2> TAKE s \in Streams
  <2>1. turn[s] \in Turn
    BY TurnShape DEF IInv
  <2>2. turn'[s] = IF turn[s].st = "running" THEN [turn[s] EXCEPT !.st = "gone"] ELSE turn[s]
    BY <1>1
  <2> QED BY <2>1, <2>2 DEF Turn
<1>3. turn' \in [Streams -> Turn]
  <2>1. \A s \in Streams : turn'[s] \in Turn
    BY <1>2, TurnShape DEF IInv
  <2>2. turn' = [s \in Streams |-> turn'[s]]
    BY <1>1
  <2> QED BY <2>1, <2>2
<1>4. Onward
  BY <1>1, <1>2 DEF Onward, Over
<1>5. /\ control' \in Channel
      /\ control'.id = control.id /\ control'.queue = <<>>
  BY <1>1, <<>> \in Seq(Event), ChannelFacts DEF IInv
<1>6. TypeOK'
  <2>1. \A s \in Streams : turn'[s].st # "unused" => turn'[s].cur \in Ids
    BY <1>2 DEF IInv, TypeOK
  <2> QED BY <1>1, <1>3, <1>5, <2>1 DEF IInv, TypeOK, Channel
<1>7. TurnInv'
  BY <1>2 DEF IInv, TurnInv
<1>8. ControlInv'
  BY <1>5 DEF ControlInv
<1>9. boot.on => control' = NoControl
  <2> SUFFICES ASSUME boot.on PROVE control' = NoControl
    OBVIOUS
  <2>1. control = NoControl
    BY DEF IInv, BootInv
  <2> QED BY <1>1, <2>1 DEF NoControl
<1> QED BY <1>1, <1>4, <1>5, <1>6, <1>7, <1>8, <1>9, ServerFrame DEF IInv, ScopeInv

LEMMA LoginStep ==
  ASSUME IInv, Login
  PROVE  IInv'
<1>1. /\ login' = "other"
      /\ UNCHANGED <<turn, S, feed, screen, control, lists, opens, posts, probes, boot>>
      /\ moves' \in 0..MaxMoves
  BY SpendFacts DEF Login, asks, IInv
<1>2. Onward /\ TurnInv'
  BY <1>1 DEF Onward, IInv, TurnInv
<1>3. TypeOK'
  BY <1>1 DEF IInv, TypeOK, Scopes
<1>4. ControlInv'
  BY <1>1, <1>2, ControlFrame DEF IInv
<1> QED BY <1>1, <1>2, <1>3, <1>4, ServerFrame DEF IInv, ScopeInv, BootInv

-----------------------------------------------------------------------------
(* The control channel. *)

LEMMA watchSessionFacts ==
  ASSUME TypeOK, NEW i \in Ids \cup {NoId}
  PROVE  /\ watchSession(control, i) \in Channel /\ watchSession(control, i).id = i
         /\ \/ watchSession(control, i) = control
            \/ watchSession(control, i).queue = <<>>
<1> DEFINE Q == Seq(Event)
           C == [id : Ids \cup {NoId}, open : BOOLEAN, queue : Q]
<1>1. <<>> \in Q /\ control \in C /\ Channel = C
  BY DEF TypeOK, Channel
<1> HIDE DEF Q
<1>2. CASE control.id = i
  BY <1>1, <1>2 DEF watchSession
<1>3. CASE control.id # i
  <2>1. watchSession(control, i) = [NoControl EXCEPT !.id = i]
    BY <1>3 DEF watchSession
  <2> QED BY <1>1, <2>1 DEF NoControl
<1> QED BY <1>2, <1>3

LEMMA WatchFrame ==
  ASSUME TypeOK, ControlInv, Onward, NEW i \in Ids \cup {NoId}, control' = watchSession(control, i)
  PROVE  control' \in Channel /\ control'.id = i /\ ControlInv'
<1>1. control' \in Channel /\ control'.id = i /\ (control' = control \/ control'.queue = <<>>)
  BY watchSessionFacts
<1>2. CASE control' = control
  BY <1>1, <1>2, ControlFrame
<1>3. CASE control'.queue = <<>>
  BY <1>1, <1>3 DEF ControlInv
<1> QED BY <1>1, <1>2, <1>3

LEMMA ControlOpenStep ==
  ASSUME IInv, ControlOpen
  PROVE  IInv'
<1> DEFINE m == RunningMap[control.id]
           q == IF m = NoStream THEN <<>> ELSE <<[s |-> m, again |-> TRUE]>>
<1>1. /\ control.id \in Ids
      /\ control' = [control EXCEPT !.open = TRUE, !.queue = q]
      /\ UNCHANGED <<turn, login, S, feed, screen, lists, opens, posts, probes, boot, moves>>
  BY DEF ControlOpen, IInv, TypeOK, server, asks
<1>2. Onward /\ TurnInv'
  BY <1>1, ServerKept DEF IInv, server
<1>3. m \in Streams \cup {NoStream}
  BY <1>1, RunningMapFacts
<1>4. m # NoStream => Home(m, control.id)
  BY <1>1, RunningMapFacts DEF Running, Home
<1>5. /\ q \in Seq(Event)
      /\ \A k \in 1..Len(q) : q[k].s \in Streams /\ Home(q[k].s, control.id)
  <2>1. CASE m = NoStream
    BY <2>1
  <2>2. CASE m # NoStream
    <3> DEFINE e == [s |-> m, again |-> TRUE]
    <3>1. e \in Event /\ e.s = m
      BY <1>3, <2>2 DEF Event
    <3> HIDE DEF e
    <3>2. q = <<e>>
      BY <2>2 DEF e
    <3>3. q \in Seq(Event) /\ Len(q) = 1 /\ q[1] = e
      BY <3>1, <3>2, OneFacts
    <3>4. m \in Streams /\ Home(m, control.id)
      BY <1>3, <1>4, <2>2
    <3> HIDE DEF m, q
    <3>5. \A k \in 1..Len(q) : q[k] = e
      BY <3>3
    <3> QED BY <3>1, <3>3, <3>4, <3>5
  <2> QED BY <2>1, <2>2
<1> HIDE DEF m, q
<1>6. control' \in Channel /\ control'.id = control.id /\ control'.queue = q
  BY <1>1, <1>5, ChannelFacts DEF IInv
<1>7. TypeOK'
  BY <1>1, <1>6 DEF IInv, TypeOK, Channel
<1>8. ControlInv'
  <2>1. \A k \in 1..Len(q) : HomeNext(q[k].s, control.id)
    BY <1>2, <1>5, HomeKept
  <2> QED BY <1>1, <1>6, <2>1 DEF ControlInv, Home, HomeNext
<1>9. S.scope # "other" /\ ~boot.on
  BY <1>1, NoControlFacts DEF IInv, ScopeInv, BootInv
<1> QED BY <1>1, <1>2, <1>7, <1>8, <1>9, ServerFrame

\* The first event is taken off the channel.
LEMMA TakenFacts ==
  ASSUME TypeOK, ControlInv, Onward, control.queue # <<>>,
         control' = [control EXCEPT !.queue = Tail(@)]
  PROVE  /\ Head(control.queue).s \in Streams /\ Head(control.queue).again \in BOOLEAN
         /\ Home(Head(control.queue).s, control.id) /\ control.id \in Ids
         /\ control' \in Channel /\ control'.id = control.id /\ ControlInv'
<1> DEFINE q == control.queue
           t == Tail(q)
<1>1. q \in Seq(Event) /\ q # <<>>
  BY QueueFacts
<1>2. \A k \in 1..Len(q) : q[k].s \in Streams /\ q[k].again \in BOOLEAN /\ Home(q[k].s, control.id)
  BY QueueFacts DEF ControlInv
<1>3. control.id \in Ids
  BY DEF ControlInv, TypeOK
<1>4. control' = [control EXCEPT !.queue = t]
  OBVIOUS
<1> HIDE DEF q
<1>5. /\ t \in Seq(Event) /\ Head(q) = q[1] /\ 1 \in 1..Len(q)
      /\ \A k \in 1..Len(t) : k + 1 \in 1..Len(q) /\ t[k] = q[k + 1]
  BY <1>1
<1> HIDE DEF t
<1>6. control' \in Channel /\ control'.id = control.id /\ control'.queue = t
  <2>1. t \in Seq(Event)
    BY <1>5
  <2>2. /\ [control EXCEPT !.queue = t] \in Channel
        /\ [control EXCEPT !.queue = t].id = control.id
        /\ [control EXCEPT !.queue = t].queue = t
    BY <2>1, ChannelFacts
  <2> QED BY <1>4, <2>2
<1>7. \A k \in 1..Len(t) : t[k].s \in Streams /\ Home(t[k].s, control.id)
  BY <1>2, <1>5
<1>8. \A k \in 1..Len(t) : HomeNext(t[k].s, control.id)
  BY <1>7, HomeKept
<1>9. ControlInv'
  BY <1>3, <1>6, <1>8 DEF ControlInv, Home, HomeNext
<1> QED BY <1>2, <1>3, <1>5, <1>6, <1>9 DEF q

-----------------------------------------------------------------------------
(* Steps of the tab that stay in the view. *)

\* A step after which the view is still the one it was, except for marks that
\* are right and a focus stream that is subscribed.
LEMMA StayFrame ==
  ASSUME IInv, UNCHANGED <<server, boot>>, posts' \subseteq posts, lists' \subseteq lists,
         S' \in View, S'.gen = S.gen, S'.fresh = S.fresh, S'.own = S.own,
         \/ S'.sid = S.sid
         \/ /\ S.sid # NoId /\ S'.sid \in Ids /\ Chain[S'.sid] = Chain[S.sid]
            /\ S.focus # NoStream /\ S'.focus = S.focus,
         S'.scope = S.scope, feed' \in Feeds,
         control' \in Channel, ControlInv', ~boot.on, S.scope = "other" => ScopeInv',
         moves' \in 0..MaxMoves, screen' \subseteq Streams, probes' \subseteq Streams,
         S.sid = NoId => screen' = {},
         \A i \in Ids : \/ S'.streaming[i] = S.streaming[i]
                        \/ S'.streaming[i] = NoStream
                        \/ S'.streaming[i] \in Streams /\ Home(S'.streaming[i], i),
         \/ /\ S'.focus = S.focus
            /\ \A s \in Streams : feed[s] # Closed =>
                 feed'[s] # Closed \/ s # S.focus \/ Over(s) \/ login = "other"
         \/ /\ S'.focus \in Streams /\ feed'[S'.focus] # Closed /\ S.sid # NoId
            /\ Home(S'.focus, S.sid),
         OpenInv', DropInv'
  PROVE  IInv'
<1>1. Onward /\ TurnInv'
  BY ServerKept DEF IInv
<1>2. TypeOK'
  BY DEF IInv, TypeOK, Channel, Feeds, server
<1>3. \A i : \A s \in Streams : Home(s, i) => HomeNext(s, i)
  BY <1>1, HomeKept
<1>4. S \in View /\ S.gen \in Nat
  BY DEF IInv, TypeOK, View
<1>5. ViewInv'
  <2>1. \A i \in Ids : S.streaming[i] # NoStream =>
          S.streaming[i] \in Streams /\ Home(S.streaming[i], i)
    BY <1>4 DEF IInv, ViewInv, View
  <2>2. \A i \in Ids : S'.streaming[i] # NoStream => HomeNext(S'.streaming[i], i)
    BY <1>3, <2>1
  <2>3. S.focus # NoStream => S.focus \in Streams /\ Home(S.focus, S.sid) /\ S.sid # NoId
    BY <1>4 DEF IInv, ViewInv, View
  <2>4. S'.focus # NoStream => HomeNext(S'.focus, S.sid)
    BY <1>3, <2>3
  <2>5. S.sid = NoId => S'.focus = NoStream /\ screen' = {}
    BY DEF IInv, ViewInv
  <2>6. S.fresh => S.sid = NoId /\ S.own = NoStream
    BY DEF IInv, ViewInv
  <2>7. S'.focus # NoStream => HomeNext(S'.focus, S'.sid)
    BY <2>4 DEF HomeNext
  <2> QED BY <2>2, <2>5, <2>6, <2>7 DEF ViewInv, Home, HomeNext
<1>6. FocusFed'
  BY <1>1, <1>4 DEF IInv, FocusFed, Onward, Over, View
<1>7. ListInv'
  BY <1>1, ListFrame DEF IInv
<1>8. PostInv'
  BY <1>1, <1>4, PostFrame DEF IInv
<1>9. BootInv'
  BY <1>1, BootFrame DEF IInv
<1>10. ScopeInv'
  BY DEF ScopeInv
<1> QED BY <1>1, <1>2, <1>5, <1>6, <1>7, <1>8, <1>9, <1>10 DEF IInv

LEMMA SameViewFrame ==
  ASSUME IInv, UNCHANGED <<server, posts, boot>>, opens' \subseteq opens,
         lists' \subseteq lists,
         S' \in View, S'.gen = S.gen, S'.fresh = S.fresh, S'.own = S.own,
         \/ S'.sid = S.sid
         \/ /\ S.sid # NoId /\ S'.sid \in Ids /\ Chain[S'.sid] = Chain[S.sid]
            /\ S.focus # NoStream /\ S'.focus = S.focus,
         S'.scope = S.scope, S'.switching = S.switching, feed' \in Feeds,
         control' \in Channel, ControlInv', ~boot.on, S.scope = "other" => ScopeInv',
         moves' \in 0..MaxMoves, screen' \subseteq Streams, probes' \subseteq Streams,
         S.sid = NoId => screen' = {},
         \A i \in Ids : \/ S'.streaming[i] = S.streaming[i]
                        \/ S'.streaming[i] = NoStream
                        \/ S'.streaming[i] \in Streams /\ Home(S'.streaming[i], i),
         \/ /\ S'.focus = S.focus
            /\ \A s \in Streams : feed[s] # Closed =>
                 feed'[s] # Closed \/ s # S.focus \/ Over(s) \/ login = "other"
         \/ /\ S'.focus \in Streams /\ feed'[S'.focus] # Closed /\ S.sid # NoId
            /\ Home(S'.focus, S.sid) /\ S.switching = NoId
  PROVE  IInv'
<1>1. Onward /\ S.gen \in Nat
  BY ServerKept DEF IInv, TypeOK, View
<1>2. \A o \in opens' : o.gen = S.gen => S'.focus = S.focus /\ S'.sid = S.sid
  BY DEF IInv, OpenInv
<1>3. OpenInv' /\ DropInv'
  BY <1>1, <1>2, OpenFrame DEF IInv
<1> QED BY <1>3, StayFrame

LEMMA AnnouncedStep ==
  ASSUME IInv, Announced
  PROVE  IInv'
<1> DEFINE e == Head(control.queue)
           v == [S EXCEPT !.streaming[control.id] = e.s]
<1>0. /\ control.queue # <<>> /\ control' = [control EXCEPT !.queue = Tail(@)]
      /\ UNCHANGED <<server, screen, lists, opens, posts, probes, boot, moves>>
      /\ \/ S' = v /\ UNCHANGED feed
         \/ /\ S.sid = control.id /\ S.switching = NoId
            /\ S' = attach(v, e.s) /\ feed' = attachFeed(feed, e.s, e.again)
  BY DEF Announced
<1>1. Onward
  BY <1>0, ServerKept
<1>2. /\ e.s \in Streams /\ e.again \in BOOLEAN /\ Home(e.s, control.id) /\ control.id \in Ids
      /\ control' \in Channel /\ ControlInv'
  BY <1>0, <1>1, TakenFacts DEF IInv
<1>3. ~boot.on /\ S.scope # "other"
  BY <1>0, <1>2, NoControlFacts DEF IInv, BootInv, ScopeInv
<1>4. S \in View /\ feed \in Feeds
  BY DEF IInv, TypeOK, Feeds
<1> HIDE DEF e
<1>5. /\ v \in View /\ v.sid = S.sid /\ v.focus = S.focus /\ v.gen = S.gen /\ v.fresh = S.fresh
      /\ v.own = S.own /\ v.switching = S.switching /\ v.scope = S.scope
      /\ \A i \in Ids : v.streaming[i] = IF i = control.id THEN e.s ELSE S.streaming[i]
  BY <1>2, <1>4, MarkFacts
<1> HIDE DEF v
<1>6. /\ moves' \in 0..MaxMoves /\ screen' \subseteq Streams /\ probes' \subseteq Streams
      /\ S.sid = NoId => screen' = {}
  BY <1>0 DEF IInv, TypeOK, ViewInv
<1>7. CASE S' = v /\ UNCHANGED feed
  BY <1>0, <1>2, <1>3, <1>4, <1>5, <1>6, <1>7, SameViewFrame
<1>8. CASE /\ S.sid = control.id /\ S.switching = NoId
           /\ S' = attach(v, e.s) /\ feed' = attachFeed(feed, e.s, e.again)
  <2>1. /\ S' \in View /\ S'.sid = S.sid /\ S'.focus = e.s /\ S'.gen = S.gen /\ S'.fresh = S.fresh
        /\ S'.own = S.own /\ S'.switching = S.switching /\ S'.scope = S.scope
        /\ S'.streaming = v.streaming
    BY <1>2, <1>5, <1>8, attachFacts
  <2>2. feed' \in Feeds /\ feed'[e.s] # Closed
    BY <1>2, <1>4, <1>8, FeedFacts
  <2>3. S.sid # NoId
    BY <1>2, <1>8
  <2> QED BY <1>0, <1>2, <1>3, <1>5, <1>6, <1>8, <2>1, <2>2, <2>3, SameViewFrame
<1> QED BY <1>0, <1>7, <1>8

\* A frame of a subscribed turn.  In this protocol the view never waits for a
\* frame to name it: a send's answer comes first.
LEMMA applyFacts ==
  ASSUME IInv, NEW s \in Streams, apply(s)
  PROVE  /\ ~boot.on /\ S.scope # "other"
         /\ S' \in View /\ S'.gen = S.gen /\ S'.fresh = S.fresh /\ S'.own = S.own
         /\ S'.focus = S.focus /\ S'.switching = S.switching /\ S'.scope = S.scope
         /\ S'.streaming = S.streaming
         /\ \/ S'.sid = S.sid
            \/ /\ S.sid # NoId /\ S'.sid \in Ids /\ Chain[S'.sid] = Chain[S.sid]
               /\ S.focus # NoStream
         /\ feed' \in Feeds
         /\ \A t \in Streams : feed[t] # Closed => feed'[t] # Closed \/ Over(t)
         /\ control' \in Channel /\ ControlInv'
         /\ moves' \in 0..MaxMoves /\ screen' \subseteq Streams /\ probes' \subseteq Streams
         /\ S.sid = NoId => screen' = {}
         /\ \A t \in screen' : t \in screen \/ (S'.sid # NoId /\ Home(t, S'.sid))
         /\ UNCHANGED <<server, lists, opens, posts, probes, boot>>
<1> DEFINE n == feed[s] + 1
           id == turn[s].ids[n]
           end == n = Frames
           adopted == Adopt(S, s, id)
           mine == Mine(adopted, s, id)
           v == IF mine THEN Name(adopted, id) ELSE adopted
           dropped == ~end /\ S.switching # NoId /\ id = S.switching
<1>0. /\ feed[s] # Closed /\ turn[s].st # "gone" /\ n <= Len(turn[s].ids)
      /\ feed' = IF end THEN closeEs(feed, s) ELSE [feed EXCEPT ![s] = n]
      /\ S' = IF dropped THEN S ELSE IF end /\ Shown(v, s, id) THEN setBusy(v, FALSE) ELSE v
      /\ screen' = IF mine /\ ~end /\ ~dropped THEN screen \cup {s} ELSE screen
      /\ control' = IF dropped \/ adopted.sid = S.sid THEN control
                    ELSE watchSession(control, adopted.sid)
      /\ UNCHANGED <<server, lists, opens, posts, probes, boot, moves>>
  BY DEF apply
<1>1. ~boot.on /\ S.scope # "other"
  BY <1>0 DEF IInv, BootInv, ScopeInv
<1>2. S \in View /\ feed \in Feeds
  BY DEF IInv, TypeOK, Feeds
<1>3. n \in 1..Len(turn[s].ids)
  <2>1. feed[s] \in 0..Frames
    BY <1>0, <1>2 DEF Feeds
  <2>2. Len(turn[s].ids) \in Nat
    BY TurnShape DEF IInv
  <2> QED BY <1>0, <2>1, <2>2 DEF Frames
<1>4. id \in Ids /\ Chain[id] = Chain[turn[s].cur] /\ turn[s].st # "unused"
  <2>1. id \in Ids /\ Chain[id] = Chain[turn[s].cur]
    BY <1>3 DEF IInv, TurnInv
  <2>2. turn[s].st = "unused" => Len(turn[s].ids) = 0
    BY DEF IInv, TurnInv
  <2> QED BY <1>3, <2>1, <2>2
<1>5. end => turn[s].st = "ended"
  <2>1. turn[s].st \in {"unused", "running", "ended", "gone"}
    BY TurnShape DEF IInv, Turn
  <2> QED BY <1>0, <1>3, <1>4, <2>1 DEF IInv, TurnInv, Frames
<1>6. n \in 0..Frames
  BY <1>3, <1>4, TurnShape DEF IInv, TurnInv, Frames, Turn
<1> HIDE DEF n, id, end
<1>7. /\ adopted \in View /\ adopted.gen = S.gen /\ adopted.fresh = S.fresh
      /\ adopted.own = S.own /\ adopted.focus = S.focus /\ adopted.switching = S.switching
      /\ adopted.scope = S.scope /\ adopted.streaming = S.streaming
      /\ \/ adopted.sid = S.sid
         \/ /\ S.sid # NoId /\ adopted.sid \in Ids /\ Chain[adopted.sid] = Chain[S.sid]
            /\ S.focus # NoStream
  <2>1. CASE S.sid # NoId /\ id # S.sid /\ s = S.focus
    <3>1. adopted = [S EXCEPT !.sid = id]
      BY <2>1 DEF Adopt
    <3>2. s # NoStream /\ Home(S.focus, S.sid)
      BY <2>1, StreamNumbers DEF IInv, ViewInv
    <3>3. Chain[id] = Chain[S.sid]
      BY <1>4, <2>1, <3>2 DEF Home
    <3> HIDE DEF adopted
    <3> QED BY <1>2, <1>4, <2>1, <3>1, <3>2, <3>3 DEF View
  <2>2. CASE ~(S.sid # NoId /\ id # S.sid /\ s = S.focus)
    <3>1. adopted = S
      BY <2>2 DEF Adopt
    <3> HIDE DEF adopted
    <3> QED BY <1>2, <3>1
  <2> QED BY <2>1, <2>2
<1>8. /\ adopted.sid = NoId => S.sid = NoId
      /\ S.sid = NoId => S.focus = NoStream
      /\ S.fresh => S.sid = NoId /\ S.own = NoStream
  BY <1>7 DEF IInv, ViewInv
<1>9. mine => adopted.sid # NoId /\ id = adopted.sid
  <2>1. s # NoStream
    BY StreamNumbers
  <2> HIDE DEF adopted
  <2> QED BY <1>7, <1>8, <2>1 DEF Mine
<1>10. v = adopted
  BY <1>9 DEF Name
<1> HIDE DEF adopted, mine, v, dropped
<1>11. /\ S' \in View /\ S'.gen = S.gen /\ S'.fresh = S.fresh /\ S'.own = S.own
       /\ S'.focus = S.focus /\ S'.switching = S.switching /\ S'.scope = S.scope
       /\ S'.streaming = S.streaming
       /\ \/ S'.sid = S.sid
          \/ /\ S.sid # NoId /\ S'.sid \in Ids /\ Chain[S'.sid] = Chain[S.sid]
             /\ S.focus # NoStream
  BY <1>0, <1>2, <1>7, <1>10, setBusyFacts
<1>12. /\ feed' \in Feeds
       /\ \A t \in Streams : feed[t] # Closed => feed'[t] # Closed \/ Over(t)
  <2>1. CASE end
    <3>1. feed' = closeEs(feed, s) /\ Over(s)
      BY <1>0, <1>5, <2>1 DEF Over
    <3> QED BY <1>2, <3>1, CloseFacts
  <2>2. CASE ~end
    <3>1. feed' = [feed EXCEPT ![s] = n] /\ n # Closed
      BY <1>0, <1>6, <2>2 DEF Closed
    <3> QED BY <1>2, <1>6, <3>1 DEF Feeds
  <2> QED BY <2>1, <2>2
<1>13. control' \in Channel /\ ControlInv'
  <2>1. Onward
    BY <1>0, ServerKept
  <2>2. adopted.sid \in Ids \cup {NoId}
    BY <1>7 DEF View
  <2>3. CASE control' = control
    BY <2>1, <2>3, ControlFrame DEF IInv, TypeOK, Channel
  <2>4. CASE control' = watchSession(control, adopted.sid)
    BY <2>1, <2>2, <2>4, WatchFrame DEF IInv
  <2> QED BY <1>0, <2>3, <2>4
<1>14. /\ moves' \in 0..MaxMoves /\ screen' \subseteq Streams /\ probes' \subseteq Streams
       /\ S.sid = NoId => screen' = {}
  BY <1>0, <1>7, <1>9 DEF IInv, TypeOK, ViewInv
<1>15. \A t \in screen' : t \in screen \/ (S'.sid # NoId /\ Home(t, S'.sid))
  <2> SUFFICES ASSUME mine, ~end, ~dropped, screen' = screen \cup {s}
               PROVE  S'.sid # NoId /\ Home(s, S'.sid)
    BY <1>0
  <2>1. S' = adopted
    BY <1>0, <1>10
  <2> QED BY <1>4, <1>9, <2>1 DEF Home
<1> QED BY <1>0, <1>1, <1>11, <1>12, <1>13, <1>14, <1>15

LEMMA applyStep ==
  ASSUME IInv, NEW s \in Streams, apply(s)
  PROVE  IInv'
BY applyFacts, SameViewFrame

LEMMA FeedErrorStep ==
  ASSUME IInv, NEW s \in Streams, FeedError(s)
  PROVE  IInv'
<1>1. /\ feed[s] # Closed /\ moves' \in 0..MaxMoves
      /\ feed' = IF s # S.focus THEN closeEs(feed, s) ELSE feed
      /\ probes' \subseteq probes \cup {s}
      /\ UNCHANGED <<server, S, screen, control, lists, opens, posts, boot>>
  BY SpendFacts DEF FeedError, IInv, TypeOK
<1>2. ~boot.on /\ S.scope # "other"
  BY <1>1 DEF IInv, BootInv, ScopeInv
<1>3. /\ feed' \in Feeds
      /\ \A t \in Streams : feed[t] # Closed => feed'[t] # Closed \/ t # S.focus
  BY <1>1, CloseFacts DEF IInv, TypeOK, Feeds
<1>4. control' \in Channel /\ ControlInv'
  BY <1>1, ServerKept, ControlFrame DEF IInv, TypeOK, Channel
<1>5. /\ S' \in View /\ screen' \subseteq Streams /\ probes' \subseteq Streams
      /\ S.sid = NoId => screen' = {}
  BY <1>1 DEF IInv, TypeOK, ViewInv
<1> QED BY <1>1, <1>2, <1>3, <1>4, <1>5, SameViewFrame

LEMMA FeedProbeStep ==
  ASSUME IInv, NEW s \in probes, FeedProbe(s)
  PROVE  IInv'
<1>1. /\ probes' \subseteq probes /\ s \in Streams
      /\ \/ UNCHANGED <<S, feed>>
         \/ /\ turn[s].st = "gone" \/ login # "owner"
            /\ feed' = closeEs(feed, s) /\ S' = setBusy(S, FALSE)
      /\ UNCHANGED <<server, screen, control, lists, opens, posts, boot, moves>>
  BY DEF FeedProbe, IInv, TypeOK
<1>2. ~boot.on
  BY DEF IInv, BootInv
<1>3. /\ S \in View /\ feed \in Feeds /\ login \in Scopes
      /\ moves' \in 0..MaxMoves /\ screen' \subseteq Streams /\ probes' \subseteq Streams
      /\ S.sid = NoId => screen' = {}
  BY <1>1 DEF IInv, TypeOK, ViewInv, Feeds
<1>4. /\ S' \in View /\ S'.gen = S.gen /\ S'.fresh = S.fresh /\ S'.own = S.own
      /\ S'.focus = S.focus /\ S'.switching = S.switching /\ S'.scope = S.scope
      /\ S'.streaming = S.streaming /\ S'.sid = S.sid
  BY <1>1, <1>3, setBusyFacts
<1>5. /\ feed' \in Feeds
      /\ \A t \in Streams : feed[t] = Closed => feed'[t] = Closed
      /\ \A t \in Streams : feed[t] # Closed => feed'[t] # Closed \/ Over(t) \/ login = "other"
  <2>1. CASE UNCHANGED feed
    BY <1>3, <2>1
  <2>2. CASE (turn[s].st = "gone" \/ login # "owner") /\ feed' = closeEs(feed, s)
    <3>1. Over(s) \/ login = "other"
      BY <1>3, <2>2 DEF Over, Scopes
    <3> QED BY <1>1, <1>3, <2>2, <3>1, CloseFacts
  <2> QED BY <1>1, <2>1, <2>2
<1>6. control' \in Channel /\ ControlInv'
  BY <1>1, ServerKept, ControlFrame DEF IInv, TypeOK, Channel
<1>7. S.scope = "other" => ScopeInv'
  BY <1>1, <1>4, <1>5 DEF IInv, ScopeInv, server
<1> QED BY <1>1, <1>2, <1>3, <1>4, <1>5, <1>6, <1>7, SameViewFrame

-----------------------------------------------------------------------------
(* Requests: what is in flight changes, the view does not. *)

LEMMA StillFrame ==
  ASSUME IInv, Onward, TurnInv', TypeOK', UNCHANGED <<S, feed, screen, control>>,
         ListInv', OpenInv', DropInv', PostInv', BootInv'
  PROVE  IInv'
<1>1. ViewInv' /\ FocusFed'
  BY ViewFrame DEF IInv
<1>2. ControlInv'
  BY ControlFrame DEF IInv
<1>3. ScopeInv'
  BY ScopeFrame DEF IInv, ScopeInv
<1> QED BY <1>1, <1>2, <1>3 DEF IInv

LEMMA ListAnswerStep ==
  ASSUME IInv, ListAnswer
  PROVE  IInv'
<1> DEFINE l == [scope |-> login, rows |-> IF login = "owner" THEN Born ELSE {},
                 streaming |-> IF login = "owner" THEN RunningMap ELSE NoStreaming]
<1>1. /\ lists' = {l}
      /\ UNCHANGED <<server, S, feed, screen, control, opens, posts, probes, boot, moves>>
  BY DEF ListAnswer
<1>2. Onward /\ TurnInv' /\ UNCHANGED <<turn, login>>
  BY <1>1, ServerKept DEF IInv, server
<1>3. Born \subseteq Ids /\ login \in Scopes
  BY DEF IInv, TypeOK, Born
<1>4. /\ RunningMap \in [Ids -> Streams \cup {NoStream}]
      /\ NoStreaming \in [Ids -> Streams \cup {NoStream}]
      /\ \A i \in Ids : NoStreaming[i] = NoStream
  BY RunningMapFacts DEF NoStreaming
<1>5. \A i \in Ids : RunningMap[i] # NoStream => Home(RunningMap[i], i)
  BY RunningMapFacts DEF Running, Home
<1>6. /\ l \in [scope : Scopes, rows : SUBSET Ids, streaming : [Ids -> Streams \cup {NoStream}]]
      /\ l.scope = login
      /\ login # "owner" => l.rows = {} /\ l.streaming = NoStreaming
      /\ \A i \in Ids : l.streaming[i] # NoStream => Home(l.streaming[i], i)
  BY <1>3, <1>4, <1>5
<1> HIDE DEF l
<1>7. S.scope = "other" => login = "other"
  BY DEF IInv, ScopeInv
<1>8. ListInv'
  BY <1>1, <1>2, <1>3, <1>6, <1>7 DEF ListInv, Home, Scopes
<1>9. TypeOK'
  BY <1>1, <1>2 DEF IInv, TypeOK
<1>10. S.gen \in Nat
  BY DEF IInv, TypeOK, View
<1>11. OpenInv' /\ DropInv' /\ PostInv' /\ BootInv'
  BY <1>1, <1>2, <1>10, OpenFrame, PostFrame, BootFrame DEF IInv
<1> QED BY <1>1, <1>2, <1>8, <1>9, <1>11, StillFrame

LEMMA SendStep ==
  ASSUME IInv, Send
  PROVE  IInv'
<1> DEFINE num == CHOOSE k \in 1..MaxPosts : \A q \in posts : q.n # k
           to == IF S.fresh THEN NoId ELSE S.sid
           p == [n |-> num, gen |-> S.gen, scope |-> S.scope, id |-> to,
                 step |-> "asked", s |-> NoStream]
<1>1. /\ ~boot.on /\ S.switching = NoId /\ posts' = posts \cup {p}
      /\ moves' \in 0..MaxMoves
      /\ UNCHANGED <<server, S, feed, screen, control, lists, opens, probes, boot>>
  BY SpendFacts DEF Send, IInv
<1>2. Onward /\ TurnInv' /\ UNCHANGED <<turn, login>>
  BY <1>1, ServerKept DEF IInv, server
<1>3. S.gen \in Nat /\ S.scope \in Scopes /\ to \in Ids \cup {NoId}
  BY DEF IInv, TypeOK, View
<1> HIDE DEF num, to
<1>4. /\ p.gen = S.gen /\ p.scope = S.scope /\ p.id = to /\ p.step = "asked" /\ p.s = NoStream
      /\ p = [n |-> p.n, gen |-> p.gen, scope |-> p.scope, id |-> p.id,
              step |-> p.step, s |-> p.s]
  OBVIOUS
<1> HIDE DEF p
<1>5. S.scope = "other" => login = "other"
  BY DEF IInv, ScopeInv
<1>6. IsFiniteSet(posts')
  BY <1>1, FS_AddElement DEF IInv, PostInv
<1>7. PostInv'
  BY <1>1, <1>2, <1>3, <1>4, <1>5, <1>6 DEF IInv, PostInv, Home
<1>8. \A o \in opens : o.gen # S.gen
  BY <1>1 DEF IInv, OpenInv
<1>9. OpenInv' /\ DropInv'
  BY <1>1, <1>2, <1>3, <1>8, OpenFrame DEF IInv
<1>10. ListInv' /\ BootInv'
  BY <1>1, <1>2, ListFrame, BootFrame DEF IInv
<1>11. TypeOK'
  BY <1>1, <1>2 DEF IInv, TypeOK
<1> QED BY <1>1, <1>2, <1>7, <1>9, <1>10, <1>11, StillFrame

LEMMA SendLostStep ==
  ASSUME IInv, NEW p \in posts, SendLost(p)
  PROVE  IInv'
<1>1. /\ posts' \subseteq posts /\ moves' \in 0..MaxMoves
      /\ UNCHANGED <<server, S, feed, screen, control, lists, opens, probes, boot>>
  BY SpendFacts DEF SendLost, IInv
<1>2. Onward /\ TurnInv' /\ S.gen \in Nat
  BY <1>1, ServerKept DEF IInv, TypeOK, View
<1>3. ~boot.on
  BY DEF IInv, BootInv
<1>4. ListInv' /\ OpenInv' /\ DropInv' /\ PostInv' /\ BootInv'
  BY <1>1, <1>2, <1>3, ListFrame, OpenFrame, PostFrame, BootFrame DEF IInv
<1>5. TypeOK'
  BY <1>1 DEF IInv, TypeOK, server
<1> QED BY <1>1, <1>2, <1>4, <1>5, StillFrame

\* The answer replaces the request, under the same generation and subject.
LEMMA AnsweredFrame ==
  ASSUME IInv, Onward, NEW p \in posts, NEW step, NEW id \in Ids \cup {NoId},
         NEW s \in Streams \cup {NoStream},
         posts' = (posts \ {p}) \cup {[p EXCEPT !.step = step, !.id = id, !.s = s]},
         step = "started" => id # NoId /\ s # NoStream /\ HomeNext(s, id) /\ login # "other",
         TurnInv', TypeOK', UNCHANGED <<S, feed, screen, control, lists, opens, probes, boot>>
  PROVE  IInv'
<1> DEFINE q == [p EXCEPT !.step = step, !.id = id, !.s = s]
<1>1. p = [n |-> p.n, gen |-> p.gen, scope |-> p.scope, id |-> p.id,
           step |-> p.step, s |-> p.s]
  BY DEF IInv, PostInv
<1>2. /\ q.gen = p.gen /\ q.scope = p.scope /\ q.id = id /\ q.step = step /\ q.s = s
      /\ q = [n |-> q.n, gen |-> q.gen, scope |-> q.scope, id |-> q.id,
              step |-> q.step, s |-> q.s]
  <2>1. p \in [n : {p.n}, gen : {p.gen}, scope : {p.scope}, id : {p.id},
               step : {p.step}, s : {p.s}]
    BY <1>1
  <2>2. q \in [n : {p.n}, gen : {p.gen}, scope : {p.scope}, id : {id}, step : {step}, s : {s}]
    BY <2>1
  <2> HIDE DEF q
  <2>3. q = [n |-> p.n, gen |-> p.gen, scope |-> p.scope, id |-> id, step |-> step, s |-> s]
    BY <2>2
  <2> QED BY <2>3
<1> HIDE DEF q
<1>3. posts' = (posts \ {p}) \cup {q}
  BY DEF q
<1>4. S.gen \in Nat /\ ~boot.on
  BY DEF IInv, TypeOK, View, BootInv
<1>5. IsFiniteSet(posts')
  <2>1. IsFiniteSet(posts \ {p})
    BY FS_Subset DEF IInv, PostInv
  <2> QED BY <1>3, <2>1, FS_AddElement
<1>6. PostInv'
  <2>1. ASSUME NEW r \in posts', r # q, r.step = "started" PROVE HomeNext(r.s, r.id)
    <3>1. r \in posts /\ r.s \in Streams /\ Home(r.s, r.id)
      BY <1>3, <2>1 DEF IInv, PostInv
    <3> QED BY <3>1, HomeKept
  <2>2. p.scope = "other" => login = "other"
    BY DEF IInv, PostInv
  <2>3. ASSUME NEW r \in posts'
        PROVE  /\ r = [n |-> r.n, gen |-> r.gen, scope |-> r.scope, id |-> r.id,
                       step |-> r.step, s |-> r.s]
               /\ r.gen \in Nat /\ r.gen <= S'.gen /\ r.scope \in Scopes
               /\ r.id \in Ids \cup {NoId} /\ r.s \in Streams \cup {NoStream}
               /\ r.step = "started" => r.id # NoId /\ r.s # NoStream /\ HomeNext(r.s, r.id)
               /\ r.scope = "other" => login' = "other" /\ r.step # "started"
    <3>1. CASE r = q
      BY <1>2, <2>2, <3>1 DEF IInv, PostInv, Onward
    <3>2. CASE r # q
      <4>1. r \in posts
        BY <1>3, <3>2
      <4> QED BY <2>1, <3>2, <4>1 DEF IInv, PostInv, Onward
    <3> QED BY <3>1, <3>2
  <2> QED BY <1>5, <2>3 DEF PostInv, Home, HomeNext
<1>7. \A r \in posts' : \E t \in posts : t.gen = r.gen
  BY <1>2, <1>3
<1>8. OpenInv' /\ DropInv'
  BY <1>4, <1>7, OpenFrame DEF IInv
<1>9. ListInv' /\ BootInv'
  BY <1>4, ListFrame, BootFrame DEF IInv
<1> QED BY <1>6, <1>8, <1>9, StillFrame

LEMMA StartStep ==
  ASSUME IInv, NEW p \in posts, Start(p)
  PROVE  IInv'
<1> DEFINE refuses == login # "owner" \/ NextStream = NoStream \/ (p.id # NoId /\ ~Idle(p.id))
           answered(step, id, s) == (posts \ {p}) \cup {[p EXCEPT !.step = step, !.id = id, !.s = s]}
<1>1. UNCHANGED <<login, S, feed, screen, control, lists, opens, probes, boot, moves>>
  BY DEF Start
<1>2. p.id \in Ids \cup {NoId}
  BY DEF IInv, PostInv
<1>3. CASE refuses
  <2>1. posts' = answered("refused", p.id, NoStream) /\ UNCHANGED turn
    BY <1>3 DEF Start
  <2>2. Onward /\ TurnInv'
    BY <1>1, <2>1, ServerKept DEF IInv, server
  <2>3. TypeOK'
    BY <1>1, <2>1 DEF IInv, TypeOK
  <2> QED BY <1>1, <1>2, <2>1, <2>2, <2>3, AnsweredFrame
<1>4. CASE ~refuses
  <2>1. PICK id \in IF p.id # NoId THEN {p.id}
                    ELSE {i \in Ids \ Born : \A j \in Ids : Heir[j] # i} :
               turn' = Started(NextStream, id) /\ posts' = answered("started", id, NextStream)
    BY <1>4 DEF Start
  <2>2. id \in Ids
    BY <1>2, <2>1
  <2>3. NextStream \in Streams /\ turn[NextStream].st = "unused"
    BY <1>4, NextStreamFacts
  <2> DEFINE s == NextStream
  <2> HIDE DEF s
  <2>4. s \in Streams /\ turn[s].st = "unused" /\ turn' = Started(s, id)
    BY <2>1, <2>3 DEF s
  <2>5. /\ Onward /\ TurnInv' /\ turn' \in [Streams -> Turn]
        /\ \A t \in Streams : turn'[t].st # "unused" => turn'[t].cur \in Ids
        /\ turn'[s].st = "running" /\ turn'[s].cur = id
    BY <1>1, <2>2, <2>4, StartedFacts DEF IInv
  <2>6. TypeOK'
    BY <1>1, <2>5 DEF IInv, TypeOK
  <2>7. posts' = (posts \ {p}) \cup {[p EXCEPT !.step = "started", !.id = id, !.s = s]}
    BY <2>1 DEF s
  <2>8. /\ id # NoId /\ s # NoStream /\ login # "other" /\ HomeNext(s, id)
        /\ s \in Streams \cup {NoStream} /\ id \in Ids \cup {NoId}
    BY <1>4, <2>2, <2>4, <2>5, StreamNumbers DEF HomeNext
  <2> QED BY <1>1, <2>5, <2>6, <2>7, <2>8, AnsweredFrame
<1> QED BY <1>3, <1>4

LEMMA BootReadStep ==
  ASSUME IInv, BootRead
  PROVE  IInv'
<1> DEFINE read == IF login = "owner" THEN "yes" ELSE "error"
           hist == IF login = "owner" THEN Stored(boot.view) ELSE {}
<1>1. /\ boot.on /\ boot.view # NoId
      /\ boot' = [boot EXCEPT !.read = read, !.hist = hist]
      /\ UNCHANGED <<server, S, feed, screen, control, lists, opens, posts, probes, moves>>
  BY DEF BootRead
<1>2. Onward /\ TurnInv' /\ UNCHANGED <<turn, login>>
  BY <1>1, ServerKept DEF IInv, server
<1>3. /\ hist \subseteq Streams /\ read \in {"yes", "error"}
      /\ \A s \in hist : Home(s, boot.view)
  BY DEF Stored, Home
<1> HIDE DEF hist, read
<1>4. /\ boot' \in [on : BOOLEAN, view : Ids \cup {NoId}, hist : SUBSET Streams,
                    read : {"no", "yes", "error"}]
      /\ boot'.on = boot.on /\ boot'.view = boot.view /\ boot'.hist = hist
  BY <1>1, <1>3 DEF IInv, TypeOK
<1>5. TypeOK'
  BY <1>1, <1>2, <1>4 DEF IInv, TypeOK
<1>6. BootInv'
  BY <1>1, <1>2, <1>3, <1>4 DEF IInv, BootInv, Home
<1>7. S.gen \in Nat
  BY DEF IInv, TypeOK, View
<1>8. ListInv' /\ OpenInv' /\ DropInv' /\ PostInv'
  BY <1>1, <1>2, <1>7, ListFrame, OpenFrame, PostFrame DEF IInv
<1> QED BY <1>1, <1>2, <1>5, <1>6, <1>8, StillFrame

-----------------------------------------------------------------------------
(* Steps to a new view. *)

\* A step to a view that has no focus stream and shows nothing yet.
LEMMA NewViewFrame ==
  ASSUME IInv, UNCHANGED server, TypeOK', ControlInv', OpenInv', DropInv', BootInv', ScopeInv',
         posts' \subseteq posts, lists' \subseteq lists, S'.scope = S.scope \/ lists' = {},
         S.gen <= S'.gen, S'.focus = NoStream, screen' = {},
         S'.fresh => S'.sid = NoId /\ S'.own = NoStream,
         \A i \in Ids : \/ S'.streaming[i] = S.streaming[i]
                        \/ S'.streaming[i] = NoStream
                        \/ S'.streaming[i] \in Streams /\ Home(S'.streaming[i], i)
  PROVE  IInv'
<1>1. Onward /\ TurnInv' /\ S.gen \in Nat /\ S'.gen \in Nat
  BY ServerKept DEF IInv, TypeOK, View
<1>2. ListInv' /\ PostInv'
  BY <1>1, ListFrame, PostFrame DEF IInv
<1>3. ASSUME NEW i \in Ids, S'.streaming[i] # NoStream PROVE HomeNext(S'.streaming[i], i)
  <2>1. S.streaming[i] # NoStream => S.streaming[i] \in Streams /\ Home(S.streaming[i], i)
    BY DEF IInv, TypeOK, View, ViewInv
  <2> QED BY <1>1, <1>3, <2>1, HomeKept
<1>4. ViewInv' /\ FocusFed'
  BY <1>3 DEF ViewInv, FocusFed, Home, HomeNext
<1> QED BY <1>1, <1>2, <1>4 DEF IInv

LEMMA NewSessionStep ==
  ASSUME IInv, NewSession
  PROVE  IInv'
<1> DEFINE g == S.gen + 1
           w == [S EXCEPT !.fresh = TRUE, !.gen = g, !.switching = NoId,
                          !.own = NoStream, !.sid = NoId, !.focus = NoStream]
<1>1. /\ ~boot.on /\ moves' \in 0..MaxMoves
      /\ S' = setBusy(w, FALSE) /\ screen' = {} /\ control' = watchSession(control, NoId)
      /\ UNCHANGED <<server, feed, lists, opens, posts, probes, boot>>
  BY SpendFacts DEF NewSession, IInv
<1>2. S \in View /\ S.gen \in Nat /\ g \in Nat /\ S.gen < g
  BY DEF IInv, TypeOK, View
<1> HIDE DEF g
<1>3. /\ w \in View /\ w.sid = NoId /\ w.focus = NoStream /\ w.gen = g /\ w.own = NoStream
      /\ w.scope = S.scope /\ w.streaming = S.streaming
  BY <1>2 DEF View
<1> HIDE DEF w
<1>4. /\ S' \in View /\ S'.sid = NoId /\ S'.focus = NoStream /\ S'.gen = g /\ S'.own = NoStream
      /\ S'.scope = S.scope /\ S'.streaming = S.streaming
  BY <1>1, <1>3, setBusyFacts
<1>5. Onward
  BY <1>1, ServerKept
<1>6. control' \in Channel /\ control'.id = NoId /\ ControlInv'
  BY <1>1, <1>5, WatchFrame DEF IInv
<1>7. OpenInv' /\ DropInv'
  BY <1>1, <1>2, <1>4, <1>5, OpenFrame DEF IInv
<1>8. BootInv'
  BY <1>1, <1>5, BootFrame DEF IInv
<1>9. ScopeInv'
  BY <1>1, <1>4, <1>6 DEF IInv, ScopeInv, server
<1>10. TypeOK'
  BY <1>1, <1>4, <1>6 DEF IInv, TypeOK, Channel, server
<1>11. S.gen <= S'.gen
  BY ONLY <1>2, <1>4
<1>12. /\ posts' \subseteq posts /\ lists' \subseteq lists
       /\ \A i \in Ids : S'.streaming[i] = S.streaming[i]
  BY <1>1, <1>4
<1> QED BY <1>1, <1>4, <1>6, <1>7, <1>8, <1>9, <1>10, <1>11, <1>12, NewViewFrame

\* The opening of a new view joins those of older ones.
LEMMA OpenAdded ==
  ASSUME IInv, UNCHANGED server, posts' \subseteq posts,
         NEW v \in View, v.gen = S.gen, NEW id \in Ids, NEW pre \in BOOLEAN,
         NEW hist \in SUBSET Streams, NEW read \in {"no", "yes", "error"},
         pre \/ read = "no",
         v.streaming[id] # NoStream => Home(v.streaming[id], id),
         \A s \in hist : Home(s, id),
         S' = Opened(v, id), opens' = opens \cup {Opening(v, id, pre, hist, read)}
  PROVE  OpenInv' /\ DropInv'
<1> DEFINE o == Opening(v, id, pre, hist, read)
<1>1. /\ o \in [id : Ids, gen : Nat, live : Streams \cup {NoStream},
                step : {"status", "history"}, dropped : BOOLEAN, pre : BOOLEAN,
                hist : SUBSET Streams, read : {"no", "yes", "error"}]
      /\ o.id = id /\ o.gen = S.gen + 1 /\ o.live = v.streaming[id]
      /\ o.step = "status" => o.live # NoStream
      /\ o.dropped = FALSE /\ o.pre = pre /\ o.hist = hist /\ o.read = read
  <2> DEFINE g == v.gen + 1
             live == v.streaming[id]
  <2>1. g \in Nat /\ live \in Streams \cup {NoStream} /\ g = S.gen + 1
    BY DEF View
  <2>2. o = [id |-> id, gen |-> g, live |-> live,
             step |-> IF live # NoStream THEN "status" ELSE "history",
             dropped |-> FALSE, pre |-> pre, hist |-> hist, read |-> read]
    BY DEF Opening
  <2> HIDE DEF g, live, o
  <2>3. /\ o \in [id : Ids, gen : Nat, live : Streams \cup {NoStream},
                  step : {"status", "history"}, dropped : BOOLEAN, pre : BOOLEAN,
                  hist : SUBSET Streams, read : {"no", "yes", "error"}]
        /\ o.id = id /\ o.gen = g /\ o.live = live
        /\ o.step = "status" => o.live # NoStream
        /\ o.dropped = FALSE /\ o.pre = pre /\ o.hist = hist /\ o.read = read
    BY <2>1, <2>2
  <2> QED BY <2>1, <2>3 DEF live
<1> HIDE DEF o
<1>2. opens' = opens \cup {o} /\ turn' = turn /\ login' = login
  BY DEF o, server
<1>3. /\ S'.sid = id /\ S'.switching = id /\ S'.focus = NoStream /\ S'.gen = S.gen + 1
      /\ S.gen \in Nat
  <2>1. S.gen \in Nat
    BY DEF IInv, TypeOK, View
  <2>2. /\ Opened(v, id).sid = id /\ Opened(v, id).switching = id
        /\ Opened(v, id).focus = NoStream /\ Opened(v, id).gen = v.gen + 1
    BY ONLY v \in View, id \in Ids, FeedsAssumption, OpenedFacts
  <2> QED BY ONLY <2>1, <2>2, S' = Opened(v, id), v.gen = S.gen
<1>4. \A p \in posts' : p.gen <= S.gen /\ p.gen \in Nat
  BY DEF IInv, PostInv
<1>5. \A q \in opens : q.gen \in Nat /\ q.gen <= S.gen
  BY DEF IInv, OpenInv
<1>6. OpenInv'
  BY <1>1, <1>2, <1>3, <1>4, <1>5 DEF IInv, OpenInv, Home
<1>7. DropInv'
  BY <1>1, <1>2 DEF IInv, DropInv, Over
<1> QED BY <1>6, <1>7

LEMMA OpenSessionStep ==
  ASSUME IInv, NEW id \in Ids, OpenSession(id)
  PROVE  IInv'
<1>1. /\ ~boot.on /\ S.scope = "owner" /\ moves' \in 0..MaxMoves
      /\ S' = Opened(S, id) /\ screen' = {} /\ control' = watchSession(control, id)
      /\ opens' = opens \cup {Opening(S, id, FALSE, {}, "no")}
      /\ UNCHANGED <<server, feed, lists, posts, probes, boot>>
  BY SpendFacts DEF OpenSession, IInv
<1>2. S \in View /\ S.gen \in Nat
  BY DEF IInv, TypeOK, View
<1>3. /\ S' \in View /\ S'.sid = id /\ S'.focus = NoStream /\ S'.gen = S.gen + 1
      /\ S'.fresh = FALSE /\ S'.scope = S.scope /\ S'.streaming = S.streaming
  BY <1>1, <1>2, OpenedFacts
<1>4. Onward
  BY <1>1, ServerKept
<1>5. control' \in Channel /\ control'.id = id /\ ControlInv'
  BY <1>1, <1>4, WatchFrame DEF IInv
<1>6. S.streaming[id] # NoStream => Home(S.streaming[id], id)
  BY DEF IInv, ViewInv
<1>7. OpenInv' /\ DropInv'
  <2>1. {} \in SUBSET Streams /\ "no" \in {"no", "yes", "error"} /\ FALSE \in BOOLEAN
    OBVIOUS
  <2>2. \A s \in {} : Home(s, id)
    OBVIOUS
  <2>3. posts' \subseteq posts /\ UNCHANGED server
    BY <1>1
  <2> QED BY <1>1, <1>2, <1>6, <2>1, <2>2, <2>3, OpenAdded
<1>8. BootInv'
  BY <1>1, <1>4, BootFrame DEF IInv
<1>9. ScopeInv'
  BY <1>1, <1>3 DEF ScopeInv
<1>10. TypeOK'
  BY <1>1, <1>3, <1>5 DEF IInv, TypeOK, Channel, server
<1> QED BY <1>1, <1>2, <1>3, <1>5, <1>7, <1>8, <1>9, <1>10, NewViewFrame

LEMMA ReloadStep ==
  ASSUME IInv, Reload
  PROVE  IInv'
<1>1. /\ S' = Blank(S.scope) /\ feed' = [s \in Streams |-> Closed]
      /\ screen' = {} /\ control' = NoControl /\ moves' \in 0..MaxMoves
      /\ lists' = {} /\ opens' = {} /\ posts' = {} /\ probes' = {}
      /\ boot' = [on |-> TRUE, view |-> S.sid, hist |-> {}, read |-> "no"]
      /\ UNCHANGED server
  BY SpendFacts DEF Reload, IInv
<1>2. S.scope \in Scopes /\ S.sid \in Ids \cup {NoId}
  BY DEF IInv, TypeOK, View
<1>3. /\ S' \in View /\ S'.sid = NoId /\ S'.focus = NoStream /\ S'.gen = 0 /\ ~S'.fresh
      /\ S'.scope = S.scope /\ S'.streaming = NoStreaming
      /\ \A i \in Ids : S'.streaming[i] = NoStream
  <2>1. \A i \in Ids : NoStreaming[i] = NoStream
    BY DEF NoStreaming
  <2> QED BY <1>1, <1>2, <2>1, BlankFacts
<1>4. NoControl \in Channel
  <2>1. <<>> \in Seq(Event)
    OBVIOUS
  <2> QED BY <2>1, ChannelFacts DEF IInv
<1>5. TypeOK'
  BY <1>1, <1>2, <1>3, <1>4 DEF IInv, TypeOK, Channel, Closed, server
<1>6. Onward /\ TurnInv'
  BY <1>1, ServerKept DEF IInv
<1>7. ViewInv' /\ FocusFed'
  BY <1>1, <1>3 DEF ViewInv, FocusFed
<1>8. ControlInv'
  BY <1>1, NoControlFacts DEF ControlInv
<1>9. PostInv'
  BY <1>1, FS_EmptySet DEF PostInv
<1>10. OpenInv' /\ DropInv' /\ ListInv'
  BY <1>1 DEF OpenInv, DropInv, ListInv
<1>11. BootInv'
  BY <1>1, <1>3 DEF BootInv
<1>12. ScopeInv'
  BY <1>1, <1>3, NoControlFacts DEF IInv, ScopeInv, server
<1> QED BY <1>5, <1>6, <1>7, <1>8, <1>9, <1>10, <1>11, <1>12 DEF IInv

-----------------------------------------------------------------------------
(* The answers an opening waits for. *)

OpenRecord == [id : Ids, gen : Nat, live : Streams \cup {NoStream},
               step : {"status", "history"}, dropped : BOOLEAN, pre : BOOLEAN,
               hist : SUBSET Streams, read : {"no", "yes", "error"}]

\* One opening of the present view learns something.
LEMMA OpenLearns ==
  ASSUME IInv, UNCHANGED <<server, posts>>, NEW o \in opens,
         S'.gen = S.gen, S'.sid = S.sid, S'.switching = S.switching, S'.focus = S.focus,
         NEW q \in OpenRecord, q.id = o.id, q.gen = o.gen, q.live = o.live, q.pre = o.pre,
         \A s \in q.hist : Home(s, o.id),
         q.step = "status" => o.step = "status",
         q.dropped => o.dropped \/ o.step = "status",
         ~q.pre => /\ q.step = "status" => q.read = "no"
                   /\ q.dropped =>
                        \/ login = "other" /\ q.read # "yes"
                        \/ /\ Over(q.live)
                           /\ q.read = "yes" /\ turn[q.live].st = "ended" => q.live \in q.hist,
         \A r \in opens' : r = q \/ (r \in opens /\ r # o)
  PROVE  OpenInv' /\ DropInv'
<1>1. turn' = turn /\ login' = login /\ posts' = posts
  BY DEF server
<1>2. OpenInv'
  <2>1. ASSUME NEW r \in opens'
        PROVE  /\ r \in OpenRecord
               /\ r.gen <= S.gen
               /\ r.gen = S.gen => /\ S.sid = r.id /\ S.switching = r.id /\ S.focus = NoStream
                                   /\ \A p \in posts : p.gen # S.gen
               /\ r.live # NoStream => Home(r.live, r.id)
               /\ \A s \in r.hist : Home(s, r.id)
               /\ r.step = "status" \/ r.dropped => r.live # NoStream
    <3>1. CASE r = q
      BY <3>1 DEF IInv, OpenInv
    <3>2. CASE r \in opens
      BY <3>2 DEF IInv, OpenInv, OpenRecord
    <3> QED BY <3>1, <3>2
  <2>2. \A r, t \in opens' : r.gen = t.gen => r = t
    BY DEF IInv, OpenInv
  <2> QED BY <1>1, <2>1, <2>2 DEF OpenInv, Home, OpenRecord
<1>3. DropInv'
  BY <1>1 DEF IInv, DropInv, Over
<1> QED BY <1>2, <1>3

LEMMA OpenStatusStep ==
  ASSUME IInv, NEW o \in opens, OpenStatus(o)
  PROVE  IInv'
<1> DEFINE running == Running(o.live) /\ login = "owner"
           next == [o EXCEPT !.step = "history", !.dropped = ~running]
<1>1. /\ o.step = "status"
      /\ S' = IF running THEN S ELSE [S EXCEPT !.streaming[o.id] = NoStream]
      /\ opens' = (opens \ {o}) \cup (IF o.gen = S.gen THEN {next} ELSE {})
      /\ UNCHANGED <<server, feed, screen, control, lists, posts, probes, boot, moves>>
  BY DEF OpenStatus
<1>2. /\ o \in OpenRecord /\ o.live # NoStream /\ Home(o.live, o.id)
      /\ \A s \in o.hist : Home(s, o.id)
      /\ ~o.pre => o.read = "no"
  BY <1>1 DEF IInv, OpenInv, DropInv, OpenRecord
<1>3. ~boot.on /\ S \in View /\ login \in Scopes
  BY DEF IInv, BootInv, TypeOK
<1>4. ~running => login = "other" \/ Over(o.live)
  <2>1. turn[o.live].st \in {"unused", "running", "ended", "gone"}
    BY <1>2, TurnShape DEF IInv, Turn, OpenRecord
  <2> QED BY <1>2, <1>3, <2>1 DEF Running, Over, Home, Scopes
<1>5. running \in BOOLEAN
  BY DEF Running
<1> HIDE DEF running
<1>6. /\ next \in OpenRecord /\ next.id = o.id /\ next.gen = o.gen /\ next.live = o.live
      /\ next.pre = o.pre /\ next.hist = o.hist /\ next.read = o.read
      /\ next.step = "history" /\ (next.dropped <=> ~running)
  BY <1>2, <1>5 DEF OpenRecord
<1>7. o.id \in Ids
  BY <1>2 DEF OpenRecord
<1>8. /\ S' \in View /\ S'.sid = S.sid /\ S'.focus = S.focus /\ S'.gen = S.gen /\ S'.fresh = S.fresh
      /\ S'.own = S.own /\ S'.switching = S.switching /\ S'.scope = S.scope
      /\ \A i \in Ids : S'.streaming[i] = S.streaming[i] \/ S'.streaming[i] = NoStream
  <2>1. CASE running
    BY <1>1, <1>3, <2>1
  <2>2. CASE ~running
    <3>1. S' = [S EXCEPT !.streaming[o.id] = NoStream]
      BY <1>1, <2>2
    <3> DEFINE w == [S EXCEPT !.streaming[o.id] = NoStream]
    <3>2. /\ w \in View /\ w.sid = S.sid /\ w.focus = S.focus /\ w.gen = S.gen
          /\ w.fresh = S.fresh /\ w.own = S.own /\ w.switching = S.switching
          /\ w.scope = S.scope
          /\ \A i \in Ids : w.streaming[i] = S.streaming[i] \/ w.streaming[i] = NoStream
      BY <1>3, <1>7 DEF View
    <3> QED BY <3>1, <3>2
  <2> QED BY <2>1, <2>2
<1> HIDE DEF next
<1>9. \A r \in opens' : r = next \/ (r \in opens /\ r # o)
  BY <1>1
<1>10. OpenInv' /\ DropInv'
  BY <1>1, <1>2, <1>4, <1>6, <1>8, <1>9, OpenLearns
<1>11. control' \in Channel /\ ControlInv'
  BY <1>1, ServerKept, ControlFrame DEF IInv, TypeOK, Channel
<1>12. S.scope = "other" => ScopeInv'
  <2> SUFFICES ASSUME S.scope = "other" PROVE ScopeInv'
    OBVIOUS
  <2>1. S.streaming = NoStreaming /\ \A i \in Ids : NoStreaming[i] = NoStream
    BY DEF IInv, ScopeInv, NoStreaming
  <2>2. S'.streaming = NoStreaming
    BY <1>3, <1>8, <2>1 DEF View, NoStreaming
  <2> QED BY <1>1, <1>8, <2>2 DEF IInv, ScopeInv, server
<1>13. /\ moves' \in 0..MaxMoves /\ screen' \subseteq Streams /\ probes' \subseteq Streams
       /\ S.sid = NoId => screen' = {}
       /\ feed' \in Feeds /\ \A s \in Streams : feed[s] # Closed => feed'[s] # Closed
  BY <1>1 DEF IInv, TypeOK, ViewInv, Feeds
<1> QED BY <1>1, <1>3, <1>8, <1>10, <1>11, <1>12, <1>13, StayFrame

LEMMA OpenReadStep ==
  ASSUME IInv, NEW o \in opens, OpenRead(o)
  PROVE  IInv'
<1> DEFINE read == IF login = "owner" THEN "yes" ELSE "error"
           hist == IF login = "owner" THEN Stored(o.id) ELSE {}
           next == [o EXCEPT !.read = read, !.hist = hist]
<1>1. /\ o.step = "history" \/ o.pre
      /\ opens' = (opens \ {o}) \cup {next}
      /\ UNCHANGED <<server, S, feed, screen, control, lists, posts, probes, boot, moves>>
  BY DEF OpenRead
<1>2. /\ o \in OpenRecord /\ (o.dropped => o.live \in Streams /\ Home(o.live, o.id))
      /\ ~o.pre => (o.dropped => login = "other" \/ Over(o.live))
  BY <1>1 DEF IInv, OpenInv, DropInv, OpenRecord
<1>3. /\ hist \subseteq Streams /\ read \in {"yes", "error"}
      /\ \A s \in hist : Home(s, o.id)
      /\ read = "yes" => login = "owner"
      /\ \A s \in Streams : read = "yes" /\ turn[s].st = "ended" /\ Home(s, o.id) => s \in hist
  BY DEF Stored, Home
<1>4. login \in Scopes /\ ~boot.on /\ S.gen \in Nat
  BY DEF IInv, TypeOK, BootInv, View
<1> HIDE DEF read, hist
<1>5. /\ next \in OpenRecord /\ next.id = o.id /\ next.gen = o.gen /\ next.live = o.live
      /\ next.pre = o.pre /\ next.hist = hist /\ next.read = read
      /\ next.step = o.step /\ next.dropped = o.dropped
  BY <1>2, <1>3 DEF OpenRecord
<1> HIDE DEF next
<1>6. \A r \in opens' : r = next \/ (r \in opens /\ r # o)
  BY <1>1
<1>7. OpenInv' /\ DropInv'
  <2>1. ASSUME ~next.pre, next.dropped
        PROVE  \/ login = "other" /\ next.read # "yes"
               \/ /\ Over(next.live)
                  /\ next.read = "yes" /\ turn[next.live].st = "ended" => next.live \in next.hist
    BY <1>2, <1>3, <1>5, <2>1
  <2>2. ~next.pre => next.step # "status"
    BY <1>1, <1>2, <1>5 DEF OpenRecord
  <2> QED BY <1>1, <1>3, <1>5, <1>6, <2>1, <2>2, OpenLearns
<1>8. Onward /\ TurnInv'
  BY <1>1, ServerKept DEF IInv
<1>9. ListInv' /\ PostInv' /\ BootInv'
  BY <1>1, <1>4, <1>8, ListFrame, PostFrame, BootFrame DEF IInv
<1>10. TypeOK'
  BY <1>1 DEF IInv, TypeOK, server
<1> QED BY <1>1, <1>7, <1>8, <1>9, <1>10, StillFrame

LEMMA OpenPaintStep ==
  ASSUME IInv, NEW o \in opens, OpenPaint(o)
  PROVE  IInv'
<1> DEFINE live == CASE S.streaming[o.id] # NoStream -> S.streaming[o.id]
                     [] S.streaming[o.id] = NoStream /\ o.dropped -> NoStream
                     [] OTHER -> o.live
           v == [S EXCEPT !.switching = NoId]
<1>1. /\ opens' = opens \ {o}
      /\ \/ o.gen # S.gen /\ UNCHANGED <<S, feed, screen>>
         \/ o.gen = S.gen /\ S' = v /\ UNCHANGED <<feed, screen>>
         \/ /\ o.gen = S.gen /\ screen' = screen \cup o.hist
            /\ live = NoStream => S' = setBusy(v, FALSE) /\ feed' = feed
            /\ live # NoStream => S' = attach(v, live) /\ feed' = attachFeed(feed, live, TRUE)
      /\ UNCHANGED <<server, control, lists, posts, probes, boot, moves>>
  BY DEF OpenPaint
<1>2. /\ o \in OpenRecord /\ (o.live # NoStream => Home(o.live, o.id))
      /\ \A s \in o.hist : Home(s, o.id)
      /\ o.gen = S.gen => S.sid = o.id
      /\ \A q \in opens : q.gen = o.gen => q = o
  BY DEF IInv, OpenInv, OpenRecord
<1>3. /\ ~boot.on /\ S \in View /\ S.gen \in Nat /\ o.id \in Ids /\ o.live \in Streams \cup {NoStream}
      /\ feed \in Feeds /\ o.hist \subseteq Streams
  BY <1>2 DEF IInv, BootInv, TypeOK, View, OpenRecord, Feeds
<1>4. /\ live \in Streams \cup {NoStream}
      /\ live # NoStream => Home(live, o.id)
  <2>1. S.streaming[o.id] # NoStream =>
          S.streaming[o.id] \in Streams /\ Home(S.streaming[o.id], o.id)
    BY <1>3 DEF IInv, ViewInv, View
  <2>2. live = S.streaming[o.id] \/ live = NoStream \/ live = o.live
    OBVIOUS
  <2> HIDE DEF live
  <2> QED BY <1>2, <1>3, <2>1, <2>2
<1>5. /\ v \in View /\ v.sid = S.sid /\ v.focus = S.focus /\ v.gen = S.gen /\ v.fresh = S.fresh
      /\ v.own = S.own /\ v.scope = S.scope /\ v.streaming = S.streaming
  BY <1>3 DEF View
<1> HIDE DEF live, v
<1> DEFINE b == setBusy(v, FALSE)
           a == attach(v, live)
           f == attachFeed(feed, live, TRUE)
<1>6. /\ b \in View /\ b.sid = S.sid /\ b.gen = S.gen /\ b.fresh = S.fresh /\ b.focus = S.focus
      /\ b.own = S.own /\ b.scope = S.scope /\ b.streaming = S.streaming
  BY <1>5, FALSE \in BOOLEAN, setBusyFacts
<1>7. live # NoStream =>
      /\ a \in View /\ a.sid = S.sid /\ a.gen = S.gen /\ a.fresh = S.fresh /\ a.focus = live
      /\ a.own = S.own /\ a.scope = S.scope /\ a.streaming = S.streaming
      /\ f \in Feeds /\ f[live] # Closed
  BY <1>3, <1>4, <1>5, TRUE \in BOOLEAN, attachFacts, FeedFacts
<1>8. \/ S' \in {S, v, b} /\ feed' = feed
      \/ o.gen = S.gen /\ live # NoStream /\ S' = a /\ feed' = f
  BY <1>1
<1> HIDE DEF a, b, f
<1>9. /\ S' \in View /\ S'.sid = S.sid /\ S'.gen = S.gen /\ S'.fresh = S.fresh
      /\ S'.own = S.own /\ S'.scope = S.scope /\ S'.streaming = S.streaming
      /\ feed' \in Feeds
  BY <1>3, <1>5, <1>6, <1>7, <1>8
<1>10. \/ S'.focus = S.focus /\ feed' = feed
       \/ /\ S'.focus \in Streams /\ feed'[S'.focus] # Closed /\ S.sid # NoId
          /\ Home(S'.focus, S.sid)
  BY <1>2, <1>3, <1>4, <1>5, <1>6, <1>7, <1>8
<1>11. screen' \subseteq Streams
  BY <1>1, <1>3 DEF IInv, TypeOK
<1>12. \A q \in opens' : q.gen # S.gen \/ (S' = S /\ q \in opens)
  BY <1>1, <1>2
<1>13. OpenInv' /\ DropInv'
  <2>1. Onward
    BY <1>1, ServerKept
  <2> QED BY <1>1, <1>3, <1>9, <1>12, <2>1, OpenFrame DEF IInv
<1>14. control' \in Channel /\ ControlInv'
  BY <1>1, ServerKept, ControlFrame DEF IInv, TypeOK, Channel
<1>15. S.scope = "other" => ScopeInv'
  <2> SUFFICES ASSUME S.scope = "other" PROVE ScopeInv'
    OBVIOUS
  <2>1. S.sid = NoId
    BY DEF IInv, ScopeInv
  <2>2. UNCHANGED <<S, feed, screen>>
    BY <1>1, <1>2, <1>3, <2>1
  <2> QED BY <1>1, <2>2 DEF IInv, ScopeInv, server
<1>16. /\ moves' \in 0..MaxMoves /\ probes' \subseteq Streams
       /\ S.sid = NoId => screen' = {}
  BY <1>1, <1>2, <1>3 DEF IInv, TypeOK, ViewInv
<1>17. \A i \in Ids : S'.streaming[i] = S.streaming[i]
  BY <1>9
<1> QED BY <1>1, <1>3, <1>9, <1>10, <1>11, <1>13, <1>14, <1>15, <1>16, <1>17, StayFrame

-----------------------------------------------------------------------------
(* The answer of a send. *)

LEMMA SendAnswerStep ==
  ASSUME IInv, NEW p \in posts, SendAnswer(p)
  PROVE  IInv'
<1> DEFINE started == p.step = "started" /\ p.scope = S.scope
           recorded == [S EXCEPT !.streaming[p.id] = p.s]
           named == [recorded EXCEPT !.fresh = FALSE, !.own = p.s, !.sid = p.id]
<1>1. /\ posts' = posts \ {p}
      /\ \/ started /\ p.gen = S.gen /\ S' = attach(named, p.s)
            /\ feed' = attachFeed(feed, p.s, FALSE) /\ control' = watchSession(control, p.id)
         \/ started /\ p.gen # S.gen /\ S' = recorded /\ UNCHANGED <<feed, control>>
         \/ UNCHANGED <<S, feed, control>>
      /\ UNCHANGED <<server, screen, lists, opens, probes, boot, moves>>
  BY DEF SendAnswer
<1>2. Onward /\ TurnInv' /\ S.gen \in Nat /\ ~boot.on /\ S \in View /\ feed \in Feeds
  BY <1>1, ServerKept DEF IInv, TypeOK, View, BootInv, Feeds
<1>3. started => /\ p.id \in Ids /\ p.s \in Streams /\ Home(p.s, p.id) /\ S.scope # "other"
  BY DEF IInv, PostInv
<1>4. started => /\ recorded \in View /\ recorded.sid = S.sid /\ recorded.focus = S.focus
                 /\ recorded.gen = S.gen /\ recorded.fresh = S.fresh
                 /\ recorded.own = S.own /\ recorded.switching = S.switching
                 /\ recorded.scope = S.scope
                 /\ \A i \in Ids : recorded.streaming[i] = IF i = p.id THEN p.s ELSE S.streaming[i]
  BY <1>2, <1>3, MarkFacts
<1> HIDE DEF recorded
<1>5. CASE UNCHANGED <<S, feed, control>>
  <2>1. ListInv' /\ OpenInv' /\ DropInv' /\ PostInv' /\ BootInv'
    BY <1>1, <1>2, <1>5, ListFrame, OpenFrame, PostFrame, BootFrame DEF IInv
  <2>2. TypeOK'
    BY <1>1, <1>5 DEF IInv, TypeOK, server
  <2> QED BY <1>1, <1>2, <1>5, <2>1, <2>2, StillFrame
<1>6. CASE started /\ p.gen # S.gen /\ S' = recorded /\ UNCHANGED <<feed, control>>
  <2> HIDE DEF started
  <2>1. OpenInv' /\ DropInv'
    BY <1>1, <1>2, <1>4, <1>6, OpenFrame DEF IInv
  <2>2. control' \in Channel /\ ControlInv'
    BY <1>2, <1>6, ControlFrame DEF IInv, TypeOK, Channel
  <2>3. \A i \in Ids : \/ S'.streaming[i] = S.streaming[i]
                       \/ S'.streaming[i] \in Streams /\ Home(S'.streaming[i], i)
    BY <1>3, <1>4, <1>6
  <2>4. /\ moves' \in 0..MaxMoves /\ screen' \subseteq Streams /\ probes' \subseteq Streams
        /\ S.sid = NoId => screen' = {}
        /\ feed' \in Feeds /\ posts' \subseteq posts
    BY <1>1, <1>2, <1>6 DEF IInv, TypeOK, ViewInv
  <2>5. S.scope # "other"
    BY <1>3, <1>6
  <2>6. /\ S' \in View /\ S'.gen = S.gen /\ S'.fresh = S.fresh /\ S'.own = S.own
        /\ S'.sid = S.sid /\ S'.scope = S.scope /\ S'.focus = S.focus
    BY <1>4, <1>6
  <2> QED BY <1>1, <1>2, <1>6, <2>1, <2>2, <2>3, <2>4, <2>5, <2>6, StayFrame
<1>7. CASE started /\ p.gen = S.gen /\ S' = attach(named, p.s)
           /\ feed' = attachFeed(feed, p.s, FALSE) /\ control' = watchSession(control, p.id)
  <2>1. /\ named \in View /\ named.sid = p.id /\ named.gen = S.gen /\ named.fresh = FALSE
        /\ named.scope = S.scope /\ named.streaming = recorded.streaming
    BY <1>3, <1>4, <1>7 DEF View
  <2>2. p.s \in Streams /\ p.id \in Ids /\ Home(p.s, p.id) /\ S.scope # "other"
    BY <1>3, <1>7
  <2>3. \A i \in Ids : recorded.streaming[i] = IF i = p.id THEN p.s ELSE S.streaming[i]
    BY <1>4, <1>7
  <2> HIDE DEF named, started
  <2>4. /\ S' \in View /\ S'.sid = p.id /\ S'.focus = p.s /\ S'.gen = S.gen /\ S'.fresh = FALSE
        /\ S'.scope = S.scope /\ S'.streaming = recorded.streaming
    BY <1>7, <2>1, <2>2, attachFacts
  <2>5. feed' \in Feeds /\ feed'[p.s] # Closed
    BY <1>2, <1>7, <2>2, FALSE \in BOOLEAN, FeedFacts
  <2>6. control' \in Channel /\ control'.id = p.id /\ ControlInv'
    BY <1>2, <1>7, <2>2, WatchFrame DEF IInv
  <2>7. \A o \in opens : o.gen # S.gen
    BY <1>7 DEF IInv, OpenInv
  <2>8. OpenInv' /\ DropInv'
    BY <1>1, <1>2, <2>4, <2>7, OpenFrame DEF IInv
  <2>9. ListInv' /\ PostInv' /\ BootInv'
    BY <1>1, <1>2, <2>4, ListFrame, PostFrame, BootFrame DEF IInv
  <2>10. TypeOK'
    BY <1>1, <2>4, <2>5, <2>6 DEF IInv, TypeOK, Channel, Feeds, server
  <2>11. ASSUME NEW i \in Ids, S'.streaming[i] # NoStream PROVE HomeNext(S'.streaming[i], i)
    <3>1. S.streaming[i] # NoStream => S.streaming[i] \in Streams /\ Home(S.streaming[i], i)
      BY <1>2 DEF IInv, View, ViewInv
    <3>2. S'.streaming[i] \in Streams /\ Home(S'.streaming[i], i)
      BY <2>2, <2>3, <2>4, <2>11, <3>1
    <3> QED BY <1>2, <3>2, HomeKept
  <2>12. HomeNext(p.s, p.id)
    BY <1>2, <2>2, HomeKept
  <2>13. ViewInv'
    BY <2>2, <2>4, <2>11, <2>12 DEF ViewInv, Home, HomeNext
  <2>14. FocusFed'
    BY <2>4, <2>5 DEF FocusFed
  <2>15. ScopeInv'
    BY <2>2, <2>4 DEF ScopeInv
  <2> QED BY <1>2, <2>6, <2>8, <2>9, <2>10, <2>13, <2>14, <2>15 DEF IInv
<1> QED BY <1>1, <1>5, <1>6, <1>7

-----------------------------------------------------------------------------
(* A list is applied. *)

\* The subject has changed: everything is dropped.
LEMMA LoadOther ==
  ASSUME IInv, NEW l \in lists, S.scope # l.scope
  PROVE  /\ l.scope = "other" /\ login = "other"
         /\ loadSessions(l).view \in View
         /\ loadSessions(l).view.sid = NoId /\ loadSessions(l).view.focus = NoStream
         /\ loadSessions(l).view.gen = S.gen + 1 /\ loadSessions(l).view.own = NoStream
         /\ loadSessions(l).view.scope = "other"
         /\ loadSessions(l).view.streaming = NoStreaming
         /\ loadSessions(l).feed = [s \in Streams |-> Closed]
         /\ loadSessions(l).screen = {} /\ loadSessions(l).control = NoControl
<1> DEFINE f == [s \in Streams |-> Closed]
           g == S.gen + 1
           v0 == Evicted(S)
           m == Merged(l, v0, f)
           v1 == [v0 EXCEPT !.scope = l.scope, !.streaming = m]
           resumed == IF v1.sid = NoId THEN NoStream ELSE v1.streaming[v1.sid]
<1>1. /\ S \in View /\ S.gen \in Nat /\ S.scope \in Scopes /\ l.scope \in Scopes /\ g \in Nat
      /\ l.scope = "other" => login = "other" /\ l.streaming = NoStreaming
      /\ S.scope = "other" => l.scope = "other"
  BY DEF IInv, TypeOK, View, ListInv
<1>2. l.scope = "other" /\ login = "other" /\ l.streaming = NoStreaming
  BY <1>1 DEF Scopes
<1>3. \A i \in Ids : NoStreaming[i] = NoStream
  BY DEF NoStreaming
<1> HIDE DEF g
<1>4. /\ v0 \in View /\ v0.sid = NoId /\ v0.focus = NoStream /\ v0.gen = g /\ v0.own = NoStream
      /\ v0.streaming = NoStreaming
  <2> DEFINE b == Blank(S.scope)
  <2>1. /\ b \in View /\ b.sid = NoId /\ b.focus = NoStream /\ b.own = NoStream
        /\ b.streaming = NoStreaming
    BY <1>1, BlankFacts
  <2>2. v0 = [b EXCEPT !.gen = g, !.fresh = TRUE]
    BY DEF Evicted, g
  <2> HIDE DEF b, v0
  <2> QED BY <1>1, <2>1, <2>2 DEF View
<1> HIDE DEF v0
<1>5. m = NoStreaming
  <2>1. \A i \in Ids : v0.streaming[i] = NoStream /\ l.streaming[i] = NoStream
    BY <1>2, <1>3, <1>4
  <2> QED BY <2>1 DEF Merged, NoStreaming
<1>6. NoStreaming \in [Ids -> Streams \cup {NoStream}]
  BY DEF NoStreaming
<1> HIDE DEF m
<1>7. /\ v1 \in View /\ v1.sid = NoId /\ v1.focus = NoStream /\ v1.gen = g /\ v1.own = NoStream
      /\ v1.streaming = NoStreaming /\ v1.scope = "other"
  BY <1>1, <1>2, <1>4, <1>5, <1>6 DEF View
<1>8. resumed = NoStream
  BY <1>7
<1>9. /\ loadSessions(l).view = setBusy(v1, v1.busy) /\ loadSessions(l).feed = f
      /\ loadSessions(l).screen = {} /\ loadSessions(l).control = NoControl
  <2> HIDE DEF v1
  <2> QED BY <1>8 DEF loadSessions, v0, m, v1
<1>10. v1.busy \in BOOLEAN
  BY <1>7 DEF View
<1> HIDE DEF v1
<1> QED BY <1>2, <1>7, <1>9, <1>10, setBusyFacts DEF g

\* The subject is the same: marks are merged, and a settled view follows the
\* turn that runs in it.
LEMMA LoadSame ==
  ASSUME IInv, NEW l \in lists, S.scope = l.scope
  PROVE  /\ loadSessions(l).view \in View
         /\ loadSessions(l).view.sid = S.sid /\ loadSessions(l).view.gen = S.gen
         /\ loadSessions(l).view.fresh = S.fresh /\ loadSessions(l).view.own = S.own
         /\ loadSessions(l).view.switching = S.switching
         /\ loadSessions(l).view.scope = S.scope
         /\ \A i \in Ids : \/ loadSessions(l).view.streaming[i] = S.streaming[i]
                           \/ loadSessions(l).view.streaming[i] = l.streaming[i]
         /\ loadSessions(l).screen = screen /\ loadSessions(l).control = control
         /\ loadSessions(l).feed \in Feeds
         /\ \/ loadSessions(l).feed = feed /\ loadSessions(l).view.focus = S.focus
            \/ /\ S.sid \in Ids /\ S.switching = NoId
               /\ loadSessions(l).view.focus = loadSessions(l).view.streaming[S.sid]
               /\ loadSessions(l).view.focus \in Streams
               /\ loadSessions(l).feed[loadSessions(l).view.focus] # Closed
         /\ S.sid # NoId /\ S.switching = NoId
              /\ loadSessions(l).view.streaming[S.sid] # NoStream =>
              \/ loadSessions(l).feed[loadSessions(l).view.streaming[S.sid]] # Closed
              \/ loadSessions(l).view.streaming[S.sid] = loadSessions(l).view.focus
<1> DEFINE m == Merged(l, S, feed)
           v1 == [S EXCEPT !.scope = l.scope, !.streaming = m]
           resumed == IF v1.sid = NoId THEN NoStream ELSE v1.streaming[v1.sid]
           attaches == /\ v1.switching = NoId /\ resumed # NoStream
                       /\ resumed # v1.focus /\ feed[resumed] = Closed
           v2 == IF attaches THEN attach(v1, resumed) ELSE v1
           f == IF attaches THEN attachFeed(feed, resumed, FALSE) ELSE feed
<1>1. /\ S \in View /\ feed \in Feeds /\ l.scope \in Scopes
      /\ l.streaming \in [Ids -> Streams \cup {NoStream}]
  BY DEF IInv, TypeOK, ListInv, Feeds
<1>2. /\ m \in [Ids -> Streams \cup {NoStream}]
      /\ \A i \in Ids : m[i] = S.streaming[i] \/ m[i] = l.streaming[i]
  <2>1. S.streaming \in [Ids -> Streams \cup {NoStream}]
    BY <1>1 DEF View
  <2> QED BY <1>1, <2>1 DEF Merged
<1>3. /\ loadSessions(l).view = setBusy(v2, v2.busy) /\ loadSessions(l).feed = f
      /\ loadSessions(l).screen = screen /\ loadSessions(l).control = control
  BY DEF loadSessions
<1> HIDE DEF m
<1>4. /\ v1 \in View /\ v1.sid = S.sid /\ v1.focus = S.focus /\ v1.gen = S.gen
      /\ v1.fresh = S.fresh /\ v1.own = S.own /\ v1.switching = S.switching
      /\ v1.scope = S.scope /\ v1.streaming = m
  BY <1>1, <1>2 DEF View
<1>5. S.sid \in Ids \cup {NoId}
  BY <1>1 DEF View
<1> HIDE DEF v1
<1>6. /\ resumed \in Streams \cup {NoStream}
      /\ S.sid # NoId => resumed = m[S.sid]
      /\ S.sid = NoId => resumed = NoStream
  BY <1>2, <1>4, <1>5
<1>7. attaches = (S.switching = NoId /\ resumed # NoStream /\ resumed # S.focus
                  /\ feed[resumed] = Closed)
  BY <1>4
<1> HIDE DEF resumed
<1>8. /\ v2 \in View /\ v2.sid = S.sid /\ v2.gen = S.gen /\ v2.fresh = S.fresh
      /\ v2.own = S.own /\ v2.switching = S.switching /\ v2.scope = S.scope
      /\ v2.streaming = m /\ v2.busy \in BOOLEAN /\ f \in Feeds
      /\ IF attaches THEN v2.focus = resumed /\ f[resumed] # Closed
                     ELSE v2.focus = S.focus /\ f = feed
  <2> HIDE DEF attaches
  <2>1. CASE attaches
    <3>1. resumed \in Streams
      BY <1>6, <2>1 DEF attaches
    <3>2. v2 = attach(v1, resumed) /\ f = attachFeed(feed, resumed, FALSE)
      BY <2>1
    <3> HIDE DEF v2, f
    <3>3. /\ v2 \in View /\ v2.sid = S.sid /\ v2.gen = S.gen /\ v2.fresh = S.fresh
          /\ v2.own = S.own /\ v2.switching = S.switching /\ v2.scope = S.scope
          /\ v2.streaming = m /\ v2.focus = resumed
      BY <1>4, <3>1, <3>2, attachFacts
    <3>4. f \in Feeds /\ f[resumed] # Closed
      BY <1>1, <3>1, <3>2, FALSE \in BOOLEAN, FeedFacts
    <3>5. v2.busy \in BOOLEAN
      BY <3>3 DEF View
    <3> QED BY <2>1, <3>3, <3>4, <3>5
  <2>2. CASE ~attaches
    <3>1. v2 = v1 /\ f = feed
      BY <2>2
    <3> HIDE DEF v2, f
    <3>2. v1.busy \in BOOLEAN
      BY <1>4 DEF View
    <3> QED BY <1>1, <1>4, <2>2, <3>1, <3>2
  <2> QED BY <2>1, <2>2
<1> HIDE DEF v2, f, attaches
<1> DEFINE r == loadSessions(l)
<1>9. /\ r.view \in View /\ r.view.sid = S.sid /\ r.view.gen = S.gen /\ r.view.fresh = S.fresh
      /\ r.view.own = S.own /\ r.view.switching = S.switching /\ r.view.scope = S.scope
      /\ r.view.streaming = m /\ r.view.focus = v2.focus /\ r.feed = f
  BY <1>3, <1>8, setBusyFacts
<1> HIDE DEF r
<1>10. \A i \in Ids : r.view.streaming[i] = S.streaming[i] \/ r.view.streaming[i] = l.streaming[i]
  BY <1>2, <1>9
<1>11. \/ r.feed = feed /\ r.view.focus = S.focus
       \/ /\ S.sid \in Ids /\ S.switching = NoId
          /\ r.view.focus = r.view.streaming[S.sid]
          /\ r.view.focus \in Streams /\ r.feed[r.view.focus] # Closed
  BY <1>5, <1>6, <1>7, <1>8, <1>9
<1>12. S.sid # NoId /\ S.switching = NoId /\ r.view.streaming[S.sid] # NoStream =>
         \/ r.feed[r.view.streaming[S.sid]] # Closed
         \/ r.view.streaming[S.sid] = r.view.focus
  BY <1>6, <1>7, <1>8, <1>9
<1> QED BY <1>3, <1>8, <1>9, <1>10, <1>11, <1>12 DEF r

\* What a list marks is right, or is a mark the page held.
LEMMA ListMarks ==
  ASSUME IInv, NEW l \in lists, NEW i \in Ids
  PROVE  /\ l.streaming[i] = NoStream \/ (l.streaming[i] \in Streams /\ Home(l.streaming[i], i))
         /\ S.streaming[i] = NoStream \/ (S.streaming[i] \in Streams /\ Home(S.streaming[i], i))
BY DEF IInv, ListInv, TypeOK, View, ViewInv

LEMMA ListApplyStep ==
  ASSUME IInv, NEW l \in lists, ListApply(l)
  PROVE  IInv'
<1> DEFINE r == loadSessions(l)
<1>1. /\ ~boot.on /\ S' = r.view /\ feed' = r.feed /\ screen' = r.screen /\ control' = r.control
      /\ lists' = lists \ {l}
      /\ UNCHANGED <<server, opens, posts, probes, boot, moves>>
  BY DEF ListApply
<1>2. Onward /\ S.gen \in Nat
  BY <1>1, ServerKept DEF IInv, TypeOK, View
<1>3. CASE S.scope # l.scope
  <2>1. /\ login = "other" /\ S' \in View /\ S'.sid = NoId /\ S'.focus = NoStream
        /\ S'.gen = S.gen + 1 /\ S'.own = NoStream /\ S'.scope = "other"
        /\ S'.streaming = NoStreaming /\ feed' = [s \in Streams |-> Closed]
        /\ screen' = {} /\ control' = NoControl
    BY <1>1, <1>3, LoadOther
  <2>2. lists' = {}
    BY <1>1 DEF IInv, ListInv
  <2>3. NoControl \in Channel
    <3>1. <<>> \in Seq(Event)
      OBVIOUS
    <3> QED BY <3>1, ChannelFacts DEF IInv
  <2>4. S'.gen \in Nat /\ S.gen < S'.gen /\ S.gen <= S'.gen
    BY ONLY <1>2, <2>1
  <2>5. OpenInv' /\ DropInv'
    BY <1>1, <1>2, <2>4, OpenFrame DEF IInv
  <2>6. BootInv'
    BY <1>1, <1>2, BootFrame DEF IInv
  <2>7. ControlInv'
    BY <2>1, NoControlFacts DEF ControlInv
  <2>8. ScopeInv'
    BY <1>1, <2>1, NoControlFacts DEF ScopeInv, server
  <2>9. TypeOK'
    BY <1>1, <2>1, <2>3 DEF IInv, TypeOK, Channel, Closed, server
  <2>10. \A i \in Ids : S'.streaming[i] = NoStream
    BY <2>1 DEF NoStreaming
  <2>11. /\ posts' \subseteq posts /\ UNCHANGED server /\ lists' \subseteq lists
         /\ S'.fresh => S'.sid = NoId /\ S'.own = NoStream
    BY <1>1, <2>1
  <2> QED BY <2>1, <2>2, <2>4, <2>5, <2>6, <2>7, <2>8, <2>9, <2>10, <2>11, NewViewFrame
<1>4. CASE S.scope = l.scope
  <2>1. /\ S' \in View /\ S'.sid = S.sid /\ S'.gen = S.gen /\ S'.fresh = S.fresh
        /\ S'.own = S.own /\ S'.switching = S.switching /\ S'.scope = S.scope
        /\ \A i \in Ids : \/ S'.streaming[i] = S.streaming[i]
                          \/ S'.streaming[i] = l.streaming[i]
        /\ screen' = screen /\ control' = control /\ feed' \in Feeds
        /\ \/ feed' = feed /\ S'.focus = S.focus
           \/ /\ S.sid \in Ids /\ S.switching = NoId /\ S'.focus = S'.streaming[S.sid]
              /\ S'.focus \in Streams /\ feed'[S'.focus] # Closed
    BY <1>1, <1>4, LoadSame
  <2> HIDE DEF r
  <2>2. \A i \in Ids : \/ S'.streaming[i] = S.streaming[i]
                       \/ S'.streaming[i] = NoStream
                       \/ S'.streaming[i] \in Streams /\ Home(S'.streaming[i], i)
    BY <2>1, ListMarks
  <2>3. \/ feed' = feed /\ S'.focus = S.focus
        \/ /\ S'.focus \in Streams /\ feed'[S'.focus] # Closed /\ S.sid # NoId
           /\ Home(S'.focus, S.sid) /\ S.switching = NoId
    <3>1. S.sid \in Ids => \/ S'.streaming[S.sid] = NoStream
                           \/ Home(S'.streaming[S.sid], S.sid)
      BY <2>1, ListMarks
    <3> QED BY <2>1, <3>1, StreamNumbers
  <2>4. control' \in Channel /\ ControlInv'
    BY <1>2, <2>1, ControlFrame DEF IInv, TypeOK, Channel
  <2>5. S.scope = "other" => ScopeInv'
    <3> SUFFICES ASSUME S.scope = "other" PROVE ScopeInv'
      OBVIOUS
    <3>1. S.streaming = NoStreaming /\ l.streaming = NoStreaming /\ S.sid = NoId
      BY <1>4 DEF IInv, ScopeInv, ListInv
    <3>2. \A i \in Ids : NoStreaming[i] = NoStream
      BY DEF NoStreaming
    <3>3. \A i \in Ids : S'.streaming[i] = NoStream
      BY <2>1, <3>1, <3>2
    <3>4. S'.streaming = NoStreaming
      BY <2>1, <3>3 DEF View, NoStreaming
    <3>5. feed' = feed
      BY <2>1, <3>1
    <3> QED BY <1>1, <2>1, <3>4, <3>5 DEF IInv, ScopeInv, server
  <2>6. /\ moves' \in 0..MaxMoves /\ screen' \subseteq Streams /\ probes' \subseteq Streams
        /\ S.sid = NoId => screen' = {}
        /\ lists' \subseteq lists /\ opens' \subseteq opens
    BY <1>1, <2>1 DEF IInv, TypeOK, ViewInv
  <2>7. UNCHANGED <<server, posts, boot>>
    BY <1>1
  <2>8. \/ /\ S'.focus = S.focus
           /\ \A s \in Streams : feed[s] # Closed => feed'[s] # Closed
        \/ /\ S'.focus \in Streams /\ feed'[S'.focus] # Closed /\ S.sid # NoId
           /\ Home(S'.focus, S.sid) /\ S.switching = NoId
    BY <2>3
  <2> QED BY <1>1, <2>1, <2>2, <2>4, <2>5, <2>6, <2>7, <2>8, SameViewFrame
<1> QED BY <1>3, <1>4

\* The first list of a reloaded page.
LEMMA BootListStep ==
  ASSUME IInv, NEW l \in lists, BootList(l)
  PROVE  /\ IInv' /\ screen' = {}
         /\ S'.sid = NoId \/ S'.switching # NoId
<1> DEFINE r == loadSessions(l)
           v == r.view
<1>1. /\ boot.on /\ boot' = NoBoot /\ lists' = lists \ {l} /\ feed' = r.feed
      /\ \/ /\ v.gen # S.gen
            /\ S' = v /\ screen' = r.screen /\ control' = r.control /\ UNCHANGED opens
         \/ /\ v.gen = S.gen /\ boot.view \in l.rows
            /\ S' = Opened(v, boot.view)
            /\ opens' = {Opening(v, boot.view, TRUE, boot.hist, boot.read)}
            /\ control' = watchSession(r.control, boot.view)
            /\ screen' = {}
         \/ /\ v.gen = S.gen
            /\ S' = [v EXCEPT !.fresh = TRUE]
            /\ screen' = {} /\ control' = r.control /\ UNCHANGED opens
      /\ UNCHANGED <<server, posts, probes, moves>>
  BY DEF BootList
<1>2. /\ opens = {} /\ posts = {} /\ probes = {} /\ control = NoControl /\ S = Blank(S.scope)
      /\ screen = {} /\ \A s \in Streams : feed[s] = Closed
      /\ \A s \in boot.hist : Home(s, boot.view)
  BY <1>1 DEF IInv, BootInv
<1>3. /\ Onward /\ S \in View /\ S.gen \in Nat /\ S.scope \in Scopes
      /\ boot.hist \in SUBSET Streams /\ boot.read \in {"no", "yes", "error"}
      /\ moves' \in 0..MaxMoves /\ probes' \subseteq Streams
  BY <1>1, ServerKept DEF IInv, TypeOK, View
<1>4. S.sid = NoId /\ S.own = NoStream /\ S.focus = NoStream
  <2> DEFINE b == Blank(S.scope)
  <2>1. b.sid = NoId /\ b.own = NoStream /\ b.focus = NoStream
    BY <1>3, BlankFacts
  <2>2. S = b
    BY <1>2
  <2> HIDE DEF b
  <2> QED BY <2>1, <2>2
<1>5. lists' = {}
  BY <1>1 DEF IInv, ListInv
<1>6. NoControl \in Channel
  <2>1. <<>> \in Seq(Event)
    OBVIOUS
  <2> QED BY <2>1, ChannelFacts DEF IInv
<1>7. /\ BootInv'
      /\ boot' \in [on : BOOLEAN, view : Ids \cup {NoId}, hist : SUBSET Streams,
                    read : {"no", "yes", "error"}]
  BY <1>1 DEF BootInv, NoBoot
<1>8. posts' \subseteq posts /\ lists' \subseteq lists /\ UNCHANGED server
  BY <1>1
<1>9. CASE S.scope # l.scope
  <2>1. /\ login = "other" /\ v \in View /\ v.sid = NoId /\ v.focus = NoStream
        /\ v.gen = S.gen + 1 /\ v.own = NoStream /\ v.scope = "other"
        /\ v.streaming = NoStreaming /\ r.feed = [s \in Streams |-> Closed]
        /\ r.screen = {} /\ r.control = NoControl
    BY <1>9, LoadOther
  <2> HIDE DEF v, r
  <2>2. v.gen # S.gen
    BY <1>3, <2>1
  <2>3. S' = v /\ screen' = {} /\ control' = NoControl /\ opens' = {}
    BY <1>1, <1>2, <2>1, <2>2
  <2>4. S.gen <= S'.gen
    BY <1>3, <2>1, <2>3
  <2>5. OpenInv' /\ DropInv' /\ ControlInv'
    BY <2>3, NoControlFacts DEF OpenInv, DropInv, ControlInv
  <2>6. ScopeInv'
    BY <1>1, <2>1, <2>3, NoControlFacts DEF ScopeInv, server
  <2>7. TypeOK'
    BY <1>1, <1>3, <1>6, <1>7, <2>1, <2>3 DEF IInv, TypeOK, Channel, Closed, server
  <2>8. \A i \in Ids : S'.streaming[i] = NoStream
    BY <2>1, <2>3 DEF NoStreaming
  <2>9. /\ S'.fresh => S'.sid = NoId /\ S'.own = NoStream
        /\ S'.focus = NoStream /\ S'.sid = NoId
    BY <2>1, <2>3
  <2>10. IInv'
    BY <1>5, <1>7, <1>8, <2>3, <2>4, <2>5, <2>6, <2>7, <2>8, <2>9, NewViewFrame
  <2> QED BY <2>3, <2>9, <2>10
<1>10. CASE S.scope = l.scope
  <2>1. /\ v \in View /\ v.sid = S.sid /\ v.gen = S.gen /\ v.own = S.own
        /\ v.scope = S.scope
        /\ \A i \in Ids : v.streaming[i] = S.streaming[i] \/ v.streaming[i] = l.streaming[i]
        /\ r.control = control /\ r.feed \in Feeds
        /\ \/ r.feed = feed /\ v.focus = S.focus
           \/ S.sid \in Ids
    BY <1>10, LoadSame
  <2>2. \A i \in Ids : v.streaming[i] = NoStream \/ (v.streaming[i] \in Streams /\ Home(v.streaming[i], i))
    BY <2>1, ListMarks
  <2>3. r.feed = feed /\ v.focus = NoStream
    BY <1>4, <2>1
  <2> HIDE DEF r
  <2>4. feed' = feed /\ feed \in Feeds
    BY <1>1, <2>1, <2>3
  <2>5. CASE /\ boot.view \in l.rows
             /\ S' = Opened(v, boot.view)
             /\ opens' = {Opening(v, boot.view, TRUE, boot.hist, boot.read)}
             /\ control' = watchSession(r.control, boot.view)
             /\ screen' = {}
    <3>1. boot.view \in Ids /\ S.scope # "other"
      BY <1>10, <2>5 DEF IInv, ListInv
    <3> HIDE DEF v
    <3>2. /\ S' \in View /\ S'.sid = boot.view /\ S'.focus = NoStream /\ S'.gen = v.gen + 1
          /\ S'.fresh = FALSE /\ S'.switching = boot.view /\ S'.scope = S.scope
          /\ S'.streaming = v.streaming
      BY <2>1, <2>5, <3>1, OpenedFacts
    <3>3. control' \in Channel /\ control'.id = boot.view /\ ControlInv'
      BY <1>3, <2>1, <2>5, <3>1, WatchFrame DEF IInv
    <3>4. opens' = opens \cup {Opening(v, boot.view, TRUE, boot.hist, boot.read)}
      BY <1>2, <2>5
    <3>5. v.streaming[boot.view] # NoStream => Home(v.streaming[boot.view], boot.view)
      BY <2>2, <3>1
    <3>6. v.gen = S.gen /\ S' = Opened(v, boot.view) /\ v \in View
      BY <2>1, <2>5
    <3>7. OpenInv' /\ DropInv'
      BY <1>2, <1>3, <1>8, <3>1, <3>4, <3>5, <3>6, TRUE \in BOOLEAN, OpenAdded
    <3>8. ScopeInv'
      BY <3>1, <3>2 DEF ScopeInv
    <3>9. TypeOK'
      BY <1>1, <1>3, <1>7, <2>4, <2>5, <3>2, <3>3 DEF IInv, TypeOK, Channel, Feeds, server
    <3>10. S.gen <= S'.gen
      BY <1>3, <3>2, <3>6
    <3>11. \A i \in Ids : \/ S'.streaming[i] = NoStream
                          \/ S'.streaming[i] \in Streams /\ Home(S'.streaming[i], i)
      BY <2>2, <3>2
    <3>12. IInv'
      BY <1>5, <1>7, <1>8, <2>5, <3>2, <3>3, <3>7, <3>8, <3>9, <3>10, <3>11, NewViewFrame
    <3> QED BY <2>5, <3>1, <3>2, <3>12
  <2>6. CASE /\ S' = [v EXCEPT !.fresh = TRUE]
             /\ screen' = {} /\ control' = r.control /\ UNCHANGED opens
    <3> HIDE DEF v
    <3>1. /\ S' \in View /\ S'.sid = NoId /\ S'.focus = NoStream /\ S'.gen = S.gen
          /\ S'.own = NoStream /\ S'.scope = S.scope /\ S'.streaming = v.streaming
      BY <1>4, <2>1, <2>3, <2>6 DEF View
    <3>2. control' = NoControl /\ opens' = {}
      BY <1>2, <2>1, <2>6
    <3>3. OpenInv' /\ DropInv' /\ ControlInv'
      BY <3>2, NoControlFacts DEF OpenInv, DropInv, ControlInv
    <3>4. ScopeInv'
      <4> SUFFICES ASSUME S.scope = "other" PROVE ScopeInv'
        BY <3>1 DEF ScopeInv
      <4>1. S.streaming = NoStreaming /\ l.streaming = NoStreaming /\ login = "other"
        BY <1>10 DEF IInv, ScopeInv, ListInv
      <4>2. \A i \in Ids : S'.streaming[i] = NoStream
        BY <2>1, <3>1, <4>1 DEF NoStreaming
      <4>3. S'.streaming = NoStreaming
        BY <3>1, <4>2 DEF View, NoStreaming
      <4> QED BY <1>1, <1>2, <2>4, <2>6, <3>1, <3>2, <4>1, <4>3, NoControlFacts DEF ScopeInv, server
    <3>5. TypeOK'
      BY <1>1, <1>3, <1>6, <1>7, <2>4, <2>6, <3>1, <3>2 DEF IInv, TypeOK, Channel, Feeds, server
    <3>6. \A i \in Ids : \/ S'.streaming[i] = NoStream
                         \/ S'.streaming[i] \in Streams /\ Home(S'.streaming[i], i)
      BY <2>2, <3>1
    <3>7. S.gen <= S'.gen
      BY <1>3, <3>1
    <3>8. IInv'
      BY <1>5, <1>7, <1>8, <2>6, <3>1, <3>3, <3>4, <3>5, <3>6, <3>7, NewViewFrame
    <3> QED BY <2>6, <3>1, <3>8
  <2> QED BY <1>1, <2>1, <2>5, <2>6
<1> QED BY <1>9, <1>10

-----------------------------------------------------------------------------
(* The invariant. *)

LEMMA InitIInv == Init => IInv
<1> SUFFICES ASSUME Init PROVE IInv
  OBVIOUS
<1> DEFINE b == Blank("owner")
<1>1. /\ b \in View /\ b.sid = NoId /\ b.focus = NoStream /\ b.gen = 0 /\ b.own = NoStream
      /\ b.switching = NoId /\ b.scope = "owner" /\ b.streaming = NoStreaming
  BY "owner" \in Scopes, BlankFacts DEF Scopes
<1>2. S = [b EXCEPT !.fresh = TRUE]
  BY DEF Init
<1> HIDE DEF b
<1>3. /\ S \in View /\ S.sid = NoId /\ S.focus = NoStream /\ S.own = NoStream
      /\ S.scope = "owner" /\ S.streaming = NoStreaming
  BY <1>1, <1>2 DEF View
<1>4. /\ \A s \in Streams : turn[s] = [st |-> "unused", cur |-> NoId, ids |-> <<>>]
      /\ turn \in [Streams -> Turn]
  <2>1. [st |-> "unused", cur |-> NoId, ids |-> <<>>] \in Turn
    BY DEF Turn
  <2> QED BY <2>1 DEF Init
<1>5. NoControl \in [id : Ids \cup {NoId}, open : BOOLEAN, queue : Seq(Event)]
  <2>1. <<>> \in Seq(Event)
    OBVIOUS
  <2> DEFINE Q == Seq(Event)
  <2> HIDE DEF Q
  <2>2. NoControl \in [id : Ids \cup {NoId}, open : BOOLEAN, queue : Q]
    BY <2>1 DEF NoControl, Q
  <2> QED BY <2>2 DEF Q
<1>6. TypeOK
  BY <1>3, <1>4, <1>5 DEF Init, TypeOK, Scopes, Closed, NoBoot
<1>7. TurnInv
  BY <1>4 DEF TurnInv
<1>8. \A i \in Ids : S.streaming[i] = NoStream
  BY <1>3 DEF NoStreaming
<1>9. ViewInv /\ FocusFed
  BY <1>3, <1>8 DEF Init, ViewInv, FocusFed
<1>10. ListInv /\ ControlInv /\ OpenInv /\ DropInv
  BY NoControlFacts DEF Init, ListInv, ControlInv, OpenInv, DropInv
<1>11. PostInv
  BY FS_EmptySet DEF Init, PostInv
<1>12. BootInv /\ ScopeInv
  BY <1>3 DEF Init, BootInv, NoBoot, ScopeInv
<1> QED BY <1>6, <1>7, <1>9, <1>10, <1>11, <1>12 DEF IInv

LEMMA IInvUnchanged == IInv /\ UNCHANGED vars => IInv'
<1> SUFFICES ASSUME IInv, UNCHANGED vars PROVE IInv'
  OBVIOUS
<1>1. UNCHANGED <<turn, login, server, S, feed, screen, control, lists, opens, posts, probes, boot, moves>>
  BY DEF vars, server
<1>2. Onward /\ TurnInv'
  BY <1>1, ServerKept DEF IInv
<1>3. TypeOK'
  BY <1>1 DEF IInv, TypeOK
<1>4. ControlInv'
  BY <1>1, <1>2, ControlFrame DEF IInv
<1> QED BY <1>1, <1>2, <1>3, <1>4, ServerFrame DEF IInv, ScopeInv, BootInv

LEMMA NextIInv == IInv /\ [Next]_vars => IInv'
<1> SUFFICES ASSUME IInv, Next PROVE IInv'
  BY IInvUnchanged
<1>1. CASE server_Next
  <2>1. ASSUME NEW id \in Ids, ServerTurn(id) PROVE IInv'
    BY <2>1, ServerTurnStep
  <2>2. ASSUME NEW s \in Streams, Rotate(s) PROVE IInv'
    BY <2>2, RotateStep
  <2>3. ASSUME NEW s \in Streams, Finish(s) PROVE IInv'
    BY <2>3, FinishStep
  <2>4. CASE Restart
    BY <2>4, RestartStep
  <2>5. CASE Login
    BY <2>5, LoginStep
  <2> QED BY <1>1, <2>1, <2>2, <2>3, <2>4, <2>5 DEF server_Next
<1>2. CASE reader_Next
  <2>1. ASSUME NEW id \in Ids, OpenSession(id) PROVE IInv'
    BY <2>1, OpenSessionStep
  <2>2. CASE NewSession
    BY <2>2, NewSessionStep
  <2>3. CASE Send
    BY <2>3, SendStep
  <2>4. CASE Reload
    BY <2>4, ReloadStep
  <2> QED BY <1>2, <2>1, <2>2, <2>3, <2>4 DEF reader_Next
<1>3. CASE net_Next
  <2>1. ASSUME NEW s \in Streams, apply(s) \/ FeedError(s) PROVE IInv'
    BY <2>1, applyStep, FeedErrorStep
  <2>2. ASSUME NEW s \in probes, FeedProbe(s) PROVE IInv'
    BY <2>2, FeedProbeStep
  <2>3. CASE ControlOpen \/ Announced
    BY <2>3, ControlOpenStep, AnnouncedStep
  <2>4. CASE ListAnswer
    BY <2>4, ListAnswerStep
  <2>5. ASSUME NEW l \in lists, ListApply(l) \/ BootList(l) PROVE IInv'
    BY <2>5, ListApplyStep, BootListStep
  <2>6. ASSUME NEW o \in opens, OpenStatus(o) \/ OpenRead(o) \/ OpenPaint(o) PROVE IInv'
    BY <2>6, OpenStatusStep, OpenReadStep, OpenPaintStep
  <2>7. ASSUME NEW p \in posts, Start(p) \/ SendLost(p) \/ SendAnswer(p) PROVE IInv'
    BY <2>7, StartStep, SendLostStep, SendAnswerStep
  <2>8. CASE BootRead
    BY <2>8, BootReadStep
  <2> QED BY <1>3, <2>1, <2>2, <2>3, <2>4, <2>5, <2>6, <2>7, <2>8 DEF net_Next
<1> QED BY <1>1, <1>2, <1>3 DEF Next

\* Every reachable state of the tab and of what is on its way satisfies the
\* inductive invariant.
THEOREM Invariance == Spec => []IInv
BY InitIInv, NextIInv, PTL DEF Spec

\* Every variable keeps the shape the code gives it.
THEOREM TypeCorrect == Spec => []TypeOK
<1>1. IInv => TypeOK
  BY DEF IInv
<1> QED BY <1>1, Invariance, PTL

\* The turn the tab is subscribed to for its view, which the stop button names
\* and whose next id may rename the view, is a turn of the conversation shown.
THEOREM FocusHome == Spec => []FocusIsHome
<1>1. IInv => FocusIsHome
  BY DEF IInv, ViewInv, FocusIsHome, Home
<1> QED BY <1>1, Invariance, PTL

\* A conversation is marked live by a turn of its own, across rotations, late
\* lists, announcements and late answers of sends.
THEOREM MapHome == Spec => []MapIsHome
<1>1. IInv => MapIsHome
  BY DEF IInv, ViewInv, MapIsHome, Home
<1> QED BY <1>1, Invariance, PTL

\* Once a list of another subject has been applied, nothing of the previous one
\* is left on the page, and no answer still on its way brings any of it back.
THEOREM SubjectClean == Spec => []ScopeClean
<1>1. IInv => ScopeClean
  BY DEF IInv, ScopeInv, ScopeClean
<1> QED BY <1>1, Invariance, PTL

\* The turn an opening finds finished is in the history it paints.
THEOREM NothingMissing == Spec => []NeverMissing
<1>1. IInv => NeverMissing
  BY DEF IInv, DropInv, NeverMissing
<1> QED BY <1>1, Invariance, PTL

-----------------------------------------------------------------------------
(* The list is the backstop of every lost push. *)

\* The steps that consume a list; in every other step none is.
LEMMA ListsKept ==
  ASSUME Next, \A l \in lists : ~ListApply(l) /\ ~BootList(l)
  PROVE  lists \subseteq lists' \/ Reload
<1>1. CASE server_Next
  BY <1>1 DEF server_Next, ServerTurn, Rotate, Finish, Restart, Login, asks
<1>2. CASE reader_Next
  BY <1>2 DEF reader_Next, OpenSession, NewSession, Send
<1>3. CASE net_Next
  BY <1>3 DEF net_Next, apply, FeedError, FeedProbe, ControlOpen, Announced, ListAnswer,
              OpenStatus, OpenRead, OpenPaint, Start, SendLost, SendAnswer, BootRead, asks, server
<1> QED BY <1>1, <1>2, <1>3 DEF Next

\* Whichever list is applied, at whatever moment: a turn that the tab then takes
\* to be running in its settled view, and that does run, is subscribed.
THEOREM ListsDiscover == Spec => Discovered
<1> DEFINE shown == IF S'.sid = NoId THEN NoStream ELSE S'.streaming[S'.sid]
<1>1. IInv /\ Next =>
        \A l \in lists \ lists' :
          shown # NoStream /\ Running(shown) /\ S'.switching = NoId /\ login = "owner"
            => feed'[shown] # Closed
  <2> SUFFICES ASSUME IInv, Next, NEW l \in lists \ lists',
                      S'.sid # NoId, S'.streaming[S'.sid] # NoStream,
                      Running(S'.streaming[S'.sid]), S'.switching = NoId, login = "owner"
               PROVE  feed'[S'.streaming[S'.sid]] # Closed
    OBVIOUS
  <2>1. (\E k \in lists : ListApply(k) \/ BootList(k)) \/ Reload
    BY ListsKept
  <2>2. ~Reload
    <3>1. S.scope \in Scopes
      BY DEF IInv, TypeOK, View
    <3>2. Blank(S.scope).sid = NoId
      BY <3>1, BlankFacts
    <3> QED BY <3>2 DEF Reload
  <2>3. \A k \in lists : ~BootList(k)
    BY BootListStep
  <2>4. PICK k \in lists : ListApply(k)
    BY <2>1, <2>2, <2>3
  <2>5. S' = loadSessions(k).view /\ feed' = loadSessions(k).feed /\ UNCHANGED server
    BY <2>4 DEF ListApply
  <2>6. S.scope = k.scope
    BY <2>5, LoadOther
  <2>7. /\ S'.sid = S.sid /\ S'.switching = S.switching
        /\ \/ feed' = feed /\ S'.focus = S.focus
           \/ /\ S.sid \in Ids /\ S.switching = NoId
              /\ S'.focus = S'.streaming[S.sid]
              /\ S'.focus \in Streams /\ feed'[S'.focus] # Closed
        /\ S.sid # NoId /\ S.switching = NoId /\ S'.streaming[S.sid] # NoStream =>
             \/ feed'[S'.streaming[S.sid]] # Closed
             \/ S'.streaming[S.sid] = S'.focus
    BY <2>5, <2>6, LoadSame
  <2>8. S.focus # NoStream /\ Running(S.focus) => feed[S.focus] # Closed
    BY DEF IInv, FocusFed, Running, Over
  <2> QED BY <2>7, <2>8
<1>2. IInv /\ [Next]_vars =>
        [\A l \in lists \ lists' :
          LET s == IF S'.sid = NoId THEN NoStream ELSE S'.streaming[S'.sid]
          IN  s # NoStream /\ Running(s) /\ S'.switching = NoId /\ login = "owner"
                => feed'[s] # Closed]_vars
  BY <1>1
<1> QED BY <1>2, Invariance, PTL DEF Spec, Discovered

-----------------------------------------------------------------------------
(* One unanswered message at a time. *)

LEMMA NextOnward ==
  ASSUME IInv, Next
  PROVE  Onward
<1>0. turn \in [Streams -> Turn] /\ \A s \in Streams : turn[s].st = "running" => turn[s].cur \in Ids
  BY DEF IInv, TypeOK
<1>1. CASE UNCHANGED server
  BY <1>1, ServerKept
<1>2. ASSUME NEW s \in Streams, turn[s].st = "unused", NEW id \in Ids, turn' = Started(s, id),
             UNCHANGED login
      PROVE  Onward
  BY <1>2, StartedFacts DEF IInv
<1>3. ASSUME NEW id \in Ids, ServerTurn(id) PROVE Onward
  BY <1>2, <1>3, NextStreamFacts DEF ServerTurn
<1>4. ASSUME NEW s \in Streams, Rotate(s) PROVE Onward
  <2>1. /\ turn' = [turn EXCEPT ![s].cur = Heir[turn[s].cur]] /\ login' = login
        /\ turn[s].st = "running" /\ Chain[Heir[turn[s].cur]] = Chain[turn[s].cur]
    BY <1>0, <1>4 DEF Rotate
  <2>2. \A t \in Streams : /\ turn'[t].st = turn[t].st
                           /\ turn'[t].cur = IF t = s THEN Heir[turn[s].cur] ELSE turn[t].cur
    BY <1>0, <2>1 DEF Turn
  <2> QED BY <2>1, <2>2 DEF Onward
<1>5. ASSUME NEW s \in Streams, Finish(s) PROVE Onward
  <2> DEFINE q == Append(turn[s].ids, turn[s].cur)
  <2>1. /\ turn' = [turn EXCEPT ![s].st = "ended", ![s].ids = q] /\ login' = login
        /\ turn[s].st = "running"
    BY <1>0, <1>5 DEF Finish
  <2> HIDE DEF q
  <2>2. \A t \in Streams : /\ turn'[t].st = IF t = s THEN "ended" ELSE turn[t].st
                           /\ turn'[t].cur = turn[t].cur
    BY <1>0, <2>1 DEF Turn
  <2>3. \A t \in Streams : Over(t) => t # s
    BY <2>1 DEF Over
  <2>4. "ended" # "unused"
    OBVIOUS
  <2>5. \A t \in Streams :
          /\ turn[t].st # "unused" =>
               turn'[t].st # "unused" /\ Chain[turn'[t].cur] = Chain[turn[t].cur]
          /\ Over(t) => turn'[t].st = turn[t].st
    BY ONLY <2>2, <2>3, <2>4
  <2> QED BY ONLY <2>1, <2>5 DEF Onward
<1>6. CASE Restart
  <2>1. /\ turn' = [s \in Streams |-> IF turn[s].st = "running"
                                      THEN [turn[s] EXCEPT !.st = "gone"] ELSE turn[s]]
        /\ login' = login
    BY <1>6 DEF Restart
  <2>2. \A t \in Streams : /\ turn'[t].st = IF turn[t].st = "running" THEN "gone" ELSE turn[t].st
                           /\ turn'[t].cur = turn[t].cur
    BY <1>0, <2>1 DEF Turn
  <2> QED BY <2>1, <2>2 DEF Onward, Over
<1>7. CASE Login
  BY <1>7 DEF Login, Onward
<1>8. CASE server_Next
  BY <1>3, <1>4, <1>5, <1>6, <1>7, <1>8 DEF server_Next
<1>9. CASE reader_Next
  BY <1>1, <1>9 DEF reader_Next, OpenSession, NewSession, Send, Reload
<1>10. ASSUME NEW p \in posts, Start(p) PROVE Onward
  <2>1. p.id \in Ids \cup {NoId} /\ UNCHANGED login
    BY <1>10 DEF IInv, PostInv, Start
  <2>2. CASE UNCHANGED turn
    BY <1>1, <2>1, <2>2 DEF server
  <2>3. CASE turn' # turn
    <3>1. /\ NextStream # NoStream
          /\ \E id \in Ids : turn' = Started(NextStream, id)
      BY <1>10, <2>1, <2>3 DEF Start
    <3> QED BY <1>2, <2>1, <3>1, NextStreamFacts
  <2> QED BY <2>2, <2>3
<1>11. CASE net_Next
  <2>1. UNCHANGED server \/ \E p \in posts : Start(p)
    BY <1>11 DEF net_Next, apply, FeedError, FeedProbe, ControlOpen, Announced, ListAnswer,
                 ListApply, BootList, OpenStatus, OpenRead, OpenPaint, SendLost, SendAnswer, BootRead
  <2> QED BY <1>1, <1>10, <2>1
<1> QED BY <1>8, <1>9, <1>11 DEF Next

\* The view keeps its conversation, or has no unanswered message; its new rows
\* are its own.
LEMMA ScreenFrame ==
  ASSUME IInv, ScreenInv, Onward, twice' = twice, posts' \subseteq posts, screen' \subseteq Streams,
         \A p \in posts' : p.gen = S'.gen /\ S'.gen # twice =>
           /\ S'.gen = S.gen
           /\ \/ S'.sid = NoId /\ S.sid = NoId
              \/ S'.sid # NoId /\ S.sid # NoId /\ Chain[S'.sid] = Chain[S.sid],
         \A s \in screen' : S'.gen # twice =>
           \/ /\ s \in screen /\ S'.gen = S.gen
              /\ S'.sid = NoId \/ (S.sid # NoId /\ Chain[S'.sid] = Chain[S.sid])
           \/ Home(s, S'.sid)
  PROVE  ScreenInv'
<1>1. SendInv' /\ SoleSend'
  BY DEF ScreenInv, SendInv, SoleSend
<1>2. RowInv'
  <2> SUFFICES ASSUME S'.sid # NoId, S'.gen # twice, NEW s \in screen' PROVE HomeNext(s, S'.sid)
    BY DEF RowInv, Home, HomeNext
  <2>1. Home(s, S'.sid)
    BY DEF ScreenInv, RowInv, Home
  <2> QED BY <2>1, HomeKept
<1> QED BY <1>1, <1>2 DEF ScreenInv

LEMMA ScreenKept ==
  ASSUME IInv, ScreenInv, Next, UNCHANGED <<posts, screen, twice>>,
         S'.sid = S.sid, S'.gen = S.gen
  PROVE  ScreenInv'
<1>1. screen \subseteq Streams
  BY DEF IInv, TypeOK
<1>2. \A s \in screen : S.sid = NoId => FALSE
  BY DEF IInv, ViewInv
<1> QED BY <1>1, <1>2, NextOnward, ScreenFrame DEF ScreenInv, SendInv

\* A bare view: no rows, and no message of its generation unanswered.
LEMMA ScreenBare ==
  ASSUME screen' = {}, \A p \in posts' : p.gen # S'.gen
  PROVE  ScreenInv'
BY DEF ScreenInv, SendInv, SoleSend, RowInv

\* Only a send and a reload write the history.
LEMMA TwiceKept == server_Next \/ net_Next => twice' = twice
<1>1. server_Next => twice' = twice
  BY DEF server_Next, ServerTurn, Rotate, Finish, Restart, Login
<1>2. (\E s \in Streams : apply(s) \/ FeedError(s)) \/ (\E s \in probes : FeedProbe(s))
        => twice' = twice
  BY DEF apply, FeedError, FeedProbe
<1>3. ControlOpen \/ Announced \/ ListAnswer \/ BootRead => twice' = twice
  BY DEF ControlOpen, Announced, ListAnswer, BootRead
<1>4. (\E l \in lists : ListApply(l) \/ BootList(l)) => twice' = twice
  BY DEF ListApply, BootList
<1>5. (\E o \in opens : OpenStatus(o) \/ OpenRead(o) \/ OpenPaint(o)) => twice' = twice
  BY DEF OpenStatus, OpenRead, OpenPaint
<1>6. (\E p \in posts : Start(p) \/ SendLost(p) \/ SendAnswer(p)) => twice' = twice
  BY DEF Start, SendLost, SendAnswer
<1> QED BY <1>1, <1>2, <1>3, <1>4, <1>5, <1>6 DEF net_Next

LEMMA ScreenReader ==
  ASSUME IInv, ScreenInv, Next, reader_Next
  PROVE  ScreenInv'
<1>1. S \in View /\ S.gen \in Nat /\ S.scope \in Scopes
  BY DEF IInv, TypeOK, View
<1>2. \A p \in posts : p.gen \in Nat /\ p.gen <= S.gen
  BY DEF IInv, PostInv
<1>3. ASSUME NEW id \in Ids, OpenSession(id) PROVE ScreenInv'
  <2>1. S' = Opened(S, id) /\ screen' = {} /\ posts' = posts
    BY <1>3 DEF OpenSession
  <2>2. S'.gen = S.gen + 1
    BY <1>1, <2>1, OpenedFacts
  <2>3. \A p \in posts : p.gen # S'.gen
    BY <1>1, <1>2, <2>2
  <2> QED BY <2>1, <2>3, ScreenBare
<1>4. CASE NewSession
  <2> DEFINE g == S.gen + 1
             w == [S EXCEPT !.fresh = TRUE, !.gen = g, !.switching = NoId,
                            !.own = NoStream, !.sid = NoId, !.focus = NoStream]
  <2>1. S' = setBusy(w, FALSE) /\ screen' = {} /\ posts' = posts
    BY <1>4 DEF NewSession
  <2>2. g \in Nat /\ S.gen < g
    BY <1>1
  <2> HIDE DEF g
  <2>3. w \in View /\ w.gen = g
    BY <1>1, <2>2 DEF View
  <2> HIDE DEF w
  <2>4. S'.gen = g
    BY <2>1, <2>3, FALSE \in BOOLEAN, setBusyFacts
  <2>5. \A p \in posts : p.gen # S'.gen
    BY <1>1, <1>2, <2>2, <2>4
  <2> QED BY <2>1, <2>5, ScreenBare
<1>5. CASE Reload
  <2>1. screen' = {} /\ posts' = {}
    BY <1>5 DEF Reload
  <2> QED BY <2>1, ScreenBare
<1>6. CASE Send
  <2> DEFINE num == CHOOSE k \in 1..MaxPosts : \A q \in posts : q.n # k
             to == IF S.fresh THEN NoId ELSE S.sid
             p == [n |-> num, gen |-> S.gen, scope |-> S.scope, id |-> to,
                   step |-> "asked", s |-> NoStream]
  <2>1. /\ posts' = posts \cup {p} /\ UNCHANGED <<turn, S, screen>>
        /\ twice' = IF S.sid = NoId /\ \E q \in posts : q.gen = S.gen THEN S.gen ELSE twice
    BY <1>6 DEF Send, server
  <2> HIDE DEF num, to
  <2>2. p.id = to /\ p.gen = S.gen
    OBVIOUS
  <2> HIDE DEF p
  <2>3. S.sid # NoId => to = S.sid
    BY DEF to, IInv, ViewInv
  <2>4. SendInv'
    BY <2>1, <2>2, <2>3 DEF ScreenInv, SendInv
  <2>5. SoleSend'
    <3>1. S.sid = NoId /\ S.gen # twice' => \A q \in posts : q.gen # S.gen
      BY <2>1
    <3> QED BY <2>1, <3>1 DEF SoleSend
  <2>6. RowInv'
    BY <2>1 DEF ScreenInv, RowInv, Home
  <2> QED BY <2>4, <2>5, <2>6 DEF ScreenInv
<1> QED BY <1>3, <1>4, <1>5, <1>6 DEF reader_Next

LEMMA ScreenNet ==
  ASSUME IInv, ScreenInv, Next, net_Next
  PROVE  ScreenInv'
<1>1. S \in View /\ S.gen \in Nat /\ S.scope \in Scopes /\ screen \subseteq Streams
  BY DEF IInv, TypeOK, View
<1>2. \A p \in posts : p.gen \in Nat /\ p.gen <= S.gen
  BY DEF IInv, PostInv
<1>3. S.sid = NoId => screen = {}
  BY DEF IInv, ViewInv
<1>4. Onward /\ twice' = twice
  BY NextOnward, TwiceKept
<1>5. ASSUME NEW s \in Streams, apply(s) PROVE ScreenInv'
  <2>1. /\ S'.gen = S.gen /\ posts' = posts
        /\ S'.sid = S.sid \/ (S.sid # NoId /\ S'.sid # NoId /\ Chain[S'.sid] = Chain[S.sid])
        /\ screen' \subseteq Streams
        /\ \A t \in screen' : t \in screen \/ Home(t, S'.sid)
    BY <1>5, applyFacts
  <2> QED BY <1>3, <1>4, <2>1, ScreenFrame
<1>6. ASSUME NEW s \in probes, FeedProbe(s) PROVE ScreenInv'
  <2>1. UNCHANGED <<posts, screen>> /\ (S' = S \/ S' = setBusy(S, FALSE))
    BY <1>6 DEF FeedProbe
  <2>2. S'.sid = S.sid /\ S'.gen = S.gen
    BY <1>1, <2>1, FALSE \in BOOLEAN, setBusyFacts
  <2> QED BY <1>4, <2>1, <2>2, ScreenKept
<1>7. CASE Announced
  <2> DEFINE e == Head(control.queue)
             v == [S EXCEPT !.streaming[control.id] = e.s]
  <2>1. /\ control.queue # <<>> /\ control' = [control EXCEPT !.queue = Tail(@)]
        /\ UNCHANGED <<posts, screen>> /\ (S' = v \/ S' = attach(v, e.s))
    BY <1>7 DEF Announced
  <2>2. e.s \in Streams /\ control.id \in Ids
    BY <1>4, <2>1, TakenFacts DEF IInv
  <2> HIDE DEF e
  <2>3. v \in View /\ v.sid = S.sid /\ v.gen = S.gen
    BY <1>1, <2>2, MarkFacts
  <2> HIDE DEF v
  <2>4. S'.sid = S.sid /\ S'.gen = S.gen
    BY <2>1, <2>2, <2>3, attachFacts
  <2> QED BY <1>4, <2>1, <2>4, ScreenKept
<1>8. ASSUME NEW l \in lists, ListApply(l) PROVE ScreenInv'
  <2>1. /\ S' = loadSessions(l).view /\ screen' = loadSessions(l).screen /\ posts' = posts
    BY <1>8 DEF ListApply
  <2>2. CASE S.scope # l.scope
    <3>1. S'.gen = S.gen + 1 /\ screen' = {}
      BY <2>1, <2>2, LoadOther
    <3>2. \A p \in posts : p.gen # S'.gen
      BY <1>1, <1>2, <3>1
    <3> QED BY <2>1, <3>1, <3>2, ScreenBare
  <2>3. CASE S.scope = l.scope
    <3>1. S'.sid = S.sid /\ S'.gen = S.gen /\ screen' = screen
      BY <2>1, <2>3, LoadSame
    <3> QED BY <1>4, <2>1, <3>1, ScreenKept
  <2> QED BY <2>2, <2>3
<1>9. ASSUME NEW l \in lists, BootList(l) PROVE ScreenInv'
  <2>1. posts' = {} /\ screen' = {}
    BY <1>9, BootListStep DEF BootList, IInv, BootInv
  <2> QED BY <2>1, ScreenBare
<1>10. ASSUME NEW o \in opens, OpenStatus(o) PROVE ScreenInv'
  <2>1. /\ UNCHANGED <<posts, screen>>
        /\ S' = S \/ S' = [S EXCEPT !.streaming[o.id] = NoStream]
    BY <1>10 DEF OpenStatus
  <2>2. S'.sid = S.sid /\ S'.gen = S.gen
    BY <1>1, <2>1 DEF View
  <2> QED BY <1>4, <2>1, <2>2, ScreenKept
<1>11. ASSUME NEW o \in opens, OpenPaint(o) PROVE ScreenInv'
  <2> DEFINE live == CASE S.streaming[o.id] # NoStream -> S.streaming[o.id]
                       [] S.streaming[o.id] = NoStream /\ o.dropped -> NoStream
                       [] OTHER -> o.live
             v == [S EXCEPT !.switching = NoId]
  <2>1. /\ posts' = posts
        /\ S' = S \/ S' = v \/ S' = setBusy(v, FALSE) \/ (live # NoStream /\ S' = attach(v, live))
        /\ \/ screen' = screen
           \/ o.gen = S.gen /\ screen' = screen \cup o.hist
    BY <1>11 DEF OpenPaint
  <2>2. /\ o \in OpenRecord /\ \A s \in o.hist : Home(s, o.id)
        /\ o.gen = S.gen => S.sid = o.id
    BY DEF IInv, OpenInv, OpenRecord
  <2>3. v \in View /\ v.sid = S.sid /\ v.gen = S.gen
    BY <1>1 DEF View
  <2>4. live \in Streams \cup {NoStream}
    BY <1>1, <2>2 DEF View, OpenRecord
  <2> HIDE DEF v, live
  <2>5. S'.sid = S.sid /\ S'.gen = S.gen
    <3>1. CASE S' = S \/ S' = v
      BY <2>3, <3>1
    <3>2. CASE S' = setBusy(v, FALSE)
      BY <2>3, <3>2, FALSE \in BOOLEAN, setBusyFacts
    <3>3. CASE live # NoStream /\ S' = attach(v, live)
      BY <2>3, <2>4, <3>3, attachFacts
    <3> QED BY <2>1, <3>1, <3>2, <3>3
  <2>6. screen' \subseteq Streams /\ \A s \in screen' : s \in screen \/ Home(s, S'.sid)
    BY <1>1, <2>1, <2>2, <2>5 DEF OpenRecord
  <2>7. \A s \in screen : S.sid # NoId
    BY <1>3
  <2>8. posts' \subseteq posts
    BY <2>1
  <2> QED BY <1>4, <2>5, <2>6, <2>7, <2>8, ScreenFrame
<1>12. ASSUME NEW p \in posts, Start(p) PROVE ScreenInv'
  <2>2. PICK step, id, s :
          /\ posts' = (posts \ {p}) \cup {[p EXCEPT !.step = step, !.id = id, !.s = s]}
          /\ p.id # NoId => id = p.id
    <3> DEFINE ans(step, id, s) ==
                 (posts \ {p}) \cup {[p EXCEPT !.step = step, !.id = id, !.s = s]}
    <3>1. \/ posts' = ans("refused", p.id, NoStream)
          \/ \E id \in IF p.id # NoId THEN {p.id}
                       ELSE {i \in Ids \ Born : \A j \in Ids : Heir[j] # i} :
               posts' = ans("started", id, NextStream)
      BY <1>12 DEF Start
    <3>2. CASE posts' = ans("refused", p.id, NoStream)
      BY <3>2
    <3>3. ASSUME NEW id, p.id # NoId => id = p.id, posts' = ans("started", id, NextStream)
          PROVE  \E step, i, s : posts' = ans(step, i, s) /\ (p.id # NoId => i = p.id)
      BY <3>3
    <3>4. \E step, i, s : posts' = ans(step, i, s) /\ (p.id # NoId => i = p.id)
      BY <3>1, <3>2, <3>3
    <3> QED BY <3>4
  <2> DEFINE q == [p EXCEPT !.step = step, !.id = id, !.s = s]
  <2>3. q.gen = p.gen /\ q.id = id
    <3>1. p = [n |-> p.n, gen |-> p.gen, scope |-> p.scope, id |-> p.id,
               step |-> p.step, s |-> p.s]
      BY DEF IInv, PostInv
    <3> QED BY <3>1
  <2>4. posts' = (posts \ {p}) \cup {q}
    BY <2>2
  <2> HIDE DEF q
  <2>5. UNCHANGED <<S, screen, twice>>
    BY <1>12 DEF Start
  <2>6. SendInv' /\ SoleSend'
    <3>1. \A r \in posts' : r = q \/ (r \in posts /\ r # p)
      BY <2>4
    <3>2. SendInv'
      BY <2>2, <2>3, <2>5, <3>1 DEF ScreenInv, SendInv
    <3>3. SoleSend'
      BY <2>3, <2>5, <3>1 DEF ScreenInv, SoleSend
    <3> QED BY <3>2, <3>3
  <2>7. RowInv'
    <3>1. ASSUME NEW t \in screen, S.sid # NoId, S.gen # twice PROVE HomeNext(t, S.sid)
      <4>1. t \in Streams /\ Home(t, S.sid)
        BY <1>1, <3>1 DEF ScreenInv, RowInv
      <4> QED BY <1>4, <4>1, HomeKept
    <3> QED BY <2>5, <3>1 DEF RowInv, Home, HomeNext
  <2> QED BY <2>6, <2>7 DEF ScreenInv
<1>13. ASSUME NEW p \in posts, SendLost(p) PROVE ScreenInv'
  <2>1. posts' \subseteq posts /\ UNCHANGED <<S, screen>>
    BY <1>13 DEF SendLost
  <2>2. \A s \in screen : S.sid # NoId
    BY <1>3
  <2> QED BY <1>1, <1>4, <2>1, <2>2, ScreenFrame DEF ScreenInv, SendInv
<1>14. ASSUME NEW p \in posts, SendAnswer(p) PROVE ScreenInv'
  <2> DEFINE recorded == [S EXCEPT !.streaming[p.id] = p.s]
             named == [recorded EXCEPT !.fresh = FALSE, !.own = p.s, !.sid = p.id]
  <2>1. /\ posts' = posts \ {p} /\ screen' = screen
        /\ \/ p.step = "started" /\ p.gen = S.gen /\ S' = attach(named, p.s)
           \/ p.step = "started" /\ S' = recorded
           \/ S' = S
    BY <1>14 DEF SendAnswer
  <2>2. p.step = "started" => p.id \in Ids /\ p.s \in Streams
    BY DEF IInv, PostInv
  <2>3. p.step = "started" => recorded \in View /\ recorded.sid = S.sid /\ recorded.gen = S.gen
    BY <1>1, <2>2, MarkFacts
  <2> HIDE DEF recorded
  <2>4. p.step = "started" => named \in View /\ named.sid = p.id /\ named.gen = S.gen
    BY <2>2, <2>3 DEF View
  <2> HIDE DEF named
  <2>5. S'.gen = S.gen /\ (S'.sid = S.sid \/ (p.gen = S.gen /\ S'.sid = p.id /\ p.id # NoId))
    BY <2>1, <2>2, <2>3, <2>4, attachFacts
  <2>6. S.sid # NoId /\ S.gen # twice =>
          S'.sid = S.sid \/ (S'.sid # NoId /\ Chain[S'.sid] = Chain[S.sid])
    BY <2>5 DEF ScreenInv, SendInv
  <2>7. posts' \subseteq posts /\ screen' \subseteq Streams /\ (\A s \in screen' : S.sid # NoId)
    BY <1>1, <1>3, <2>1
(* Where the answer names the view, no other message of it is unanswered. *)
  <2>8. ASSUME NEW q \in posts', q.gen = S.gen, S.gen # twice, S.sid = NoId PROVE S'.sid = NoId
    <3>1. CASE p.gen = S.gen
      BY <2>1, <2>8, <3>1 DEF ScreenInv, SoleSend
    <3>2. CASE p.gen # S.gen
      BY <2>5, <2>8, <3>2
    <3> QED BY <3>1, <3>2
  <2>9. \A q \in posts' : q.gen = S'.gen /\ S'.gen # twice =>
          \/ S'.sid = NoId /\ S.sid = NoId
          \/ S'.sid # NoId /\ S.sid # NoId /\ Chain[S'.sid] = Chain[S.sid]
    BY <2>5, <2>6, <2>8
  <2>10. \A s \in screen' : S'.gen # twice => s \in screen /\ Chain[S'.sid] = Chain[S.sid]
    BY <2>1, <2>5, <2>6, <2>7
  <2> QED BY <1>4, <2>5, <2>7, <2>9, <2>10, ScreenFrame
<1>15. CASE \/ \E s \in Streams : FeedError(s)
            \/ ControlOpen \/ ListAnswer \/ BootRead
            \/ \E o \in opens : OpenRead(o)
  <2>1. UNCHANGED <<posts, screen, S>>
    BY <1>15 DEF FeedError, ControlOpen, ListAnswer, BootRead, OpenRead, asks
  <2> QED BY <1>4, <2>1, ScreenKept
<1> QED BY <1>5, <1>6, <1>7, <1>8, <1>9, <1>10, <1>11, <1>12, <1>13, <1>14, <1>15 DEF net_Next

LEMMA ScreenNext == IInv /\ ScreenInv /\ [Next]_vars => ScreenInv'
<1>1. ASSUME IInv, ScreenInv, UNCHANGED vars PROVE ScreenInv'
  BY <1>1 DEF ScreenInv, SendInv, SoleSend, RowInv, Home, vars
<1>2. ASSUME IInv, ScreenInv, Next, server_Next PROVE ScreenInv'
  <2>1. UNCHANGED <<posts, screen, S>>
    BY <1>2 DEF server_Next, ServerTurn, Rotate, Finish, Restart, Login, asks
  <2> QED BY <1>2, <2>1, TwiceKept, ScreenKept
<1> QED BY <1>1, <1>2, ScreenReader, ScreenNet DEF Next

\* No row on screen comes from a turn of another conversation, however many
\* messages are unanswered, whatever feeds stay open in the background, whatever
\* answers arrive late and whatever the turns rotate to; except in a view that
\* sent twice before it had an id.
THEOREM OwnScreenHolds == Spec => []OwnScreen
<1>1. Init => ScreenInv
  BY DEF Init, ScreenInv, SendInv, SoleSend, RowInv
<1>2. ScreenInv => OwnScreen
  BY DEF ScreenInv, RowInv, OwnScreen, Home
<1> QED BY <1>1, <1>2, ScreenNext, Invariance, PTL DEF Spec
=============================================================================
