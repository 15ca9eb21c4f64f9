----------------------- MODULE BrowserSession_proofs ------------------------
(* Theorems about BrowserSession, for any number of friends, tabs, tokens  *)
(* and flows.  The facts about one session, page or response name what     *)
(* they depend on as parameters, so that a step needs only to say what     *)
(* grew.                                                                   *)
EXTENDS BrowserSession, TLAPS

-----------------------------------------------------------------------------
(* The inductive invariant.                                                *)

\* A token goes with the friend it was minted for, and the return target with the flows
\* that no other overtook.
SessionOK(s, own, over) ==
    /\ s \in Sessions
    /\ s.csrf # None => s.who # None /\ own[s.csrf] = s.who
    /\ \A f \in Flows : (f = s.github \/ f \in s.google) => (s.next = Goal[f] \/ f \in over)

PageOK(p, own, over) ==
    /\ p \in Pages
    /\ p.kind = "page" => own[p.token] = p.who
    /\ p.kind = "landed" => (p.to = Goal[p.flow] \/ p.flow \in over)

\* What the mark of a response says of the session it sets.
Marked(r) ==
    /\ r.mark = "out" => r.session = Fresh
    /\ r.mark \in Flows => /\ r.session # Unset
                           /\ r.mark = r.session.github \/ r.mark \in r.session.google
                           /\ r.session.next = Goal[r.mark]

\* Until the cookie changes, an unmarked response sets nothing but a token.
Timely(r, c) ==
    (r.mark = None /\ r.session # Unset /\ ~r.late) =>
        r.session = [c EXCEPT !.csrf = r.session.csrf]

ResponseOK(r, own, over, c) ==
    /\ r \in Responses
    /\ r.session # Unset => SessionOK(r.session, own, over)
    /\ PageOK(r.page, own, over)
    /\ Marked(r)
    /\ Timely(r, c)

\* The tables that grow, apart from the cookie, the pages and the responses.
TablesOK ==
    /\ listed \subseteq Friends
    /\ flow \in [Flows -> {"github", "google", None}]
    /\ owner \in [Tokens -> Friends \cup {None}]
    /\ overtaken \subseteq Flows

LastOK(l, c) ==
    /\ l \in Flows \cup {"out", None}
    /\ l = "out" => c.who = None
    /\ l \in Flows => (l = c.github \/ l \in c.google) /\ c.next = Goal[l]

IInv ==
    /\ TablesOK
    /\ SessionOK(cookie, owner, overtaken)
    /\ LastOK(last, cookie)
    /\ wire \in [Tabs -> Responses \cup {Quiet}]
    /\ \A t \in Tabs : wire[t] # Quiet => ResponseOK(wire[t], owner, overtaken, cookie)
    /\ page \in [Tabs -> Pages]
    /\ \A t \in Tabs : PageOK(page[t], owner, overtaken)

-----------------------------------------------------------------------------
(* Pages, and what growing histories leave true.                           *)

\* What each kind of page holds.
LEMMA PageKinds ==
    ASSUME NEW p \in Pages
    PROVE  /\ p.kind \in {"other", "provider", "landed", "page"}
           /\ p.kind = "provider" => p.flow \in Flows
           /\ p.kind = "landed" => p.flow \in Flows /\ p.to \in Targets
           /\ p.kind = "page" => /\ p.who \in Friends /\ p.token \in Tokens
                                 /\ p = [kind |-> "page", who |-> p.who, token |-> p.token,
                                         note |-> p.note]
                                 /\ p.note \in {"none", "expired", "lost"}
    BY DEF Pages, Elsewhere, At

\* A page without a token or a target is right whatever the histories.
LEMMA PlainPages ==
    ASSUME NEW own, NEW over
    PROVE  /\ PageOK(Elsewhere, own, over)
           /\ \A f \in Flows : PageOK(At(f), own, over)
    BY DEF PageOK, Elsewhere, At, Pages

\* Minted tokens stay their friend's, and flows stay overtaken.
Grown(own, over, own2, over2) ==
    /\ \A c \in Tokens : own[c] \in Friends => own2[c] = own[c]
    /\ over \subseteq over2

LEMMA SessionGrows ==
    ASSUME NEW own, NEW over, NEW own2, NEW over2, Grown(own, over, own2, over2),
           NEW s, SessionOK(s, own, over)
    PROVE  SessionOK(s, own2, over2)
<1>1. s.csrf # None => s.csrf \in Tokens /\ s.who \in Friends
    BY DEF SessionOK, Sessions
<1> QED
    BY <1>1 DEF SessionOK, Grown

LEMMA PageGrows ==
    ASSUME NEW own, NEW over, NEW own2, NEW over2, Grown(own, over, own2, over2),
           NEW p, PageOK(p, own, over)
    PROVE  PageOK(p, own2, over2)
<1>1. p \in Pages
    BY DEF PageOK
<1>2. p.kind = "page" => p.token \in Tokens /\ p.who \in Friends
    BY <1>1, PageKinds
<1> QED
    BY <1>1, <1>2 DEF PageOK, Grown

LEMMA ResponseGrows ==
    ASSUME NEW own, NEW over, NEW own2, NEW over2, Grown(own, over, own2, over2),
           NEW c, NEW r, ResponseOK(r, own, over, c)
    PROVE  ResponseOK(r, own2, over2, c)
    BY SessionGrows, PageGrows DEF ResponseOK

-----------------------------------------------------------------------------
(* Steps.                                                                  *)

\* A handler that answers with a right session and page keeps the invariant, whatever it
\* adds to the histories.
LEMMA AnswerStep ==
    ASSUME IInv, NEW t \in Tabs, NEW s, NEW shows, NEW mark,
           Answer(t, s, shows, mark),
           UNCHANGED <<cookie, page, last>>, TablesOK',
           Grown(owner, overtaken, owner', overtaken'),
           s # Unset => SessionOK(s, owner', overtaken'),
           PageOK(shows, owner', overtaken'),
           mark \in Flows \cup {"out", "in", None},
           mark = "out" => s = Fresh,
           mark \in Flows => s # Unset /\ (mark = s.github \/ mark \in s.google)
                             /\ s.next = Goal[mark],
           (mark = None /\ s # Unset) => s = [cookie EXCEPT !.csrf = s.csrf]
    PROVE  IInv'
<1> DEFINE r == [session |-> s, page |-> shows, mark |-> mark, late |-> FALSE]
<1>1. r \in Responses
    BY DEF Responses, SessionOK, PageOK
<1>2. ResponseOK(r, owner', overtaken', cookie)
    BY <1>1 DEF ResponseOK, Marked, Timely
<1>3. wire' = [wire EXCEPT ![t] = r]
    BY DEF Answer
<1> HIDE DEF r
<1>4. wire' \in [Tabs -> Responses \cup {Quiet}]
    BY <1>1, <1>3 DEF IInv
<1>5. ASSUME NEW u \in Tabs, wire'[u] # Quiet
      PROVE  ResponseOK(wire'[u], owner', overtaken', cookie')
    <2>1. CASE u = t
        BY <1>2, <1>3, <2>1 DEF IInv
    <2>2. CASE u # t
        <3>1. wire'[u] = wire[u] /\ ResponseOK(wire[u], owner, overtaken, cookie)
            BY <1>3, <1>5, <2>2 DEF IInv
        <3> QED
            BY <3>1, ResponseGrows
    <2> QED
        BY <2>1, <2>2
<1>6. \A u \in Tabs : PageOK(page'[u], owner', overtaken')
    BY PageGrows DEF IInv
<1>7. SessionOK(cookie', owner', overtaken')
    BY SessionGrows DEF IInv
<1> QED
    BY <1>4, <1>5, <1>6, <1>7 DEF IInv

\* The same for handlers that touch no history.
LEMMA QuietStep ==
    ASSUME IInv, NEW t \in Tabs, NEW s, NEW shows, NEW mark,
           Answer(t, s, shows, mark),
           UNCHANGED <<sessionVars, flow, history>>,
           s # Unset => SessionOK(s, owner, overtaken),
           PageOK(shows, owner, overtaken),
           mark \in {"out", "in", None},
           mark = "out" => s = Fresh,
           (mark = None /\ s # Unset) => s = [cookie EXCEPT !.csrf = s.csrf]
    PROVE  IInv'
<1>1. TablesOK' /\ Grown(owner, overtaken, owner', overtaken')
    BY DEF IInv, TablesOK, Grown, sessionVars, history
<1>2. mark \notin Flows
    BY NamesAssumption
<1> QED
    BY <1>1, <1>2, AnswerStep DEF sessionVars, history

\* A handler that leaves the session alone.
LEMMA LeaveStep ==
    ASSUME IInv, NEW t \in Tabs, NEW shows, Leave(t, shows),
           UNCHANGED <<sessionVars, flow, history>>, PageOK(shows, owner, overtaken)
    PROVE  IInv'
<1>1. PICK s \in Unchanged : Answer(t, s, shows, None)
    BY DEF Leave
<1>2. s = Unset \/ s = cookie
    BY DEF Unchanged
<1>3. cookie = [cookie EXCEPT !.csrf = cookie.csrf] /\ SessionOK(cookie, owner, overtaken)
    BY DEF IInv, SessionOK, Sessions
<1> QED
    BY <1>1, <1>2, <1>3, QuietStep, NamesAssumption

\* The session that changes the cookie: every response that waits becomes late.
LEMMA OvertakeStep ==
    ASSUME IInv, NEW tabs \in SUBSET Tabs, Overtake(tabs),
           UNCHANGED <<owner, overtaken>>
    PROVE  /\ wire' \in [Tabs -> Responses \cup {Quiet}]
           /\ \A t \in Tabs : wire'[t] # Quiet =>
                                  ResponseOK(wire'[t], owner', overtaken', cookie')
<1> SUFFICES ASSUME NEW t \in Tabs
             PROVE  /\ wire'[t] \in Responses \cup {Quiet}
                    /\ wire'[t] # Quiet =>
                           ResponseOK(wire'[t], owner, overtaken, cookie')
    BY DEF Overtake
<1>1. wire'[t] = IF t \notin tabs THEN Quiet
                 ELSE IF Late(t) THEN [wire[t] EXCEPT !.late = TRUE] ELSE wire[t]
    BY DEF Overtake
<1>2. CASE t \notin tabs \/ wire[t] = Quiet
    BY <1>1, <1>2 DEF Late
<1>3. CASE t \in tabs /\ wire[t] # Quiet /\ Late(t)
    <2> DEFINE r == wire[t]
    <2> DEFINE r2 == [r EXCEPT !.late = TRUE]
    <2>1. r \in Responses /\ ResponseOK(r, owner, overtaken, cookie)
        BY <1>3 DEF IInv
    <2>2. /\ r2 \in Responses /\ r2.session = r.session /\ r2.page = r.page
          /\ r2.mark = r.mark /\ r2.late = TRUE
        BY <2>1 DEF Responses
    <2>3. wire'[t] = r2
        BY <1>1, <1>3
    <2> HIDE DEF r, r2
    <2>4. ResponseOK(r2, owner, overtaken, cookie')
        BY <2>1, <2>2 DEF ResponseOK, Marked, Timely
    <2> QED
        BY <2>2, <2>3, <2>4
<1>4. CASE t \in tabs /\ wire[t] # Quiet /\ ~Late(t)
    <2>1. wire'[t] = wire[t]
        BY <1>1, <1>4
    <2>2. wire[t] \in Responses /\ ResponseOK(wire[t], owner, overtaken, cookie)
        BY <1>4 DEF IInv
    <2>3. Timely(wire[t], cookie')
        BY <1>4, <2>2 DEF ResponseOK, Timely, Late
    <2> QED
        BY <2>1, <2>2, <2>3 DEF ResponseOK
<1> QED
    BY <1>2, <1>3, <1>4

LEMMA ArriveStep ==
    ASSUME IInv, NEW t \in Tabs, Arrive(t)
    PROVE  IInv'
<1> DEFINE r == wire[t]
<1>1. /\ r # Quiet
      /\ cookie' = IF r.session = Unset THEN cookie ELSE r.session
      /\ page' = [page EXCEPT ![t] = r.page]
      /\ last' = IF r.mark = "in" \/ r.late THEN None
                 ELSE IF r.mark # None THEN r.mark ELSE last
      /\ Overtake(Tabs \ {t})
      /\ UNCHANGED <<listed, flow, owner, overtaken>>
    BY DEF Arrive
<1>2. r \in Responses /\ ResponseOK(r, owner, overtaken, cookie)
    BY <1>1 DEF IInv
<1> HIDE DEF r
<1>3. /\ wire' \in [Tabs -> Responses \cup {Quiet}]
      /\ \A u \in Tabs : wire'[u] # Quiet => ResponseOK(wire'[u], owner', overtaken', cookie')
    BY <1>1, OvertakeStep
<1>4. SessionOK(cookie', owner', overtaken')
    BY <1>1, <1>2 DEF IInv, ResponseOK
<1>5. page' \in [Tabs -> Pages] /\ \A u \in Tabs : PageOK(page'[u], owner', overtaken')
    BY <1>1, <1>2 DEF IInv, ResponseOK, PageOK
<1>6. LastOK(last', cookie')
    <2>1. r.mark \in Flows \cup {"out", "in", None} /\ r.late \in BOOLEAN
        BY <1>2 DEF Responses
    <2>2. CASE r.mark = "in" \/ r.late
        BY <1>1, <2>2, NamesAssumption DEF LastOK
    <2>3. CASE ~r.late /\ r.mark = "out"
        <3>1. Marked(r) /\ last' = "out" /\ cookie' = Fresh
            BY <1>1, <1>2, <2>3, UnsetAssumption, NamesAssumption
               DEF ResponseOK, Marked, LastOK, Fresh, Sessions
        <3> QED
            BY <3>1, NamesAssumption DEF LastOK, Fresh
    <2>4. CASE ~r.late /\ r.mark \in Flows
        <3>1. Marked(r) /\ last' = r.mark /\ cookie' = r.session
            BY <1>1, <1>2, <2>4, NamesAssumption DEF ResponseOK, Marked
        <3> QED
            BY <2>4, <3>1, NamesAssumption DEF LastOK, Marked
    <2>5. CASE ~r.late /\ r.mark = None
        <3>1. last' = last /\ LastOK(last, cookie)
            BY <1>1, <2>5, NamesAssumption DEF IInv
        <3>2. cookie' = cookie \/ \E k : cookie' = [cookie EXCEPT !.csrf = k]
            BY <1>1, <1>2, <2>5 DEF ResponseOK, Timely
        <3>3. cookie \in Sessions
            BY DEF IInv, SessionOK
        <3>4. /\ cookie'.who = cookie.who /\ cookie'.github = cookie.github
              /\ cookie'.google = cookie.google /\ cookie'.next = cookie.next
            BY <3>2, <3>3 DEF Sessions
        <3> QED
            BY <3>1, <3>4 DEF LastOK
    <2> QED
        BY <2>1, <2>2, <2>3, <2>4, <2>5
<1> QED
    BY <1>1, <1>3, <1>4, <1>5, <1>6 DEF IInv, TablesOK

LEMMA LoseStep ==
    ASSUME IInv, NEW t \in Tabs, Lose(t)
    PROVE  IInv'
    BY DEF IInv, Lose, TablesOK, sessionVars, history, ResponseOK

LEMMA ExpireStep ==
    ASSUME IInv, Expire
    PROVE  IInv'
<1>1. /\ wire' \in [Tabs -> Responses \cup {Quiet}]
      /\ \A u \in Tabs : wire'[u] # Quiet => ResponseOK(wire'[u], owner', overtaken', cookie')
    BY OvertakeStep DEF Expire
<1>2. SessionOK(cookie', owner', overtaken')
    BY NamesAssumption DEF Expire, SessionOK, Fresh, Sessions
<1>3. LastOK(last', cookie')
    BY NamesAssumption DEF Expire, LastOK
<1> QED
    BY <1>1, <1>2, <1>3 DEF IInv, Expire, TablesOK

LEMMA AllowlistChangeStep ==
    ASSUME IInv, NEW p \in Friends, AllowlistChange(p)
    PROVE  IInv'
    BY DEF IInv, AllowlistChange, TablesOK, history

-----------------------------------------------------------------------------
(* Handlers.                                                               *)

\* A page with the session's own token.
LEMMA ShownPage ==
    ASSUME NEW own, NEW over, NEW p \in Friends, NEW c \in Tokens, own[c] = p
    PROVE  PageOK(Shown(p, c), own, over)
    BY DEF PageOK, Shown, Pages

\* An empty session, and one that only names a friend, are right.
LEMMA EmptySession ==
    ASSUME NEW own, NEW over
    PROVE  /\ SessionOK(Fresh, own, over)
           /\ \A s, p : p \in Friends => SessionOK(SignedIn(s, p), own, over)
<1>1. SessionOK(Fresh, own, over)
    BY NamesAssumption DEF SessionOK, Fresh, Sessions
<1>2. ASSUME NEW s, NEW p \in Friends
      PROVE  SessionOK(SignedIn(s, p), own, over)
    BY NamesAssumption DEF SessionOK, SignedIn, Fresh, Sessions
<1> QED
    BY <1>1, <1>2

LEMMA ViewStep ==
    ASSUME IInv, NEW t \in Tabs, NEW consent \in BOOLEAN, View(t, consent)
    PROVE  IInv'
<1>1. /\ cookie.who \in Friends /\ cookie.csrf \in Tokens
      /\ owner[cookie.csrf] = cookie.who
    BY DEF View, Visible, IInv, SessionOK, Sessions
<1>2. PageOK(Shown(cookie.who, cookie.csrf), owner, overtaken)
    BY <1>1, ShownPage
<1> QED
    BY <1>2, LeaveStep DEF View

LEMMA ViewAndMintStep ==
    ASSUME IInv, NEW t \in Tabs, NEW consent \in BOOLEAN, ViewAndMint(t, consent)
    PROVE  IInv'
<1>1. PICK c \in Tokens :
          /\ owner[c] = None
          /\ owner' = [owner EXCEPT ![c] = cookie.who]
          /\ Answer(t, [cookie EXCEPT !.csrf = c], Shown(cookie.who, c), None)
    BY DEF ViewAndMint
<1> DEFINE s == [cookie EXCEPT !.csrf = c]
<1>2. cookie.who \in Friends /\ cookie \in Sessions
    BY DEF ViewAndMint, Visible, IInv, SessionOK, Sessions
<1>3. /\ s \in Sessions /\ s.csrf = c /\ s.who = cookie.who /\ s.github = cookie.github
      /\ s.google = cookie.google /\ s.next = cookie.next
    BY <1>2 DEF Sessions
<1>4. UNCHANGED <<cookie, page, listed, flow, last, overtaken>>
    BY DEF ViewAndMint, sessionVars
<1>5. TablesOK' /\ owner'[c] = cookie.who
    BY <1>1, <1>2, <1>4 DEF IInv, TablesOK
<1>6. Grown(owner, overtaken, owner', overtaken')
    BY <1>1, <1>4, NamesAssumption DEF Grown, IInv, TablesOK
<1>7. SessionOK(s, owner', overtaken')
    BY <1>2, <1>3, <1>4, <1>5, NamesAssumption DEF IInv, SessionOK
<1>8. PageOK(Shown(cookie.who, c), owner', overtaken')
    BY <1>2, <1>5, ShownPage
<1>9. Answer(t, s, Shown(cookie.who, c), None) /\ s = [cookie EXCEPT !.csrf = s.csrf]
    BY <1>1, <1>3
<1> HIDE DEF s
<1> QED
    BY <1>4, <1>5, <1>6, <1>7, <1>8, <1>9, AnswerStep, NamesAssumption

LEMMA TurnedAwayStep ==
    ASSUME IInv, NEW t \in Tabs, TurnedAway(t)
    PROVE  IInv'
    BY PlainPages, LeaveStep DEF TurnedAway

LEMMA ActStep ==
    ASSUME IInv, NEW t \in Tabs, Act(t)
    PROVE  IInv'
<1>1. /\ page[t] \in Pages /\ page[t].kind = "page" /\ owner[page[t].token] = page[t].who
      /\ page[t].note \in {"none", "expired", "lost"}
    BY PageKinds DEF Act, IInv, PageOK
<1>2. ASSUME NEW note \in {"none", "expired", "lost"}
      PROVE  PageOK([page[t] EXCEPT !.note = note], owner, overtaken)
    <2>1. [page[t] EXCEPT !.note = note] =
              [kind |-> "page", who |-> page[t].who, token |-> page[t].token, note |-> note]
        BY <1>1, PageKinds
    <2> QED
        BY <1>1, <2>1, PageKinds DEF PageOK, Pages
<1>3. PICK note \in {"none", "expired", "lost"} : Leave(t, [page[t] EXCEPT !.note = note])
    BY <1>1 DEF Act
<1>4. PageOK([page[t] EXCEPT !.note = note], owner, overtaken)
    BY <1>2
<1> QED
    BY <1>3, <1>4, LeaveStep DEF Act

\* Beginning a flow: the flows it overtakes need no longer return to their page.
LEMMA BeginStep ==
    ASSUME IInv, NEW t \in Tabs, NEW provider \in {"github", "google"}, Begin(t, provider)
    PROVE  IInv'
<1>1. PICK f \in Flows : Begun(t, f, provider, At(f), f)
    BY DEF Begin
<1> DEFINE s == WithFlow(cookie, f, provider)
<1>2. cookie \in Sessions
    BY DEF IInv, SessionOK
<1>3. /\ s \in Sessions /\ s.csrf = cookie.csrf /\ s.who = cookie.who /\ s.next = Goal[f]
      /\ f = s.github \/ f \in s.google
      /\ s.github \in {f, cookie.github} /\ s.google \subseteq cookie.google \cup {f}
    BY <1>2, NamesAssumption DEF WithFlow, Sessions
<1> HIDE DEF s
<1>4. /\ UNCHANGED <<cookie, page, listed, owner, last>>
      /\ flow' = [flow EXCEPT ![f] = provider]
      /\ overtaken' = overtaken \cup (Pending(cookie) \cap Flows)
      /\ Answer(t, s, At(f), f)
    BY <1>1 DEF Begin, Begun, sessionVars, s
<1>5. TablesOK' /\ Grown(owner, overtaken, owner', overtaken')
    BY <1>4 DEF IInv, TablesOK, Grown
<1>6. SessionOK(s, owner', overtaken')
    BY <1>2, <1>3, <1>4 DEF IInv, SessionOK, Pending
<1>7. PageOK(At(f), owner', overtaken')
    BY PlainPages
<1>8. s # Unset /\ f \notin {"out", None}
    BY <1>3, UnsetAssumption, NamesAssumption
<1> QED
    BY <1>3, <1>4, <1>5, <1>6, <1>7, <1>8, AnswerStep

LEMMA SpeculateStep ==
    ASSUME IInv, NEW t \in Tabs, NEW provider \in {"github", "google"},
           Speculate(t, provider)
    PROVE  IInv'
    BY LeaveStep DEF Speculate, IInv

\* A completed sign-in returns to a page that is right when its flow was pending.
LEMMA LandedPage ==
    ASSUME IInv, NEW f \in Flows, f = cookie.github \/ f \in cookie.google
    PROVE  PageOK(Landed(f, Target(cookie)), owner, overtaken)
<1>1. cookie.next \in Targets \cup {None} /\ (cookie.next = Goal[f] \/ f \in overtaken)
    BY DEF IInv, SessionOK, Sessions
<1>2. Goal[f] \in Targets /\ Default \in Targets /\ None \notin Targets
    BY NamesAssumption
<1> QED
    BY <1>1, <1>2 DEF PageOK, Landed, Target, Pages

LEMMA SignInStep ==
    ASSUME IInv, NEW t \in Tabs, NEW p \in Friends, NEW f \in Flows,
           f = cookie.github \/ f \in cookie.google,
           Answer(t, SignedIn(cookie, p), Landed(f, Target(cookie)), "in"),
           UNCHANGED <<sessionVars, flow, history>>
    PROVE  IInv'
    BY EmptySession, LandedPage, QuietStep, NamesAssumption

LEMMA GithubCallbackStep ==
    ASSUME IInv, NEW t \in Tabs, NEW p \in Friends, GithubCallback(t, p)
    PROVE  IInv'
<1>1. page[t].flow \in Flows
    BY PageKinds DEF GithubCallback, Returns, IInv
<1>2. CASE cookie.github = page[t].flow /\ p \in listed
    BY <1>1, <1>2, SignInStep DEF GithubCallback
<1>3. CASE ~(cookie.github = page[t].flow /\ p \in listed)
    BY <1>3, PlainPages, LeaveStep DEF GithubCallback
<1> QED
    BY <1>2, <1>3

LEMMA GoogleCallbackStep ==
    ASSUME IInv, NEW t \in Tabs, NEW p \in Friends, GoogleCallback(t, p)
    PROVE  IInv'
<1>1. page[t].flow \in Flows
    BY PageKinds DEF GoogleCallback, Returns, IInv
<1>2. CASE page[t].flow \notin cookie.google
    BY <1>2, PlainPages, LeaveStep DEF GoogleCallback
<1>3. CASE page[t].flow \in cookie.google /\ p \in listed
    BY <1>1, <1>3, SignInStep DEF GoogleCallback
<1>4. CASE page[t].flow \in cookie.google /\ p \notin listed
    <2> DEFINE s == [cookie EXCEPT !.google = @ \ {page[t].flow}]
    <2>1. cookie \in Sessions /\ SessionOK(cookie, owner, overtaken)
        BY DEF IInv, SessionOK
    <2>2. /\ s \in Sessions /\ s.csrf = cookie.csrf /\ s.who = cookie.who
          /\ s.github = cookie.github /\ s.google \subseteq cookie.google
          /\ s.next = cookie.next
        BY <2>1 DEF Sessions
    <2>3. Answer(t, s, Elsewhere, "in") /\ UNCHANGED <<sessionVars, flow, history>>
        BY <1>4 DEF GoogleCallback
    <2> HIDE DEF s
    <2>4. SessionOK(s, owner, overtaken)
        BY <2>1, <2>2 DEF SessionOK
    <2> QED
        BY <2>3, <2>4, PlainPages, QuietStep, NamesAssumption
<1> QED
    BY <1>2, <1>3, <1>4

LEMMA CallbackFailsStep ==
    ASSUME IInv, NEW t \in Tabs, CallbackFails(t)
    PROVE  IInv'
    BY PlainPages, QuietStep, NamesAssumption DEF CallbackFails

LEMMA LogoutStep ==
    ASSUME IInv, NEW t \in Tabs, Logout(t)
    PROVE  IInv'
<1>1. CASE Accepted(t)
    BY <1>1, EmptySession, PlainPages, QuietStep, NamesAssumption DEF Logout, SignedOut
<1>2. CASE ~Accepted(t)
    BY <1>2, LeaveStep DEF Logout, IInv
<1> QED
    BY <1>1, <1>2

-----------------------------------------------------------------------------
(* The theorems.                                                           *)

LEMMA InitInv == Init => IInv
<1> SUFFICES ASSUME Init
             PROVE  IInv
    OBVIOUS
<1>1. SessionOK(cookie, owner, overtaken)
    BY EmptySession DEF Init
<1>2. TablesOK /\ LastOK(last, cookie)
    BY NamesAssumption DEF Init, TablesOK, LastOK
<1>3. page \in [Tabs -> Pages] /\ \A t \in Tabs : PageOK(page[t], owner, overtaken)
    BY PlainPages DEF Init, PageOK
<1> QED
    BY <1>1, <1>2, <1>3 DEF IInv, Init

LEMMA NextInv == IInv /\ [Next]_vars => IInv'
<1> SUFFICES ASSUME IInv, [Next]_vars
             PROVE  IInv'
    OBVIOUS
<1>1. CASE UNCHANGED vars
    BY <1>1 DEF vars, sessionVars, history, IInv, TablesOK
<1>2. ASSUME NEW p \in Friends, AllowlistChange(p)
      PROVE  IInv'
    BY <1>2, AllowlistChangeStep
<1>3. ASSUME NEW t \in Tabs,
             Arrive(t) \/ Lose(t) \/ Act(t) \/ Logout(t) \/ CallbackFails(t) \/ TurnedAway(t)
      PROVE  IInv'
    BY <1>3, ArriveStep, LoseStep, ActStep, LogoutStep, CallbackFailsStep, TurnedAwayStep
<1>4. ASSUME NEW t \in Tabs, NEW consent \in BOOLEAN,
             View(t, consent) \/ ViewAndMint(t, consent)
      PROVE  IInv'
    BY <1>4, ViewStep, ViewAndMintStep
<1>5. ASSUME NEW t \in Tabs, NEW provider \in {"github", "google"},
             Begin(t, provider) \/ Speculate(t, provider)
      PROVE  IInv'
    BY <1>5, BeginStep, SpeculateStep
<1>6. ASSUME NEW t \in Tabs, NEW p \in Friends,
             GithubCallback(t, p) \/ GoogleCallback(t, p)
      PROVE  IInv'
    BY <1>6, GithubCallbackStep, GoogleCallbackStep
<1> QED
    BY <1>1, <1>2, <1>3, <1>4, <1>5, <1>6, ExpireStep DEF Next

THEOREM SpecInv == Spec => []IInv
    BY InitInv, NextInv, PTL DEF Spec

\* Sessions, responses, pages and histories are well typed, and no copy of the session
\* holds a token without a friend (create_app, ensure_csrf_token).
THEOREM TypeCorrect == Spec => []TypeOK
<1>1. IInv => TypeOK
    BY DEF IInv, TypeOK, TokenOfFriend, SessionOK, ResponseOK, TablesOK, LastOK
<1> QED
    BY <1>1, SpecInv, PTL

\* The token of a page is accepted with no other friend's session, whatever the order in
\* which responses arrive (require_csrf, require_csrf_form, auth_callback).
THEOREM PagesActForTheirFriend == Spec => []ActsForPage
<1>1. IInv => ActsForPage
    BY DEF IInv, ActsForPage, Accepted, SessionOK, PageOK
<1> QED
    BY <1>1, SpecInv, PTL

\* Nothing but what the history names undoes a logout, or the flow begun last (auth_logout,
\* auth_login, auth_google_login, _is_prefetch).
THEOREM LastAnswerStands == Spec => []LastAnswerHolds
<1>1. IInv => LastAnswerHolds
    BY DEF IInv, LastAnswerHolds, LastOK, Pending
<1> QED
    BY <1>1, SpecInv, PTL

\* A sign-in returns to the page it was begun for, unless another flow was begun during
\* it (auth_callback, auth_google_callback, safe_next).
THEOREM SignInReturns == Spec => []ReturnsToItsPage
<1>1. IInv => ReturnsToItsPage
    BY DEF IInv, ReturnsToItsPage, PageOK
<1> QED
    BY <1>1, SpecInv, PTL
=============================================================================
