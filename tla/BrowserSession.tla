--------------------------- MODULE BrowserSession ---------------------------
(***************************************************************************)
(* The web session: a signed cookie that one browser shares between its    *)
(* tabs.  The server keeps nothing: a request carries the cookie as it     *)
(* stood when it was sent, the handler computes a session from that copy,  *)
(* and the response replaces the whole cookie when it arrives, in whatever *)
(* order responses arrive (app.py, auth/session.py, web/csrf.py,           *)
(* oauth/consent.py).                                                      *)
(*                                                                         *)
(* What a handler finds does not depend on when it runs, but for the       *)
(* allowlist; so sending a request and handling it are one step here, and  *)
(* the arrival of its response another.  A tab has one request under way;  *)
(* an abandoned one is a tab of its own.  Whether the framework sends an   *)
(* unchanged session again depends on its version: here it may.            *)
(*                                                                         *)
(* Authlib keeps the state of each Google flow under a key of its own, the *)
(* GitHub flow has one key, and both share post_login_next.                *)
(***************************************************************************)
CONSTANTS
    Friends,
    Provider,       \* "github" or "google", for each friend
    Tabs,
    Tokens,         \* CSRF tokens the server may mint
    Flows,          \* states of sign-in flows the server may mint
    Targets,        \* pages a sign-in may return to
    Goal,           \* the page each flow is begun for
    Default,        \* the page a sign-in returns to when none is named
    None,
    Quiet,          \* no request under way
    Unset           \* a response without Set-Cookie

ASSUME NamesAssumption ==
    /\ Provider \in [Friends -> {"github", "google"}]
    /\ Goal \in [Flows -> Targets] /\ Default \in Targets
    /\ None \notin Friends \cup Tokens \cup Flows \cup Targets
    /\ None \notin {"out", "in"} /\ "out" \notin Flows /\ "in" \notin Flows

VARIABLES
    cookie,         \* the session as the browser holds it
    wire,           \* the response each tab waits for
    page,           \* what each tab shows
    listed,         \* friends on the allowlist
    flow,           \* provider of each flow begun
    owner,          \* history: whom each token was minted for
    last,           \* history: what the cookie last came from, if nothing overtook it
    overtaken       \* history: flows during which another was begun

sessionVars == <<cookie, page, listed>>
history == <<owner, last, overtaken>>
vars == <<sessionVars, wire, flow, history>>

\* github_login, csrf_token, oauth_state, Authlib's states, post_login_next.
Sessions == [who : Friends \cup {None}, csrf : Tokens \cup {None}, github : Flows \cup {None},
             google : SUBSET Flows, next : Targets \cup {None}]
Fresh == [who |-> None, csrf |-> None, github |-> None, google |-> {}, next |-> None]

ASSUME UnsetAssumption == Unset \notin Sessions

\* What a tab shows: a page with a token (which forms it has makes no difference), the
\* provider's form, the page a sign-in returned to, or something without a token.
Shown(p, c) == [kind |-> "page", who |-> p, token |-> c, note |-> "none"]
At(f) == [kind |-> "provider", flow |-> f]
Landed(f, to) == [kind |-> "landed", flow |-> f, to |-> to]
Elsewhere == [kind |-> "other"]

Init ==
    /\ cookie = Fresh
    /\ wire = [t \in Tabs |-> Quiet]
    /\ page = [t \in Tabs |-> Elsewhere]
    /\ listed = Friends
    /\ flow = [f \in Flows |-> None]
    /\ owner = [c \in Tokens |-> None]
    /\ last = None
    /\ overtaken = {}

-----------------------------------------------------------------------------
(* Requests and responses                                                  *)

Answer(t, session, shows, mark) ==
    wire' = [wire EXCEPT ![t] =
                [session |-> session, page |-> shows, mark |-> mark, late |-> FALSE]]

\* An empty session that stays empty is never sent.
Unchanged == IF cookie = Fresh THEN {Unset} ELSE {Unset, cookie}
Leave(t, shows) == \E s \in Unchanged : Answer(t, s, shows, None)

\* A response that arrives after the cookie has changed puts an earlier session back.
Late(t) ==
    wire[t] # Quiet /\ wire[t].session # Unset /\ wire[t].mark = None /\ cookie' # cookie
Overtake(tabs) ==
    wire' = [t \in Tabs |-> IF t \notin tabs THEN Quiet
                           ELSE IF Late(t) THEN [wire[t] EXCEPT !.late = TRUE] ELSE wire[t]]

Arrive(t) ==
    /\ wire[t] # Quiet
    /\ LET r == wire[t] IN
         /\ cookie' = IF r.session = Unset THEN cookie ELSE r.session
         /\ page' = [page EXCEPT ![t] = r.page]
         /\ last' = IF r.mark = "in" \/ r.late THEN None
                    ELSE IF r.mark # None THEN r.mark ELSE last
    /\ Overtake(Tabs \ {t})
    /\ UNCHANGED <<listed, flow, owner, overtaken>>

Lose(t) ==
    /\ wire[t] # Quiet
    /\ wire' = [wire EXCEPT ![t] = Quiet]
    /\ UNCHANGED <<sessionVars, flow, history>>

-----------------------------------------------------------------------------
(* Pages                                                                   *)

\* session_login asks the allowlist; the consent page asks later, when it issues.
\* Mutant of Visible: the token is minted for every visitor.
VisibleToAnyone(consent) == TRUE
Visible(consent) == cookie.who # None /\ (consent \/ cookie.who \in listed)

\* ensure_csrf_token keeps the token there is.
View(t, consent) ==
    /\ wire[t] = Quiet
    /\ Visible(consent) /\ cookie.csrf # None
    /\ Leave(t, Shown(cookie.who, cookie.csrf))
    /\ UNCHANGED <<sessionVars, flow, history>>

ViewAndMint(t, consent) ==
    /\ wire[t] = Quiet
    /\ Visible(consent) /\ cookie.csrf = None
    /\ \E c \in Tokens :
         /\ owner[c] = None
         /\ owner' = [owner EXCEPT ![c] = cookie.who]
         /\ Answer(t, [cookie EXCEPT !.csrf = c], Shown(cookie.who, c), None)
    /\ UNCHANGED <<sessionVars, flow, last, overtaken>>

\* A public page, the way to sign in, or any request that reads no session.
TurnedAway(t) ==
    /\ wire[t] = Quiet
    /\ Leave(t, Elsewhere)
    /\ UNCHANGED <<sessionVars, flow, history>>

Accepted(t) == cookie.csrf # None /\ cookie.csrf = page[t].token

\* An upload or account call: the session first (401), then the token (403).  A page
\* told to sign in again and then refused, with its friend signed in, has lost its work.
Act(t) ==
    /\ wire[t] = Quiet /\ page[t].kind = "page"
    /\ LET note == IF cookie.who = None \/ cookie.who \notin listed THEN "expired"
                   ELSE IF Accepted(t) THEN "none"
                   ELSE IF page[t].note = "expired" /\ cookie.who = page[t].who THEN "lost"
                   ELSE page[t].note
       IN Leave(t, [page[t] EXCEPT !.note = note])
    /\ UNCHANGED <<sessionVars, flow, history>>

\* The consent form goes by the raw principal and asks the allowlist last; whatever the
\* outcome, the session stays and another page comes: TurnedAway.

-----------------------------------------------------------------------------
(* Signing in and out                                                      *)

Pending(s) == {s.github} \cup s.google
WithFlow(s, f, provider) ==
    IF provider = "github" THEN [s EXCEPT !.github = f, !.next = Goal[f]]
    ELSE [s EXCEPT !.google = @ \cup {f}, !.next = Goal[f]]

Begun(t, f, provider, shows, mark) ==
    /\ flow[f] = None
    /\ flow' = [flow EXCEPT ![f] = provider]
    /\ overtaken' = overtaken \cup (Pending(cookie) \cap Flows)
    /\ Answer(t, WithFlow(cookie, f, provider), shows, mark)

Begin(t, provider) ==
    /\ wire[t] = Quiet
    /\ \E f \in Flows : Begun(t, f, provider, At(f), f)
    /\ UNCHANGED <<sessionVars, owner, last>>

\* A speculative load of the same link is answered 204 and shows nothing.
\* Mutant: it begins a flow.
SpeculateBegins(t, provider) ==
    /\ wire[t] = Quiet
    /\ \E f \in Flows : Begun(t, f, provider, page[t], None)
    /\ UNCHANGED <<sessionVars, owner, last>>
Speculate(t, provider) ==
    /\ wire[t] = Quiet
    /\ Leave(t, page[t])
    /\ UNCHANGED <<sessionVars, flow, history>>

\* Mutant of Target: the session is cleared before it is read.
TargetCleared(s) == Default
Target(s) == IF s.next = None THEN Default ELSE s.next

\* Mutant of SignedIn: the session is not cleared.
SignedInKeeping(s, p) == [s EXCEPT !.who = p]
SignedIn(s, p) == [Fresh EXCEPT !.who = p]

Returns(t, p) == wire[t] = Quiet /\ page[t].kind = "provider" /\ flow[page[t].flow] = Provider[p]

\* A friend who is not listed sees the restricted page and keeps the state.
GithubCallback(t, p) ==
    /\ Returns(t, p) /\ Provider[p] = "github"
    /\ LET f == page[t].flow IN
         IF cookie.github = f /\ p \in listed
         THEN Answer(t, SignedIn(cookie, p), Landed(f, Target(cookie)), "in")
         ELSE Leave(t, Elsewhere)
    /\ UNCHANGED <<sessionVars, flow, history>>

\* Authlib takes its state out of the session before the identity is looked at.
GoogleCallback(t, p) ==
    /\ Returns(t, p) /\ Provider[p] = "google"
    /\ LET f == page[t].flow IN
         IF f \notin cookie.google THEN Leave(t, Elsewhere)
         ELSE IF p \in listed
         THEN Answer(t, SignedIn(cookie, p), Landed(f, Target(cookie)), "in")
         ELSE Answer(t, [cookie EXCEPT !.google = @ \ {f}], Elsewhere, "in")
    /\ UNCHANGED <<sessionVars, flow, history>>

\* The provider did not answer, or the code was already exchanged: a 500, without cookie.
CallbackFails(t) ==
    /\ wire[t] = Quiet /\ page[t].kind = "provider"
    /\ Answer(t, Unset, Elsewhere, None)
    /\ UNCHANGED <<sessionVars, flow, history>>

SignedOut(s) == Fresh

Logout(t) ==
    /\ wire[t] = Quiet /\ page[t].kind = "page"
    /\ IF Accepted(t)
       THEN Answer(t, SignedOut(cookie), Elsewhere, "out")
       ELSE Leave(t, page[t])
    /\ UNCHANGED <<sessionVars, flow, history>>

-----------------------------------------------------------------------------
(* Time and the operator                                                   *)

Expire ==
    /\ cookie # Fresh
    /\ cookie' = Fresh /\ last' = None
    /\ Overtake(Tabs)
    /\ UNCHANGED <<page, listed, flow, owner, overtaken>>

AllowlistChange(p) ==
    /\ listed' = IF p \in listed THEN listed \ {p} ELSE listed \cup {p}
    /\ UNCHANGED <<cookie, page, wire, flow, history>>

Next ==
    \/ Expire
    \/ \E p \in Friends : AllowlistChange(p)
    \/ \E t \in Tabs :
        \/ Arrive(t) \/ Lose(t)
        \/ Act(t) \/ Logout(t) \/ CallbackFails(t) \/ TurnedAway(t)
        \/ \E consent \in BOOLEAN : View(t, consent) \/ ViewAndMint(t, consent)
        \/ \E provider \in {"github", "google"} : Begin(t, provider) \/ Speculate(t, provider)
        \/ \E p \in Friends : GithubCallback(t, p) \/ GoogleCallback(t, p)

Spec == Init /\ [][Next]_vars
-----------------------------------------------------------------------------
(* Properties                                                              *)

Pages ==
    {Elsewhere} \cup {At(f) : f \in Flows}
    \cup [kind : {"landed"}, flow : Flows, to : Targets]
    \cup [kind : {"page"}, who : Friends, token : Tokens, note : {"none", "expired", "lost"}]
Responses == [session : Sessions \cup {Unset}, page : Pages, mark : Flows \cup {"out", "in", None},
              late : BOOLEAN]
TokenOfFriend(s) == s.csrf # None => s.who # None

\* Sessions, responses and pages are well typed, and no copy of the session holds a
\* token without a friend: a visitor gets no cookie for looking (app.py, landing).
TypeOK ==
    /\ cookie \in Sessions /\ TokenOfFriend(cookie)
    /\ wire \in [Tabs -> Responses \cup {Quiet}]
    /\ \A t \in Tabs : (wire[t] # Quiet /\ wire[t].session # Unset) =>
                           TokenOfFriend(wire[t].session)
    /\ page \in [Tabs -> Pages]
    /\ listed \subseteq Friends
    /\ flow \in [Flows -> {"github", "google", None}]
    /\ owner \in [Tokens -> Friends \cup {None}]
    /\ last \in Flows \cup {"out", None}
    /\ overtaken \subseteq Flows

\* A page acts only as the friend it was shown to: whoever signs in meanwhile in another
\* tab, and in whatever order the responses arrive, the token of a page is accepted with
\* no other friend's session (require_csrf, require_csrf_form).
ActsForPage ==
    \A t \in Tabs : (page[t].kind = "page" /\ Accepted(t)) => cookie.who = page[t].who

\* What the browser was last answered holds until something else is: after a logout it is
\* signed out, and the flow begun last can be completed, with the page it was begun for.
\* No speculative load and no page of another tab undoes either; only a late response to a
\* request with the old cookie, a sign-in, another flow or the cookie's expiry does.
LastAnswerHolds ==
    /\ last = "out" => cookie.who = None
    /\ last \in Flows => last \in Pending(cookie) /\ cookie.next = Goal[last]

\* A sign-in returns to the page it was begun for, unless another flow was begun
\* during it (the two providers share post_login_next).
ReturnsToItsPage ==
    \A t \in Tabs : page[t].kind = "landed" =>
        (page[t].to = Goal[page[t].flow] \/ page[t].flow \in overtaken)

\* "re-auth in a new tab and resubmit (error contract: 401 mid-review)" (upload.js).
ResubmitAccepted == \A t \in Tabs : page[t].kind = "page" => page[t].note # "lost"
=============================================================================
