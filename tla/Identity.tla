------------------------------ MODULE Identity ------------------------------
(***************************************************************************)
(* Who is a friend: the allowlist file, the pins that bind a Google        *)
(* subject to the mailbox it was invited by, sign-in, and the removal of a *)
(* friend with what it must take away.                                     *)
(*                                                                         *)
(* The web server only reads the file and adds pins and grants; its        *)
(* handlers do not suspend between those, so one sign-in, consent,         *)
(* exchange or rotation at a time is under way (srv).  The commands        *)
(* `allowlist add` and `allowlist remove` are processes of their own       *)
(* (cmd): each reads the file, truncates it, writes it back, and a removal *)
(* goes on to the pin and the OAuth grants.  Nothing locks the file, and   *)
(* commands run between any two steps of a handler.                        *)
(*                                                                         *)
(* OAuthGrants has the grants in detail.  Here a principal is in offers    *)
(* while it has an unexchanged code, in grants while it has a live refresh *)
(* family.                                                                 *)
(***************************************************************************)
EXTENDS FiniteSets

CONSTANTS
    Forms,         \* of a line with a GitHub login: "bare", or prefixed with "github:"
    Logins,        \* GitHub logins in lower case
    Spellings,     \* of logins, as an operator may type them
    Lower,         \* the login a spelling stands for
    Accounts,      \* spellings that GitHub returns, one per account
    Emails,        \* mailboxes in canonical form
    Subs,          \* Google subjects
    Operators,     \* command-line processes
    None

\* The text of a file line: a GitHub login in one of its forms, or a mailbox.
GithubLines == [form : Forms, login : Logins]
GoogleLines == [form : {"google"}, email : Emails]
Lines == GithubLines \cup GoogleLines
\* What an operator types.
GithubArgs == [form : Forms, name : Spellings]
Args == GithubArgs \cup GoogleLines
Principals == Accounts \cup Subs

ASSUME NamesAssumption ==
    /\ Forms \subseteq {"bare", "github"}
    /\ Logins \subseteq Spellings /\ Accounts \subseteq Spellings
    /\ Lower \in [Spellings -> Logins]
    /\ \A l \in Logins : Lower[l] = l
    /\ Spellings \cap Subs = {} /\ Logins \cap Emails = {}
    /\ None \notin Principals \cup Spellings

VARIABLES
    file,          \* the lines a reader of the allowlist file finds
    pins,          \* table google_pins: subject -> mailbox
    sessions,      \* principals some browser is signed in as
    offers, grants,
    srv,           \* the handler under way
    cmd,           \* where each operator process is
    asked,         \* history: the lines that the commands so far call for
    overlapped,    \* history: commands that ran while another wrote, or died writing
    raced,         \* history: mailboxes whose pin was out of a removal's sight
    hidden         \* history: principals whose grants were out of a removal's reach

history == <<asked, overlapped, raced, hidden>>
vars == <<file, pins, sessions, offers, grants, srv, cmd, history>>

Idle == [pc |-> "idle"]

HandlerState ==
    {Idle}
    \cup [pc : {"returning", "invited", "pin"}, sub : Subs, email : Emails]
    \cup [pc : {"recheck", "consent"}, sub : Subs, email : Emails]
    \cup [pc : {"code", "tokens", "mint"}, principal : Principals]
CommandState ==
    {Idle}
    \cup [pc : {"truncate", "write"}, op : {"add", "remove"}, arg : Args, lines : SUBSET Lines]
    \cup [pc : {"lookup"}, email : Emails]
    \cup [pc : {"unpin"}, email : Emails, sub : Subs \cup {None}]
    \cup [pc : {"revoke", "done"}, principal : Spellings \cup Subs \cup {None},
          name : Logins \cup Emails]

\* The PRIMARY KEY and UNIQUE constraints of google_pins.
PinsOK ==
    /\ DOMAIN pins \subseteq Subs /\ pins \in [DOMAIN pins -> Emails]
    /\ \A s, r \in DOMAIN pins : pins[s] = pins[r] => s = r

\* The one type invariant: lines, pins (one subject per mailbox), and where the sign-in
\* and each command are (allowlist.py, google_pins.py, __main__.py).
TypeOK ==
    /\ file \subseteq Lines /\ PinsOK
    /\ sessions \subseteq Principals /\ offers \subseteq Principals
    /\ grants \subseteq Principals
    /\ srv \in HandlerState /\ cmd \in [Operators -> CommandState]
    /\ asked \subseteq Lines /\ overlapped \subseteq Operators
    /\ raced \subseteq Emails /\ hidden \subseteq Principals

Init ==
    /\ file = {} /\ pins = [s \in {} |-> None]
    /\ sessions = {} /\ offers = {} /\ grants = {}
    /\ srv = Idle /\ cmd = [w \in Operators |-> Idle]
    /\ asked = {} /\ overlapped = {} /\ raced = {} /\ hidden = {}

-----------------------------------------------------------------------------
(* The file and the predicate every front door asks.                       *)

\* _canonical_entry: lower case, and a canonical mailbox; the form is kept.
LineOf(arg) ==
    IF arg.form = "google" THEN arg ELSE [form |-> arg.form, login |-> Lower[arg.name]]

GithubIn(lines) == {l.login : l \in lines \cap GithubLines}
GoogleIn(lines) == {l.email : l \in lines \cap GoogleLines}

ListedIn(lines, p) ==
    IF p \in Subs THEN p \in DOMAIN pins /\ pins[p] \in GoogleIn(lines)
                  ELSE Lower[p] \in GithubIn(lines)

\* is_authorized, evaluated on every request.
Authorized(p) == ListedIn(file, p)

\* Mutant of Inserted: the mailbox is not UNIQUE.
InsertedBySub(s, e) ==
    IF s \in DOMAIN pins THEN pins
    ELSE [r \in DOMAIN pins \cup {s} |-> IF r = s THEN e ELSE pins[r]]

\* INSERT OR IGNORE: either constraint makes it a no-op.
Inserted(s, e) ==
    IF s \in DOMAIN pins \/ \E r \in DOMAIN pins : pins[r] = e THEN pins
    ELSE [r \in DOMAIN pins \cup {s} |-> IF r = s THEN e ELSE pins[r]]

PinsWithout(subs) == [s \in DOMAIN pins \ subs |-> pins[s]]

PinnedTo(e) == {s \in DOMAIN pins : pins[s] = e}

-----------------------------------------------------------------------------
(* The server.                                                             *)

\* auth_callback: one read of the file.
GithubSignIn(p) ==
    /\ srv = Idle /\ Authorized(p)
    /\ sessions' = sessions \cup {p}
    /\ UNCHANGED <<file, pins, offers, grants, srv, cmd, history>>

\* auth_google_callback with a verified mailbox, up to its first email_for_sub.
GoogleSignIn(s, e) ==
    /\ srv = Idle
    /\ srv' = [pc |-> IF s \in DOMAIN pins THEN "returning" ELSE "invited",
               sub |-> s, email |-> e]
    /\ UNCHANGED <<file, pins, sessions, offers, grants, cmd, history>>

\* A returning friend: is_authorized reads the pin again ...
Returning ==
    /\ srv.pc = "returning"
    /\ srv' = IF srv.sub \in DOMAIN pins
              THEN [pc |-> "recheck", sub |-> srv.sub, email |-> pins[srv.sub]]
              ELSE Idle
    /\ UNCHANGED <<file, pins, sessions, offers, grants, cmd, history>>

\* ... and then the file, for the pinned mailbox and not the one claimed.
Recheck ==
    /\ srv.pc = "recheck"
    /\ sessions' = IF srv.email \in GoogleIn(file) THEN sessions \cup {srv.sub} ELSE sessions
    /\ srv' = Idle
    /\ UNCHANGED <<file, pins, offers, grants, cmd, history>>

\* Mutant of Invited: a first sign-in is pinned without looking at the file.
InvitedUnasked ==
    /\ srv.pc = "invited"
    /\ srv' = [srv EXCEPT !.pc = "pin"]
    /\ UNCHANGED <<file, pins, sessions, offers, grants, cmd, history>>

\* A first sign-in: the claimed mailbox must be listed ...
Invited ==
    /\ srv.pc = "invited"
    /\ srv' = IF srv.email \in GoogleIn(file) THEN [srv EXCEPT !.pc = "pin"] ELSE Idle
    /\ UNCHANGED <<file, pins, sessions, offers, grants, cmd, history>>

\* ... and is pinned, unless another subject holds it.  (History: a removal that is past
\* its lookup will delete this pin without knowing whose it is.)
CreatePin ==
    /\ srv.pc = "pin"
    /\ pins' = Inserted(srv.sub, srv.email)
    /\ sessions' = IF srv.sub \in DOMAIN pins' /\ pins'[srv.sub] = srv.email
                   THEN sessions \cup {srv.sub} ELSE sessions
    /\ hidden' = hidden \cup {s \in DOMAIN pins' \ DOMAIN pins :
           \E w \in Operators : cmd[w].pc = "unpin" /\ cmd[w].email = srv.email}
    /\ srv' = Idle
    /\ UNCHANGED <<file, offers, grants, cmd, asked, overlapped, raced>>

\* A consent asks is_authorized: of a GitHub login, one read of the file ...
ConsentGithub(p) ==
    /\ srv = Idle /\ p \in sessions /\ Authorized(p)
    /\ srv' = [pc |-> "code", principal |-> p]
    /\ UNCHANGED <<file, pins, sessions, offers, grants, cmd, history>>

\* ... and of a subject, the pin ...
ConsentGoogle(s) ==
    /\ srv = Idle /\ s \in sessions /\ s \in DOMAIN pins
    /\ srv' = [pc |-> "consent", sub |-> s, email |-> pins[s]]
    /\ UNCHANGED <<file, pins, sessions, offers, grants, cmd, history>>

\* ... and then the file.
ConsentListed ==
    /\ srv.pc = "consent"
    /\ srv' = IF srv.email \in GoogleIn(file) THEN [pc |-> "code", principal |-> srv.sub]
                                             ELSE Idle
    /\ UNCHANGED <<file, pins, sessions, offers, grants, cmd, history>>

CreateCode ==
    /\ srv.pc = "code"
    /\ offers' = offers \cup {srv.principal}
    /\ srv' = Idle
    /\ UNCHANGED <<file, pins, sessions, grants, cmd, history>>

\* The exchange does not ask again: it consumes the code (p may have another) ...
RedeemCode(p) ==
    /\ srv = Idle /\ p \in offers
    /\ offers' \in {offers, offers \ {p}}
    /\ srv' = [pc |-> "tokens", principal |-> p]
    /\ UNCHANGED <<file, pins, sessions, grants, cmd, history>>

\* ... nor does a rotation, which reads a live row ...
RotateRead(p) ==
    /\ srv = Idle /\ p \in grants
    /\ srv' = [pc |-> "mint", principal |-> p]
    /\ UNCHANGED <<file, pins, sessions, offers, grants, cmd, history>>

\* ... and each inserts the new pair in a transaction of its own.
IssueTokens ==
    /\ srv.pc \in {"tokens", "mint"}
    /\ grants' = grants \cup {srv.principal}
    /\ srv' = Idle
    /\ UNCHANGED <<file, pins, sessions, offers, cmd, history>>

\* A code or a family expires, or the client revokes it.
Lapse(p) ==
    /\ \/ p \in offers /\ offers' = offers \ {p} /\ grants' = grants
       \/ p \in grants /\ grants' = grants \ {p} /\ offers' = offers
    /\ UNCHANGED <<file, pins, sessions, srv, cmd, history>>

-----------------------------------------------------------------------------
(* The operator's commands.                                                *)

Writing(w) == cmd[w].pc \in {"truncate", "write"}

\* entries() of add and remove.
ReadFile(w, op, arg) ==
    /\ cmd[w].pc \in {"idle", "done"}
    /\ cmd' = [cmd EXCEPT ![w] =
           [pc |-> "truncate", op |-> op, arg |-> arg,
            lines |-> IF op = "add" THEN file \cup {LineOf(arg)} ELSE file \ {LineOf(arg)}]]
    /\ overlapped' = IF \E v \in Operators : Writing(v) THEN overlapped \cup {w} ELSE overlapped
    /\ UNCHANGED <<file, pins, sessions, offers, grants, srv, asked, raced, hidden>>

\* Mutant of TruncateFile: the file is opened to be written in place.
TruncateInPlace(w) ==
    /\ cmd[w].pc = "truncate"
    /\ cmd' = [cmd EXCEPT ![w].pc = "write"]
    /\ UNCHANGED <<file, pins, sessions, offers, grants, srv, history>>

\* write_text opens the file, which empties it ...
TruncateFile(w) ==
    /\ cmd[w].pc = "truncate"
    /\ file' = {}
    /\ cmd' = [cmd EXCEPT ![w].pc = "write"]
    /\ UNCHANGED <<pins, sessions, offers, grants, srv, history>>

\* Mutant of AfterWrite: the subject is looked for once its pin is gone.
AfterWriteUnpinFirst(c) ==
    IF c.op = "add" THEN Idle
    ELSE IF c.arg.form = "google" THEN [pc |-> "unpin", email |-> c.arg.email, sub |-> None]
    ELSE [pc |-> "revoke", principal |-> c.arg.name, name |-> Lower[c.arg.name]]

\* What _run_allowlist does after the file: the principal of a GitHub argument is its
\* name as typed; that of a mailbox is looked up.
AfterWrite(c) ==
    IF c.op = "add" THEN Idle
    ELSE IF c.arg.form = "google" THEN [pc |-> "lookup", email |-> c.arg.email]
    ELSE [pc |-> "revoke", principal |-> c.arg.name, name |-> Lower[c.arg.name]]

\* ... and writes the lines at its start: if another process wrote meanwhile, the end of
\* that text may stay.
WriteFile(w) ==
    LET c == cmd[w]
        line == LineOf(c.arg)
    IN /\ c.pc = "write"
       /\ \E tail \in SUBSET file : file' = c.lines \cup tail
       /\ cmd' = [cmd EXCEPT ![w] = AfterWrite(c)]
       /\ asked' = IF c.op = "add" THEN asked \cup {line} ELSE asked \ {line}
       /\ UNCHANGED <<pins, sessions, offers, grants, srv, overlapped, raced, hidden>>

\* sub_for_email, before the pin is deleted.
LookupSub(w) ==
    /\ cmd[w].pc = "lookup"
    /\ LET e == cmd[w].email
       IN \E s \in Subs \cup {None} :
             /\ IF s = None THEN PinnedTo(e) = {} ELSE s \in PinnedTo(e)
             /\ cmd' = [cmd EXCEPT ![w] = [pc |-> "unpin", email |-> e, sub |-> s]]
    /\ UNCHANGED <<file, pins, sessions, offers, grants, srv, history>>

\* A deletion of pins.  (History: a first sign-in that has passed its check re-creates the
\* pin afterwards.)
Unpinned(e) ==
    /\ pins' = PinsWithout(PinnedTo(e))
    /\ raced' = IF srv.pc = "pin" /\ srv.email = e THEN raced \cup {e} ELSE raced \ {e}

DeletePin(w) ==
    /\ cmd[w].pc = "unpin"
    /\ Unpinned(cmd[w].email)
    /\ cmd' = [cmd EXCEPT ![w] =
           [pc |-> "revoke", principal |-> cmd[w].sub, name |-> cmd[w].email]]
    /\ UNCHANGED <<file, sessions, offers, grants, srv, asked, overlapped, hidden>>

\* The principal for whom a handler under way is about to issue a code or tokens.
Served ==
    CASE srv.pc = "consent" -> {srv.sub}
      [] srv.pc \in {"code", "tokens", "mint"} -> {srv.principal}
      [] OTHER -> {}

\* _revoke_oauth_grants: rows whose principal is spelled the same.  (History: another
\* spelling of the login, a code not yet exchanged, and what a handler under way is about
\* to issue are out of its reach.)
RevokeGrants(w) ==
    /\ cmd[w].pc = "revoke"
    /\ LET p == cmd[w].principal
           same == {q \in Accounts : p \in Spellings /\ Lower[q] = Lower[p]}
       IN /\ grants' = grants \ {p}
          /\ hidden' = (hidden \ ({p} \ DOMAIN pins)) \cup (same \ {p})
                     \cup ({p} \cap (offers \cup Served))
    /\ cmd' = [cmd EXCEPT ![w].pc = "done"]
    /\ UNCHANGED <<file, pins, sessions, offers, srv, asked, overlapped, raced>>

\* `pin revoke`, by mailbox or by subject: the pin goes, the grants stay.
PinRevoke(s) ==
    /\ s \in DOMAIN pins
    /\ Unpinned(pins[s])
    /\ hidden' = hidden \cup {s}
    /\ UNCHANGED <<file, sessions, offers, grants, srv, cmd, asked, overlapped>>

-----------------------------------------------------------------------------
(* Any process may die between two steps.                                  *)

ServerCrash ==
    /\ srv # Idle /\ srv' = Idle
    /\ UNCHANGED <<file, pins, sessions, offers, grants, cmd, history>>

\* A command that dies with the file open leaves it empty; one that dies later leaves the
\* pin, or the grants, of the friend it was removing.
CommandCrash(w) ==
    LET c == cmd[w]
    IN /\ c.pc \notin {"idle", "done"}
       /\ cmd' = [cmd EXCEPT ![w] = Idle]
       /\ overlapped' = IF c.pc = "write" THEN overlapped \cup {w} ELSE overlapped
       /\ raced' = IF c.pc \in {"lookup", "unpin"} THEN raced \cup {c.email} ELSE raced
       /\ hidden' = hidden \cup
              CASE c.pc \in {"lookup", "unpin"} -> PinnedTo(c.email)
                [] c.pc = "revoke" ->
                      {q \in Principals : q = c.principal \/ (q \in Accounts /\ Lower[q] = c.name)}
                [] OTHER -> {}
       /\ UNCHANGED <<file, pins, sessions, offers, grants, srv, asked>>

Next ==
    \/ \E p \in Accounts : GithubSignIn(p)
    \/ \E s \in Subs, e \in Emails : GoogleSignIn(s, e)
    \/ Returning \/ Recheck \/ Invited \/ CreatePin
    \/ \E p \in Accounts : ConsentGithub(p)
    \/ \E s \in Subs : ConsentGoogle(s)
    \/ ConsentListed \/ CreateCode \/ IssueTokens
    \/ \E p \in Principals : RedeemCode(p) \/ RotateRead(p) \/ Lapse(p)
    \/ \E w \in Operators, op \in {"add", "remove"}, arg \in Args : ReadFile(w, op, arg)
    \/ \E w \in Operators :
          \/ TruncateFile(w) \/ WriteFile(w)
          \/ LookupSub(w) \/ DeletePin(w) \/ RevokeGrants(w) \/ CommandCrash(w)
    \/ \E s \in Subs : PinRevoke(s)
    \/ ServerCrash

Spec == Init /\ [][Next]_vars

-----------------------------------------------------------------------------
(* Safety.                                                                 *)

\* An invite is lost, or comes back, only when two commands overlapped or one died with
\* the file open: add and remove rewrite the whole file from what they read, without a
\* lock and without an atomic replace.
InvitesLostOnlyToOverlap ==
    overlapped = {} => file = asked \/ \E w \in Operators : cmd[w].pc = "write"

BeingUnpinned(e) ==
    \E w \in Operators : cmd[w].pc \in {"lookup", "unpin"} /\ cmd[w].email = e

\* A pin outlives its invite only if a first sign-in had passed the allowlist check when
\* the removal deleted the pin, or the removal died before it did: then inviting the
\* mailbox again revives the old subject (R13 of google_pins.py).
UninvitedPinsOnlyRaced ==
    overlapped = {} => \A s \in DOMAIN pins :
        pins[s] \in GoogleIn(asked) \cup raced \/ BeingUnpinned(pins[s])

\* A removal of p's invite is under way that has yet to come to p's grants.
BeingRevoked(p) ==
    \/ \E w \in Operators :
          /\ cmd[w].pc = "revoke"
          /\ p = cmd[w].principal \/ (p \in Accounts /\ Lower[p] = cmd[w].name)
    \/ p \in DOMAIN pins /\ BeingUnpinned(pins[p])

\* A friend whose invite is gone keeps a refreshable grant only if it was out of the
\* removal's reach: a GitHub login in another spelling, a subject whose pin was already
\* gone (pin revoke, a removal that died and was run again), a code not yet exchanged, or
\* a code or token pair that a handler past its checks was about to issue.
GrantsOutliveRemovalOnlyHidden ==
    overlapped = {} => \A p \in grants : ListedIn(asked, p) \/ p \in hidden \/ BeingRevoked(p)

-----------------------------------------------------------------------------
(* The grants as GrantLifecycle sees them: a friend is eligible once signed *)
(* in; a code being exchanged is an offer still, and what a rotation is     *)
(* about to mint is active.                                                 *)

ServedIn(pc) == IF srv.pc = pc THEN {srv.principal} ELSE {}

Lifecycle == INSTANCE GrantLifecycle WITH
    Holders <- Principals, eligible <- sessions,
    offered <- offers \cup ServedIn("tokens"), active <- grants \cup ServedIn("mint")

\* However sign-ins, consents, exchanges, rotations and removals interleave: nobody gets a
\* code without having been admitted through a front door, and a friend whose last grant is
\* gone gets another only from a code (app.py, oauth/consent.py, oauth/provider.py).
ImplementsLifecycle == Lifecycle!Spec
=============================================================================
