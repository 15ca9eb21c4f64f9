-------------------------- MODULE Identity_proofs ---------------------------
(* Theorems about Identity, for every value of its constants.              *)
EXTENDS Identity, TLAPS

-----------------------------------------------------------------------------
(* Type correctness.                                                       *)

\* The canonical entry of an argument is a line of the file.
LEMMA LineType ==
    ASSUME NEW arg \in Args
    PROVE  LineOf(arg) \in Lines
    BY NamesAssumption DEF Args, GithubArgs, GoogleLines, GithubLines, Lines, LineOf

\* What a command holds at each of its points.
LEMMA CommandType ==
    ASSUME TypeOK, NEW w \in Operators
    PROVE  /\ cmd[w].pc \in {"truncate", "write"} =>
                  /\ cmd[w].op \in {"add", "remove"} /\ cmd[w].arg \in Args
                  /\ cmd[w].lines \subseteq Lines
           /\ cmd[w].pc = "lookup" => cmd[w].email \in Emails
           /\ cmd[w].pc = "unpin" => cmd[w].email \in Emails /\ cmd[w].sub \in Subs \cup {None}
           /\ cmd[w].pc \in {"revoke", "done"} =>
                  /\ cmd[w].principal \in Spellings \cup Subs \cup {None}
                  /\ cmd[w].name \in Logins \cup Emails
    BY DEF TypeOK, CommandState, Idle

\* What a sign-in, and a consent, holds.
LEMMA SignInType ==
    ASSUME TypeOK, srv.pc \notin {"idle", "code", "tokens", "mint"}
    PROVE  srv.sub \in Subs /\ srv.email \in Emails
    BY DEF TypeOK, HandlerState, Idle

\* Whoever is about to be issued a code or tokens is a principal.
LEMMA ServedType ==
    ASSUME TypeOK
    PROVE  /\ srv.pc \in {"code", "tokens", "mint"} => srv.principal \in Principals
           /\ Served \subseteq Principals
    BY DEF TypeOK, HandlerState, Idle, Served, Principals

\* A command's step once its file is written: it is over, or goes on to the pin or to the grants.
LEMMA AfterWriteType ==
    ASSUME NEW c, c.arg \in Args
    PROVE  AfterWrite(c) \in CommandState
    <1>1. CASE c.op = "add"
        BY <1>1 DEF AfterWrite, CommandState
    <1>2. CASE c.op # "add" /\ c.arg.form = "google"
        <2>1. c.arg.email \in Emails
            BY <1>2, NamesAssumption DEF Args, GithubArgs, GoogleLines
        <2> QED BY <1>2, <2>1 DEF AfterWrite, CommandState
    <1>3. CASE c.op # "add" /\ c.arg.form # "google"
        <2>1. c.arg.name \in Spellings /\ Lower[c.arg.name] \in Logins
            BY <1>3, NamesAssumption DEF Args, GithubArgs, GoogleLines
        <2> QED BY <1>3, <2>1 DEF AfterWrite, CommandState
    <1> QED BY <1>1, <1>2, <1>3

\* A deletion of pins leaves a well-typed table with one subject per mailbox.
LEMMA PinsWithoutType ==
    ASSUME PinsOK, NEW subs
    PROVE  /\ DOMAIN PinsWithout(subs) = DOMAIN pins \ subs
           /\ DOMAIN PinsWithout(subs) \subseteq Subs
           /\ PinsWithout(subs) \in [DOMAIN PinsWithout(subs) -> Emails]
           /\ \A s, r \in DOMAIN PinsWithout(subs) :
                  PinsWithout(subs)[s] = PinsWithout(subs)[r] => s = r
    BY DEF PinsOK, PinsWithout

\* So does INSERT OR IGNORE, and it keeps the pins there are.
LEMMA InsertedType ==
    ASSUME PinsOK, NEW s \in Subs, NEW e \in Emails
    PROVE  /\ DOMAIN pins \subseteq DOMAIN Inserted(s, e)
           /\ DOMAIN Inserted(s, e) \subseteq Subs
           /\ Inserted(s, e) \in [DOMAIN Inserted(s, e) -> Emails]
           /\ \A r \in DOMAIN pins : Inserted(s, e)[r] = pins[r]
           /\ \A r \in DOMAIN Inserted(s, e) \ DOMAIN pins : r = s /\ Inserted(s, e)[r] = e
           /\ \A r, q \in DOMAIN Inserted(s, e) :
                  Inserted(s, e)[r] = Inserted(s, e)[q] => r = q
    <1>1. CASE s \in DOMAIN pins \/ \E r \in DOMAIN pins : pins[r] = e
        BY <1>1 DEF PinsOK, Inserted
    <1>2. CASE ~(s \in DOMAIN pins \/ \E r \in DOMAIN pins : pins[r] = e)
        <2>1. Inserted(s, e) = [r \in DOMAIN pins \cup {s} |-> IF r = s THEN e ELSE pins[r]]
            BY <1>2 DEF Inserted
        <2> QED BY <1>2, <2>1 DEF PinsOK
    <1> QED BY <1>1, <1>2

\* Every step keeps the state well typed.
LEMMA TypeStep ==
    TypeOK /\ [Next]_vars => TypeOK'
    <1> SUFFICES ASSUME TypeOK, [Next]_vars PROVE TypeOK'
        OBVIOUS
    <1> USE DEF history, TypeOK, PinsOK
    <1>1. ASSUME NEW p \in Accounts, GithubSignIn(p) PROVE TypeOK'
        BY <1>1 DEF GithubSignIn, Principals
    <1>2. ASSUME NEW s \in Subs, NEW e \in Emails, GoogleSignIn(s, e) PROVE TypeOK'
        BY <1>2 DEF GoogleSignIn, HandlerState
    <1>3. ASSUME Returning PROVE TypeOK'
        <2>1. srv.sub \in DOMAIN pins => pins[srv.sub] \in Emails
            BY DEF PinsOK
        <2>2. srv' \in HandlerState
            BY <1>3, <2>1, SignInType DEF Returning, HandlerState, Idle
        <2> QED BY <1>3, <2>2 DEF Returning
    <1>4. ASSUME Recheck PROVE TypeOK'
        BY <1>4, SignInType DEF Recheck, HandlerState, Principals
    <1>5. ASSUME Invited PROVE TypeOK'
        <2>1. srv' \in HandlerState
            BY <1>5, SignInType DEF Invited, HandlerState, Idle
        <2> QED BY <1>5, <2>1 DEF Invited
    <1>6. ASSUME CreatePin PROVE TypeOK'
        <2>1. srv.sub \in Subs /\ srv.email \in Emails
            BY <1>6, SignInType DEF CreatePin
        <2>2. PinsOK'
            BY <1>6, <2>1, InsertedType DEF CreatePin, PinsOK
        <2>3. sessions' \subseteq Principals /\ hidden' \subseteq Principals
            BY <1>6, <2>1, <2>2 DEF CreatePin, PinsOK, Principals
        <2> QED BY <1>6, <2>2, <2>3 DEF CreatePin, HandlerState
    <1>7. ASSUME NEW p \in Accounts, ConsentGithub(p) PROVE TypeOK'
        BY <1>7 DEF ConsentGithub, HandlerState, Principals
    <1>8. ASSUME NEW s \in Subs, ConsentGoogle(s) PROVE TypeOK'
        BY <1>8 DEF ConsentGoogle, HandlerState
    <1>20. ASSUME ConsentListed PROVE TypeOK'
        <2>1. srv' \in HandlerState
            BY <1>20, SignInType DEF ConsentListed, HandlerState, Principals
        <2> QED BY <1>20, <2>1 DEF ConsentListed
    <1>21. ASSUME CreateCode PROVE TypeOK'
        BY <1>21, ServedType DEF CreateCode, HandlerState
    <1>22. ASSUME NEW p \in Principals, RedeemCode(p) PROVE TypeOK'
        BY <1>22 DEF RedeemCode, HandlerState
    <1>23. ASSUME NEW p \in Principals, RotateRead(p) PROVE TypeOK'
        BY <1>23 DEF RotateRead, HandlerState
    <1>24. ASSUME IssueTokens PROVE TypeOK'
        BY <1>24, ServedType DEF IssueTokens, HandlerState
    <1>9. ASSUME NEW p \in Principals, Lapse(p) PROVE TypeOK'
        BY <1>9 DEF Lapse
    <1>10. ASSUME NEW w \in Operators, NEW op \in {"add", "remove"}, NEW arg \in Args,
                 ReadFile(w, op, arg)
          PROVE  TypeOK'
        <2>1. LineOf(arg) \in Lines
            BY LineType
        <2> DEFINE ls == IF op = "add" THEN file \cup {LineOf(arg)} ELSE file \ {LineOf(arg)}
        <2>2. ls \subseteq Lines
            BY <2>1
        <2>3. cmd' = [cmd EXCEPT ![w] = [pc |-> "truncate", op |-> op, arg |-> arg, lines |-> ls]]
            BY <1>10 DEF ReadFile
        <2> HIDE DEF ls
        <2>4. cmd' \in [Operators -> CommandState]
            BY <2>2, <2>3 DEF CommandState
        <2>5. overlapped' \subseteq Operators
            BY <1>10 DEF ReadFile
        <2> QED BY <1>10, <2>4, <2>5 DEF ReadFile
    <1>11. ASSUME NEW w \in Operators, TruncateFile(w) PROVE TypeOK'
        <2>1. [cmd[w] EXCEPT !.pc = "write"] \in CommandState
            BY <1>11 DEF TruncateFile, CommandState, Idle
        <2> QED BY <1>11, <2>1 DEF TruncateFile
    <1>12. ASSUME NEW w \in Operators, WriteFile(w) PROVE TypeOK'
        <2>1. cmd[w].arg \in Args /\ cmd[w].lines \subseteq Lines
            BY <1>12, CommandType DEF WriteFile
        <2>2. AfterWrite(cmd[w]) \in CommandState /\ LineOf(cmd[w].arg) \in Lines
            BY <2>1, AfterWriteType, LineType
        <2> QED BY <1>12, <2>1, <2>2 DEF WriteFile
    <1>13. ASSUME NEW w \in Operators, LookupSub(w) PROVE TypeOK'
        <2>1. cmd[w].email \in Emails
            BY <1>13, CommandType DEF LookupSub
        <2> QED BY <1>13, <2>1 DEF LookupSub, CommandState
    <1>14. ASSUME NEW w \in Operators, DeletePin(w) PROVE TypeOK'
        <2>1. cmd[w].email \in Emails /\ cmd[w].sub \in Subs \cup {None}
            BY <1>14, CommandType DEF DeletePin
        <2>2. PinsOK'
            BY <1>14, PinsWithoutType DEF DeletePin, Unpinned, PinsOK
        <2>3. cmd' \in [Operators -> CommandState]
            BY <1>14, <2>1 DEF DeletePin, CommandState
        <2>4. raced' \subseteq Emails
            BY <1>14, <2>1 DEF DeletePin, Unpinned
        <2> QED BY <1>14, <2>2, <2>3, <2>4 DEF DeletePin
    <1>15. ASSUME NEW w \in Operators, RevokeGrants(w) PROVE TypeOK'
        <2>1. [cmd[w] EXCEPT !.pc = "done"] \in CommandState
            BY <1>15 DEF RevokeGrants, CommandState, Idle
        <2>2. grants' \subseteq Principals /\ hidden' \subseteq Principals
            BY <1>15, ServedType DEF RevokeGrants, Principals
        <2> QED BY <1>15, <2>1, <2>2 DEF RevokeGrants
    <1>16. ASSUME NEW w \in Operators, CommandCrash(w) PROVE TypeOK'
        <2>1. raced' \subseteq Emails
            BY <1>16, CommandType DEF CommandCrash
        <2>2. hidden' \subseteq Principals
            BY <1>16 DEF CommandCrash, PinnedTo, PinsOK, Principals
        <2>3. overlapped' \subseteq Operators /\ cmd' \in [Operators -> CommandState]
            BY <1>16 DEF CommandCrash, CommandState
        <2> QED BY <1>16, <2>1, <2>2, <2>3 DEF CommandCrash
    <1>17. ASSUME NEW s \in Subs, PinRevoke(s) PROVE TypeOK'
        <2>1. pins[s] \in Emails
            BY <1>17 DEF PinRevoke, PinsOK
        <2>2. PinsOK'
            BY <1>17, PinsWithoutType DEF PinRevoke, Unpinned, PinsOK
        <2>3. raced' \subseteq Emails /\ hidden' \subseteq Principals
            BY <1>17, <2>1 DEF PinRevoke, Unpinned, Principals
        <2> QED BY <1>17, <2>2, <2>3 DEF PinRevoke
    <1>18. ASSUME ServerCrash PROVE TypeOK'
        BY <1>18 DEF ServerCrash, HandlerState
    <1>19. CASE UNCHANGED vars
        BY <1>19 DEF vars
    <1> QED
        BY <1>1, <1>2, <1>3, <1>4, <1>5, <1>6, <1>7, <1>8, <1>9, <1>10,
           <1>11, <1>12, <1>13, <1>14, <1>15, <1>16, <1>17, <1>18, <1>19,
           <1>20, <1>21, <1>22, <1>23, <1>24 DEF Next

\* Every reachable state is well typed; in particular a mailbox never has two subjects.
THEOREM TypeCorrect == Spec => []TypeOK
<1>1. Init => TypeOK
    BY DEF Init, TypeOK, PinsOK, HandlerState, CommandState
<1> QED BY <1>1, TypeStep, PTL DEF Spec


-----------------------------------------------------------------------------
(* The file.  While no commands have overlapped there is one writer at a   *)
(* time; what it holds is what the file should become, and what is in the  *)
(* file is what was asked for, but for the moment it is truncated.         *)

\* The lines a command writes: what was asked for before it, with or without its own line.
LinesFor(c) ==
    IF c.op = "add" THEN asked \cup {LineOf(c.arg)} ELSE asked \ {LineOf(c.arg)}

FileInv ==
    overlapped = {} =>
        /\ \A v, w \in Operators : Writing(v) /\ Writing(w) => v = w
        /\ \A w \in Operators : Writing(w) => cmd[w].lines = LinesFor(cmd[w])
        /\ \A w \in Operators : cmd[w].pc = "write" => file = {}
        /\ file = asked \/ \E w \in Operators : cmd[w].pc = "write"

\* Commands that have overlapped stay on record.
LEMMA OverlapStays ==
    ASSUME [Next]_vars
    PROVE  overlapped \subseteq overlapped'
    BY DEF Next, vars, history, GithubSignIn, GoogleSignIn, Returning, Recheck, Invited,
        CreatePin, ConsentGithub, ConsentGoogle, ConsentListed, CreateCode, RedeemCode,
        RotateRead, IssueTokens, Lapse, ReadFile, TruncateFile, WriteFile, LookupSub,
        DeletePin, RevokeGrants, CommandCrash, PinRevoke, ServerCrash

\* Every step keeps one writer, who holds what is asked for.
LEMMA FileStep ==
    TypeOK /\ FileInv /\ [Next]_vars => FileInv'
    <1> SUFFICES ASSUME TypeOK, FileInv, [Next]_vars PROVE FileInv'
        OBVIOUS
    <1> USE DEF history, FileInv
    <1>0. overlapped' # {} \/ (overlapped = {} /\ overlapped' = {})
        BY OverlapStays
    <1>1. ASSUME NEW p \in Accounts, GithubSignIn(p) PROVE FileInv'
        BY <1>1, <1>0 DEF GithubSignIn, Writing, LinesFor, TypeOK
    <1>2. ASSUME NEW s \in Subs, NEW e \in Emails, GoogleSignIn(s, e) PROVE FileInv'
        BY <1>2, <1>0 DEF GoogleSignIn, Writing, LinesFor, TypeOK
    <1>3. ASSUME Returning PROVE FileInv'
        BY <1>3, <1>0 DEF Returning, Writing, LinesFor, TypeOK
    <1>4. ASSUME Recheck PROVE FileInv'
        BY <1>4, <1>0 DEF Recheck, Writing, LinesFor, TypeOK
    <1>5. ASSUME Invited PROVE FileInv'
        BY <1>5, <1>0 DEF Invited, Writing, LinesFor, TypeOK
    <1>6. ASSUME CreatePin PROVE FileInv'
        BY <1>6, <1>0 DEF CreatePin, Writing, LinesFor, TypeOK
    <1>7. ASSUME NEW p \in Accounts, ConsentGithub(p) PROVE FileInv'
        BY <1>7, <1>0 DEF ConsentGithub, Writing, LinesFor, TypeOK
    <1>8. ASSUME NEW s \in Subs, ConsentGoogle(s) PROVE FileInv'
        BY <1>8, <1>0 DEF ConsentGoogle, Writing, LinesFor, TypeOK
    <1>20. ASSUME ConsentListed PROVE FileInv'
        BY <1>20, <1>0 DEF ConsentListed, Writing, LinesFor, TypeOK
    <1>21. ASSUME CreateCode PROVE FileInv'
        BY <1>21, <1>0 DEF CreateCode, Writing, LinesFor, TypeOK
    <1>22. ASSUME NEW p \in Principals, RedeemCode(p) PROVE FileInv'
        BY <1>22, <1>0 DEF RedeemCode, Writing, LinesFor, TypeOK
    <1>23. ASSUME NEW p \in Principals, RotateRead(p) PROVE FileInv'
        BY <1>23, <1>0 DEF RotateRead, Writing, LinesFor, TypeOK
    <1>24. ASSUME IssueTokens PROVE FileInv'
        BY <1>24, <1>0 DEF IssueTokens, Writing, LinesFor, TypeOK
    <1>9. ASSUME NEW p \in Principals, Lapse(p) PROVE FileInv'
        BY <1>9, <1>0 DEF Lapse, Writing, LinesFor, TypeOK
    <1>10. ASSUME NEW w \in Operators, NEW op \in {"add", "remove"}, NEW arg \in Args,
                 ReadFile(w, op, arg)
          PROVE  FileInv'
        <2> SUFFICES ASSUME overlapped' = {} PROVE FileInv'
            OBVIOUS
        <2>1. overlapped = {} /\ \A v \in Operators : ~Writing(v)
            BY <1>10, <1>0 DEF ReadFile
        <2>2. file = asked /\ file' = asked /\ asked' = asked
            BY <1>10, <2>1 DEF ReadFile, Writing
        <2>3. \A v \in Operators : Writing(v)' => v = w
            BY <1>10, <2>1 DEF ReadFile, Writing, TypeOK
        <2>4. /\ cmd'[w].op = op /\ cmd'[w].arg = arg /\ cmd'[w].pc = "truncate"
              /\ cmd'[w].lines = IF op = "add" THEN asked \cup {LineOf(arg)}
                                               ELSE asked \ {LineOf(arg)}
            BY <1>10, <2>2 DEF ReadFile, TypeOK
        <2>5. Writing(w)' => cmd'[w].lines = LinesFor(cmd[w])'
            BY <2>2, <2>4 DEF LinesFor, LineOf
        <2> QED BY <2>2, <2>3, <2>4, <2>5 DEF Writing
    <1>11. ASSUME NEW w \in Operators, TruncateFile(w) PROVE FileInv'
        BY <1>11, <1>0 DEF TruncateFile, Writing, LinesFor, TypeOK, Idle
    <1>12. ASSUME NEW w \in Operators, WriteFile(w) PROVE FileInv'
        <2> SUFFICES ASSUME overlapped' = {} PROVE FileInv'
            OBVIOUS
        <2>1. overlapped = {} /\ cmd[w].pc = "write" /\ Writing(w)
            BY <1>12, <1>0 DEF WriteFile, Writing
        <2>2. file = {} /\ cmd[w].lines = LinesFor(cmd[w])
            BY <2>1
        <2>3. file' = asked'
            BY <1>12, <2>2 DEF WriteFile, LinesFor
        <2>4. cmd[w].arg \in Args /\ cmd' = [cmd EXCEPT ![w] = AfterWrite(cmd[w])]
            BY <1>12, <2>1, CommandType DEF WriteFile
        <2>5. AfterWrite(cmd[w]).pc \in {"idle", "lookup", "revoke"}
            BY DEF AfterWrite, Idle
        <2>6. \A v \in Operators : ~Writing(v)'
            BY <2>1, <2>4, <2>5 DEF Writing, TypeOK
        <2> QED BY <2>3, <2>6 DEF Writing
    <1>13. ASSUME NEW w \in Operators, LookupSub(w) PROVE FileInv'
        <2>1. /\ ~Writing(w) /\ ~Writing(w)' /\ cmd[w].pc # "write" /\ cmd'[w].pc # "write"
              /\ \A v \in Operators : v # w => cmd'[v] = cmd[v]
            BY <1>13 DEF LookupSub, Writing, TypeOK
        <2> QED BY <1>13, <1>0, <2>1 DEF LookupSub, Writing, LinesFor
    <1>14. ASSUME NEW w \in Operators, DeletePin(w) PROVE FileInv'
        BY <1>14, <1>0 DEF DeletePin, Writing, LinesFor, TypeOK, Idle
    <1>15. ASSUME NEW w \in Operators, RevokeGrants(w) PROVE FileInv'
        <2>1. /\ ~Writing(w) /\ ~Writing(w)' /\ cmd[w].pc # "write" /\ cmd'[w].pc # "write"
              /\ \A v \in Operators : v # w => cmd'[v] = cmd[v]
            BY <1>15 DEF RevokeGrants, Writing, TypeOK
        <2> QED BY <1>15, <1>0, <2>1 DEF RevokeGrants, Writing, LinesFor
    <1>16. ASSUME NEW w \in Operators, CommandCrash(w) PROVE FileInv'
        BY <1>16, <1>0 DEF CommandCrash, Writing, LinesFor, TypeOK, Idle
    <1>17. ASSUME NEW s \in Subs, PinRevoke(s) PROVE FileInv'
        BY <1>17, <1>0 DEF PinRevoke, Writing, LinesFor, TypeOK
    <1>18. ASSUME ServerCrash PROVE FileInv'
        BY <1>18, <1>0 DEF ServerCrash, Writing, LinesFor, TypeOK
    <1>19. CASE UNCHANGED vars
        BY <1>19, <1>0 DEF vars, Writing, LinesFor, TypeOK
    <1> QED
        BY <1>1, <1>2, <1>3, <1>4, <1>5, <1>6, <1>7, <1>8, <1>9, <1>10,
           <1>11, <1>12, <1>13, <1>14, <1>15, <1>16, <1>17, <1>18, <1>19,
           <1>20, <1>21, <1>22, <1>23, <1>24 DEF Next

\* Invites are lost only to overlaps: what each add and remove asks for is what the file
\* says, for any number of commands that run one after the other, whatever dies.
THEOREM InvitesAreKept == Spec => []InvitesLostOnlyToOverlap
<1>1. Init => FileInv
    BY DEF Init, FileInv, Writing, Idle
<1>2. FileInv => InvitesLostOnlyToOverlap
    BY DEF FileInv, InvitesLostOnlyToOverlap
<1> QED BY <1>1, <1>2, FileStep, TypeCorrect, PTL DEF Spec


-----------------------------------------------------------------------------
(* The pins.  A first sign-in that has passed its check may still create a *)
(* pin, so what holds of every pin must hold of the mailbox it is about to *)
(* pin.                                                                    *)

\* A pin to e needs no excuse, has one, or is about to be deleted.
Accounted(e) == e \in GoogleIn(asked) \cup raced \/ BeingUnpinned(e)

PinsInv ==
    overlapped = {} =>
        /\ \A s \in DOMAIN pins : Accounted(pins[s])
        /\ srv.pc = "pin" => Accounted(srv.email)

\* What the file says was asked for.
LEMMA FileBehind ==
    ASSUME FileInv, overlapped = {}
    PROVE  file \subseteq asked
    BY DEF FileInv

\* Every step keeps the pins accounted for.
LEMMA PinsStep ==
    TypeOK /\ FileInv /\ PinsInv /\ [Next]_vars => PinsInv'
    <1> SUFFICES ASSUME TypeOK, FileInv, PinsInv, [Next]_vars PROVE PinsInv'
        OBVIOUS
    <1> USE DEF history
    <1>0. overlapped' # {} \/ (overlapped = {} /\ overlapped' = {})
        BY OverlapStays
    <1>1. ASSUME NEW p \in Accounts, GithubSignIn(p) PROVE PinsInv'
        <2>1. /\ asked' = asked /\ raced' = raced /\ cmd' = cmd /\ pins' = pins
              /\ srv'.pc # "pin" \/ srv' = srv
            BY <1>1 DEF GithubSignIn, Idle, TypeOK
        <2> QED BY <1>0, <2>1 DEF PinsInv, Accounted, BeingUnpinned
    <1>2. ASSUME NEW s \in Subs, NEW e \in Emails, GoogleSignIn(s, e) PROVE PinsInv'
        <2>1. /\ asked' = asked /\ raced' = raced /\ cmd' = cmd /\ pins' = pins
              /\ srv'.pc # "pin" \/ srv' = srv
            BY <1>2 DEF GoogleSignIn, Idle, TypeOK
        <2> QED BY <1>0, <2>1 DEF PinsInv, Accounted, BeingUnpinned
    <1>3. ASSUME Returning PROVE PinsInv'
        <2>1. /\ asked' = asked /\ raced' = raced /\ cmd' = cmd /\ pins' = pins
              /\ srv'.pc # "pin" \/ srv' = srv
            BY <1>3 DEF Returning, Idle, TypeOK
        <2> QED BY <1>0, <2>1 DEF PinsInv, Accounted, BeingUnpinned
    <1>4. ASSUME Recheck PROVE PinsInv'
        <2>1. /\ asked' = asked /\ raced' = raced /\ cmd' = cmd /\ pins' = pins
              /\ srv'.pc # "pin" \/ srv' = srv
            BY <1>4 DEF Recheck, Idle, TypeOK
        <2> QED BY <1>0, <2>1 DEF PinsInv, Accounted, BeingUnpinned
    <1>5. ASSUME Invited PROVE PinsInv'
        <2> SUFFICES ASSUME overlapped = {} PROVE PinsInv'
            BY <1>0 DEF PinsInv
        <2>1. asked' = asked /\ raced' = raced /\ cmd' = cmd /\ pins' = pins
            BY <1>5 DEF Invited
        <2>2. srv'.pc = "pin" => srv'.email = srv.email /\ srv.email \in GoogleIn(asked)
            BY <1>5, FileBehind DEF Invited, GoogleIn, Idle, TypeOK, HandlerState
        <2> QED BY <2>1, <2>2 DEF PinsInv, Accounted, BeingUnpinned
    <1>6. ASSUME CreatePin PROVE PinsInv'
        <2> SUFFICES ASSUME overlapped = {} PROVE PinsInv'
            BY <1>0 DEF PinsInv
        <2>1. /\ asked' = asked /\ raced' = raced /\ cmd' = cmd
              /\ pins' = Inserted(srv.sub, srv.email) /\ srv'.pc # "pin"
              /\ srv.pc = "pin" /\ srv.sub \in Subs /\ srv.email \in Emails
            BY <1>6, SignInType DEF CreatePin, Idle
        <2>2. \A s \in DOMAIN pins' :
                  (s \in DOMAIN pins /\ pins'[s] = pins[s]) \/ pins'[s] = srv.email
            BY <2>1, InsertedType DEF TypeOK
        <2>3. \A s \in DOMAIN pins' : Accounted(pins'[s])
            BY <2>1, <2>2 DEF PinsInv
        <2> QED BY <2>1, <2>3 DEF PinsInv, Accounted, BeingUnpinned
    <1>7. ASSUME NEW p \in Accounts, ConsentGithub(p) PROVE PinsInv'
        <2>1. /\ asked' = asked /\ raced' = raced /\ cmd' = cmd /\ pins' = pins
              /\ srv'.pc # "pin" \/ srv' = srv
            BY <1>7 DEF ConsentGithub, Idle, TypeOK
        <2> QED BY <1>0, <2>1 DEF PinsInv, Accounted, BeingUnpinned
    <1>8. ASSUME NEW s \in Subs, ConsentGoogle(s) PROVE PinsInv'
        <2>1. /\ asked' = asked /\ raced' = raced /\ cmd' = cmd /\ pins' = pins
              /\ srv'.pc # "pin" \/ srv' = srv
            BY <1>8 DEF ConsentGoogle, Idle, TypeOK
        <2> QED BY <1>0, <2>1 DEF PinsInv, Accounted, BeingUnpinned
    <1>20. ASSUME ConsentListed PROVE PinsInv'
        <2>1. /\ asked' = asked /\ raced' = raced /\ cmd' = cmd /\ pins' = pins
              /\ srv'.pc # "pin" \/ srv' = srv
            BY <1>20 DEF ConsentListed, Idle, TypeOK
        <2> QED BY <1>0, <2>1 DEF PinsInv, Accounted, BeingUnpinned
    <1>21. ASSUME CreateCode PROVE PinsInv'
        <2>1. /\ asked' = asked /\ raced' = raced /\ cmd' = cmd /\ pins' = pins
              /\ srv'.pc # "pin" \/ srv' = srv
            BY <1>21 DEF CreateCode, Idle, TypeOK
        <2> QED BY <1>0, <2>1 DEF PinsInv, Accounted, BeingUnpinned
    <1>22. ASSUME NEW p \in Principals, RedeemCode(p) PROVE PinsInv'
        <2>1. /\ asked' = asked /\ raced' = raced /\ cmd' = cmd /\ pins' = pins
              /\ srv'.pc # "pin" \/ srv' = srv
            BY <1>22 DEF RedeemCode, Idle, TypeOK
        <2> QED BY <1>0, <2>1 DEF PinsInv, Accounted, BeingUnpinned
    <1>23. ASSUME NEW p \in Principals, RotateRead(p) PROVE PinsInv'
        <2>1. /\ asked' = asked /\ raced' = raced /\ cmd' = cmd /\ pins' = pins
              /\ srv'.pc # "pin" \/ srv' = srv
            BY <1>23 DEF RotateRead, Idle, TypeOK
        <2> QED BY <1>0, <2>1 DEF PinsInv, Accounted, BeingUnpinned
    <1>24. ASSUME IssueTokens PROVE PinsInv'
        <2>1. /\ asked' = asked /\ raced' = raced /\ cmd' = cmd /\ pins' = pins
              /\ srv'.pc # "pin" \/ srv' = srv
            BY <1>24 DEF IssueTokens, Idle, TypeOK
        <2> QED BY <1>0, <2>1 DEF PinsInv, Accounted, BeingUnpinned
    <1>9. ASSUME NEW p \in Principals, Lapse(p) PROVE PinsInv'
        <2>1. /\ asked' = asked /\ raced' = raced /\ cmd' = cmd /\ pins' = pins
              /\ srv'.pc # "pin" \/ srv' = srv
            BY <1>9 DEF Lapse, Idle, TypeOK
        <2> QED BY <1>0, <2>1 DEF PinsInv, Accounted, BeingUnpinned
    <1>10. ASSUME NEW w \in Operators, NEW op \in {"add", "remove"}, NEW arg \in Args,
                 ReadFile(w, op, arg)
          PROVE  PinsInv'
        <2> SUFFICES ASSUME overlapped = {} PROVE PinsInv'
            BY <1>0 DEF PinsInv
        <2>1. /\ asked' = asked /\ raced' = raced /\ pins' = pins /\ srv' = srv
              /\ \A v \in Operators : cmd[v].pc \in {"lookup", "unpin"} =>
                     cmd'[v].pc \in {"lookup", "unpin"} /\ cmd'[v].email = cmd[v].email
            BY <1>10 DEF ReadFile, TypeOK
        <2>2. \A s \in DOMAIN pins : Accounted(pins[s])' 
            BY <2>1 DEF PinsInv, Accounted, BeingUnpinned
        <2>3. srv.pc = "pin" => Accounted(srv.email)'
            BY <2>1 DEF PinsInv, Accounted, BeingUnpinned
        <2> QED BY <2>1, <2>2, <2>3 DEF PinsInv
    <1>11. ASSUME NEW w \in Operators, TruncateFile(w) PROVE PinsInv'
        <2> SUFFICES ASSUME overlapped = {} PROVE PinsInv'
            BY <1>0 DEF PinsInv
        <2>1. /\ asked' = asked /\ raced' = raced /\ pins' = pins /\ srv' = srv
              /\ \A v \in Operators : cmd[v].pc \in {"lookup", "unpin"} =>
                     cmd'[v].pc \in {"lookup", "unpin"} /\ cmd'[v].email = cmd[v].email
            BY <1>11 DEF TruncateFile, TypeOK
        <2>2. \A s \in DOMAIN pins : Accounted(pins[s])' 
            BY <2>1 DEF PinsInv, Accounted, BeingUnpinned
        <2>3. srv.pc = "pin" => Accounted(srv.email)'
            BY <2>1 DEF PinsInv, Accounted, BeingUnpinned
        <2> QED BY <2>1, <2>2, <2>3 DEF PinsInv
    <1>12. ASSUME NEW w \in Operators, WriteFile(w) PROVE PinsInv'
        <2> SUFFICES ASSUME overlapped = {} PROVE PinsInv'
            BY <1>0 DEF PinsInv
        <2> DEFINE c == cmd[w]
        <2>1. /\ raced' = raced /\ pins' = pins /\ srv' = srv
              /\ cmd' = [cmd EXCEPT ![w] = AfterWrite(c)] /\ c.pc = "write" /\ c.arg \in Args
              /\ asked' = IF c.op = "add" THEN asked \cup {LineOf(c.arg)}
                                          ELSE asked \ {LineOf(c.arg)}
            BY <1>12, CommandType DEF WriteFile
        <2>2. \A v \in Operators : v # w => cmd'[v] = cmd[v]
            BY <2>1 DEF TypeOK
        <2>3. \A e \in Emails : Accounted(e) => Accounted(e)'
            <3> SUFFICES ASSUME NEW e \in Emails, Accounted(e) PROVE Accounted(e)'
                OBVIOUS
            <3>1. BeingUnpinned(e) => BeingUnpinned(e)'
                BY <2>1, <2>2 DEF BeingUnpinned
            <3>2. CASE c.op = "add" \/ c.arg.form # "google" \/ c.arg.email # e
                <4>1. e \in GoogleIn(asked) => e \in GoogleIn(asked)'
                    BY <2>1, <3>2, NamesAssumption
                        DEF GoogleIn, GoogleLines, LineOf, Args, GithubArgs
                <4> QED BY <2>1, <3>1, <4>1 DEF Accounted
            <3>3. CASE c.op # "add" /\ c.arg.form = "google" /\ c.arg.email = e
                <4>1. cmd'[w].pc = "lookup" /\ cmd'[w].email = e
                    BY <2>1, <3>3 DEF AfterWrite, TypeOK
                <4> QED BY <4>1 DEF Accounted, BeingUnpinned
            <3> QED BY <3>2, <3>3
        <2> HIDE DEF c
        <2>4. \A s \in DOMAIN pins : Accounted(pins[s])'
            BY <2>1, <2>3 DEF PinsInv, TypeOK, PinsOK
        <2>5. srv.pc = "pin" => Accounted(srv.email)'
            BY <2>1, <2>3, SignInType DEF PinsInv
        <2> QED BY <2>1, <2>4, <2>5 DEF PinsInv
    <1>13. ASSUME NEW w \in Operators, LookupSub(w) PROVE PinsInv'
        <2> SUFFICES ASSUME overlapped = {} PROVE PinsInv'
            BY <1>0 DEF PinsInv
        <2>1. /\ asked' = asked /\ raced' = raced /\ pins' = pins /\ srv' = srv
              /\ \A v \in Operators : cmd[v].pc \in {"lookup", "unpin"} =>
                     cmd'[v].pc \in {"lookup", "unpin"} /\ cmd'[v].email = cmd[v].email
            BY <1>13 DEF LookupSub, TypeOK
        <2>2. \A s \in DOMAIN pins : Accounted(pins[s])' 
            BY <2>1 DEF PinsInv, Accounted, BeingUnpinned
        <2>3. srv.pc = "pin" => Accounted(srv.email)'
            BY <2>1 DEF PinsInv, Accounted, BeingUnpinned
        <2> QED BY <2>1, <2>2, <2>3 DEF PinsInv
    <1>14. ASSUME NEW w \in Operators, DeletePin(w) PROVE PinsInv'
        <2> SUFFICES ASSUME overlapped = {} PROVE PinsInv'
            BY <1>0 DEF PinsInv
        <2> DEFINE gone == cmd[w].email
        <2>1. /\ asked' = asked /\ srv' = srv /\ pins' = PinsWithout(PinnedTo(gone))
              /\ raced' = IF srv.pc = "pin" /\ srv.email = gone
                          THEN raced \cup {gone} ELSE raced \ {gone}
            BY <1>14 DEF DeletePin, Unpinned
        <2>2. \A d : d # gone /\ Accounted(d) => Accounted(d)'
            BY <1>14, <2>1 DEF DeletePin, Accounted, BeingUnpinned, TypeOK
        <2>3. \A s \in DOMAIN pins' : s \in DOMAIN pins /\ pins'[s] = pins[s] /\ pins[s] # gone
            BY <2>1 DEF PinsWithout, PinnedTo
        <2>4. \A s \in DOMAIN pins' : Accounted(pins[s])'
            BY <2>2, <2>3 DEF PinsInv, Accounted, BeingUnpinned
        <2>5. srv.pc = "pin" => Accounted(srv.email)'
            BY <2>1, <2>2 DEF PinsInv, Accounted
        <2> QED BY <2>1, <2>3, <2>4, <2>5 DEF PinsInv
    <1>15. ASSUME NEW w \in Operators, RevokeGrants(w) PROVE PinsInv'
        <2> SUFFICES ASSUME overlapped = {} PROVE PinsInv'
            BY <1>0 DEF PinsInv
        <2>1. /\ asked' = asked /\ raced' = raced /\ pins' = pins /\ srv' = srv
              /\ \A v \in Operators : cmd[v].pc \in {"lookup", "unpin"} =>
                     cmd'[v].pc \in {"lookup", "unpin"} /\ cmd'[v].email = cmd[v].email
            BY <1>15 DEF RevokeGrants, TypeOK
        <2>2. \A s \in DOMAIN pins : Accounted(pins[s])' 
            BY <2>1 DEF PinsInv, Accounted, BeingUnpinned
        <2>3. srv.pc = "pin" => Accounted(srv.email)'
            BY <2>1 DEF PinsInv, Accounted, BeingUnpinned
        <2> QED BY <2>1, <2>2, <2>3 DEF PinsInv
    <1>16. ASSUME NEW w \in Operators, CommandCrash(w) PROVE PinsInv'
        <2> SUFFICES ASSUME overlapped = {} PROVE PinsInv'
            BY <1>0 DEF PinsInv
        <2>1. /\ asked' = asked /\ srv' = srv /\ pins' = pins
              /\ raced' = IF cmd[w].pc \in {"lookup", "unpin"} THEN raced \cup {cmd[w].email}
                                                             ELSE raced
              /\ \A v \in Operators : v # w => cmd'[v] = cmd[v]
            BY <1>16 DEF CommandCrash, TypeOK
        <2>2. \A d : Accounted(d) => Accounted(d)'
            BY <2>1 DEF Accounted, BeingUnpinned
        <2>3. \A s \in DOMAIN pins : Accounted(pins[s])'
            BY <2>1, <2>2 DEF PinsInv
        <2>4. srv.pc = "pin" => Accounted(srv.email)'
            BY <2>1, <2>2 DEF PinsInv
        <2> QED BY <2>1, <2>3, <2>4 DEF PinsInv
    <1>17. ASSUME NEW s \in Subs, PinRevoke(s) PROVE PinsInv'
        <2> SUFFICES ASSUME overlapped = {} PROVE PinsInv'
            BY <1>0 DEF PinsInv
        <2> DEFINE gone == pins[s]
        <2>1. /\ asked' = asked /\ srv' = srv /\ pins' = PinsWithout(PinnedTo(gone))
              /\ raced' = IF srv.pc = "pin" /\ srv.email = gone
                          THEN raced \cup {gone} ELSE raced \ {gone}
            BY <1>17 DEF PinRevoke, Unpinned
        <2>2. \A d : d # gone /\ Accounted(d) => Accounted(d)'
            BY <1>17, <2>1 DEF PinRevoke, Accounted, BeingUnpinned, TypeOK
        <2>3. \A r \in DOMAIN pins' : r \in DOMAIN pins /\ pins'[r] = pins[r] /\ pins[r] # gone
            BY <2>1 DEF PinsWithout, PinnedTo
        <2>4. \A r \in DOMAIN pins' : Accounted(pins[r])'
            BY <2>2, <2>3 DEF PinsInv, Accounted, BeingUnpinned
        <2>5. srv.pc = "pin" => Accounted(srv.email)'
            BY <2>1, <2>2 DEF PinsInv, Accounted
        <2> QED BY <2>1, <2>3, <2>4, <2>5 DEF PinsInv
    <1>18. ASSUME ServerCrash PROVE PinsInv'
        <2>1. /\ asked' = asked /\ raced' = raced /\ cmd' = cmd /\ pins' = pins
              /\ srv'.pc # "pin" \/ srv' = srv
            BY <1>18 DEF ServerCrash, Idle, TypeOK
        <2> QED BY <1>0, <2>1 DEF PinsInv, Accounted, BeingUnpinned
    <1>19. CASE UNCHANGED vars
        BY <1>19, <1>0 DEF vars, PinsInv, Accounted, BeingUnpinned
    <1> QED
        BY <1>1, <1>2, <1>3, <1>4, <1>5, <1>6, <1>7, <1>8, <1>9, <1>10,
           <1>11, <1>12, <1>13, <1>14, <1>15, <1>16, <1>17, <1>18, <1>19,
           <1>20, <1>21, <1>22, <1>23, <1>24 DEF Next

\* A pin outlives its invite only by a race: for any number of subjects, mailboxes, sign-ins
\* and removals that run one after the other.
THEOREM PinsFollowInvites == Spec => []UninvitedPinsOnlyRaced
<1>1. Init => FileInv /\ PinsInv
    BY DEF Init, FileInv, Writing, PinsInv, Idle
<1>2. PinsInv => UninvitedPinsOnlyRaced
    BY DEF PinsInv, Accounted, UninvitedPinsOnlyRaced
<1> QED BY <1>1, <1>2, FileStep, PinsStep, TypeCorrect, PTL DEF Spec


-----------------------------------------------------------------------------
(* The grants.  A code not yet exchanged is a grant to come, and so is what *)
(* a handler under way is about to issue: what holds of every grant must   *)
(* hold of them.                                                           *)

\* A removal at its last step holds a login as typed with the login it stands for, or a
\* subject (if any was pinned) with its mailbox.
RevokeInv ==
    \A w \in Operators : cmd[w].pc = "revoke" =>
        \/ cmd[w].principal \in Spellings /\ cmd[w].name = Lower[cmd[w].principal]
        \/ cmd[w].principal \in Subs \cup {None} /\ cmd[w].name \in Emails

\* A removal past its lookup knows whose pin it will delete, or the pin is on record as new.
UnpinInv ==
    \A w \in Operators : cmd[w].pc = "unpin" =>
        \A s \in PinnedTo(cmd[w].email) : s = cmd[w].sub \/ s \in hidden

\* p is a friend, or out of reach, or about to lose its grants.
Covered(p) == ListedIn(asked, p) \/ p \in hidden \/ BeingRevoked(p)

\* s has its pin to e, or is out of reach, or about to lose its grants.
PinHeld(s, e) == (s \in DOMAIN pins /\ pins[s] = e) \/ s \in hidden \/ BeingRevoked(s)

\* A handler that has passed its checks issues whatever happens next.
Issuing == IF srv.pc \in {"code", "tokens", "mint"} THEN {srv.principal} ELSE {}

\* Whoever has a grant, or a grant to come.
Due == grants \cup offers \cup Issuing

GrantsInv ==
    overlapped = {} =>
        /\ \A p \in Due : Covered(p)
        /\ srv.pc = "consent" => PinHeld(srv.sub, srv.email)

\* RevokeInv is preserved by every step.
LEMMA RevokeStep ==
    TypeOK /\ RevokeInv /\ [Next]_vars => RevokeInv'
    <1> SUFFICES ASSUME TypeOK, RevokeInv, [Next]_vars PROVE RevokeInv'
        OBVIOUS
    <1> USE DEF history
    <1>1. ASSUME NEW p \in Accounts, GithubSignIn(p) PROVE RevokeInv'
        BY <1>1 DEF GithubSignIn, RevokeInv
    <1>2. ASSUME NEW s \in Subs, NEW e \in Emails, GoogleSignIn(s, e) PROVE RevokeInv'
        BY <1>2 DEF GoogleSignIn, RevokeInv
    <1>3. ASSUME Returning PROVE RevokeInv'
        BY <1>3 DEF Returning, RevokeInv
    <1>4. ASSUME Recheck PROVE RevokeInv'
        BY <1>4 DEF Recheck, RevokeInv
    <1>5. ASSUME Invited PROVE RevokeInv'
        BY <1>5 DEF Invited, RevokeInv
    <1>6. ASSUME CreatePin PROVE RevokeInv'
        BY <1>6 DEF CreatePin, RevokeInv
    <1>7. ASSUME NEW p \in Accounts, ConsentGithub(p) PROVE RevokeInv'
        BY <1>7 DEF ConsentGithub, RevokeInv
    <1>8. ASSUME NEW s \in Subs, ConsentGoogle(s) PROVE RevokeInv'
        BY <1>8 DEF ConsentGoogle, RevokeInv
    <1>20. ASSUME ConsentListed PROVE RevokeInv'
        BY <1>20 DEF ConsentListed, RevokeInv
    <1>21. ASSUME CreateCode PROVE RevokeInv'
        BY <1>21 DEF CreateCode, RevokeInv
    <1>22. ASSUME NEW p \in Principals, RedeemCode(p) PROVE RevokeInv'
        BY <1>22 DEF RedeemCode, RevokeInv
    <1>23. ASSUME NEW p \in Principals, RotateRead(p) PROVE RevokeInv'
        BY <1>23 DEF RotateRead, RevokeInv
    <1>24. ASSUME IssueTokens PROVE RevokeInv'
        BY <1>24 DEF IssueTokens, RevokeInv
    <1>9. ASSUME NEW p \in Principals, Lapse(p) PROVE RevokeInv'
        BY <1>9 DEF Lapse, RevokeInv
    <1>10. ASSUME NEW w \in Operators, NEW op \in {"add", "remove"}, NEW arg \in Args,
                 ReadFile(w, op, arg)
          PROVE  RevokeInv'
        <2>1. \A v \in Operators : cmd'[v].pc = "revoke" => cmd'[v] = cmd[v]
            BY <1>10 DEF ReadFile, TypeOK, Idle
        <2> QED BY <2>1 DEF RevokeInv
    <1>11. ASSUME NEW w \in Operators, TruncateFile(w) PROVE RevokeInv'
        <2>1. \A v \in Operators : cmd'[v].pc = "revoke" => cmd'[v] = cmd[v]
            BY <1>11 DEF TruncateFile, TypeOK, Idle
        <2> QED BY <2>1 DEF RevokeInv
    <1>12. ASSUME NEW w \in Operators, WriteFile(w) PROVE RevokeInv'
        <2> DEFINE c == cmd[w]
        <2>1. c.arg \in Args /\ cmd' = [cmd EXCEPT ![w] = AfterWrite(c)]
            BY <1>12, CommandType DEF WriteFile
        <2> HIDE DEF c
        <2>2. \A v \in Operators : cmd'[v] = IF v = w THEN AfterWrite(c) ELSE cmd[v]
            BY <2>1 DEF TypeOK
        <2>3. AfterWrite(c).pc = "revoke" =>
                  /\ AfterWrite(c).principal \in Spellings
                  /\ AfterWrite(c).name = Lower[AfterWrite(c).principal]
            BY <2>1, NamesAssumption DEF AfterWrite, Idle, Args, GithubArgs, GoogleLines
        <2> QED BY <2>2, <2>3 DEF RevokeInv
    <1>13. ASSUME NEW w \in Operators, LookupSub(w) PROVE RevokeInv'
        <2>1. \A v \in Operators : cmd'[v].pc = "revoke" => cmd'[v] = cmd[v]
            BY <1>13 DEF LookupSub, TypeOK, Idle
        <2> QED BY <2>1 DEF RevokeInv
    <1>14. ASSUME NEW w \in Operators, DeletePin(w) PROVE RevokeInv'
        <2>1. cmd[w].email \in Emails /\ cmd[w].sub \in Subs \cup {None}
            BY <1>14, CommandType DEF DeletePin
        <2>2. \A v \in Operators : cmd'[v] =
                  IF v = w THEN [pc |-> "revoke", principal |-> cmd[w].sub, name |-> cmd[w].email]
                           ELSE cmd[v]
            BY <1>14 DEF DeletePin, TypeOK
        <2> QED BY <2>1, <2>2 DEF RevokeInv
    <1>15. ASSUME NEW w \in Operators, RevokeGrants(w) PROVE RevokeInv'
        <2>1. \A v \in Operators : cmd'[v].pc = "revoke" => cmd'[v] = cmd[v]
            BY <1>15 DEF RevokeGrants, TypeOK, Idle
        <2> QED BY <2>1 DEF RevokeInv
    <1>16. ASSUME NEW w \in Operators, CommandCrash(w) PROVE RevokeInv'
        <2>1. \A v \in Operators : cmd'[v].pc = "revoke" => cmd'[v] = cmd[v]
            BY <1>16 DEF CommandCrash, TypeOK, Idle
        <2> QED BY <2>1 DEF RevokeInv
    <1>17. ASSUME NEW s \in Subs, PinRevoke(s) PROVE RevokeInv'
        BY <1>17 DEF PinRevoke, RevokeInv
    <1>18. ASSUME ServerCrash PROVE RevokeInv'
        BY <1>18 DEF ServerCrash, RevokeInv
    <1>19. CASE UNCHANGED vars
        BY <1>19 DEF vars, RevokeInv
    <1> QED
        BY <1>1, <1>2, <1>3, <1>4, <1>5, <1>6, <1>7, <1>8, <1>9, <1>10,
           <1>11, <1>12, <1>13, <1>14, <1>15, <1>16, <1>17, <1>18, <1>19,
           <1>20, <1>21, <1>22, <1>23, <1>24 DEF Next

\* UnpinInv is preserved by every step.
LEMMA UnpinStep ==
    TypeOK /\ UnpinInv /\ [Next]_vars => UnpinInv'
    <1> SUFFICES ASSUME TypeOK, UnpinInv, [Next]_vars PROVE UnpinInv'
        OBVIOUS
    <1> USE DEF history
    <1>1. ASSUME NEW p \in Accounts, GithubSignIn(p) PROVE UnpinInv'
        BY <1>1 DEF GithubSignIn, UnpinInv, PinnedTo
    <1>2. ASSUME NEW s \in Subs, NEW e \in Emails, GoogleSignIn(s, e) PROVE UnpinInv'
        BY <1>2 DEF GoogleSignIn, UnpinInv, PinnedTo
    <1>3. ASSUME Returning PROVE UnpinInv'
        BY <1>3 DEF Returning, UnpinInv, PinnedTo
    <1>4. ASSUME Recheck PROVE UnpinInv'
        BY <1>4 DEF Recheck, UnpinInv, PinnedTo
    <1>5. ASSUME Invited PROVE UnpinInv'
        BY <1>5 DEF Invited, UnpinInv, PinnedTo
    <1>6. ASSUME CreatePin PROVE UnpinInv'
        <2>1. /\ cmd' = cmd /\ pins' = Inserted(srv.sub, srv.email)
              /\ srv.sub \in Subs /\ srv.email \in Emails
              /\ hidden' = hidden \cup {s \in DOMAIN pins' \ DOMAIN pins :
                     \E w \in Operators : cmd[w].pc = "unpin" /\ cmd[w].email = srv.email}
            BY <1>6, SignInType DEF CreatePin
        <2>2. \A s \in DOMAIN pins' :
                  \/ s \in DOMAIN pins /\ pins'[s] = pins[s]
                  \/ s \notin DOMAIN pins /\ pins'[s] = srv.email
            BY <2>1, InsertedType DEF TypeOK
        <2> QED BY <2>1, <2>2 DEF UnpinInv, PinnedTo
    <1>7. ASSUME NEW p \in Accounts, ConsentGithub(p) PROVE UnpinInv'
        BY <1>7 DEF ConsentGithub, UnpinInv, PinnedTo
    <1>8. ASSUME NEW s \in Subs, ConsentGoogle(s) PROVE UnpinInv'
        BY <1>8 DEF ConsentGoogle, UnpinInv, PinnedTo
    <1>20. ASSUME ConsentListed PROVE UnpinInv'
        BY <1>20 DEF ConsentListed, UnpinInv, PinnedTo
    <1>21. ASSUME CreateCode PROVE UnpinInv'
        BY <1>21 DEF CreateCode, UnpinInv, PinnedTo
    <1>22. ASSUME NEW p \in Principals, RedeemCode(p) PROVE UnpinInv'
        BY <1>22 DEF RedeemCode, UnpinInv, PinnedTo
    <1>23. ASSUME NEW p \in Principals, RotateRead(p) PROVE UnpinInv'
        BY <1>23 DEF RotateRead, UnpinInv, PinnedTo
    <1>24. ASSUME IssueTokens PROVE UnpinInv'
        BY <1>24 DEF IssueTokens, UnpinInv, PinnedTo
    <1>9. ASSUME NEW p \in Principals, Lapse(p) PROVE UnpinInv'
        BY <1>9 DEF Lapse, UnpinInv, PinnedTo
    <1>10. ASSUME NEW w \in Operators, NEW op \in {"add", "remove"}, NEW arg \in Args,
                 ReadFile(w, op, arg)
          PROVE  UnpinInv'
        <2>1. /\ pins' = pins /\ hidden \subseteq hidden'
              /\ \A v \in Operators : cmd'[v].pc = "unpin" => cmd'[v] = cmd[v]
            BY <1>10 DEF ReadFile, TypeOK, Idle
        <2> QED BY <2>1 DEF UnpinInv, PinnedTo
    <1>11. ASSUME NEW w \in Operators, TruncateFile(w) PROVE UnpinInv'
        <2>1. /\ pins' = pins /\ hidden \subseteq hidden'
              /\ \A v \in Operators : cmd'[v].pc = "unpin" => cmd'[v] = cmd[v]
            BY <1>11 DEF TruncateFile, TypeOK, Idle
        <2> QED BY <2>1 DEF UnpinInv, PinnedTo
    <1>12. ASSUME NEW w \in Operators, WriteFile(w) PROVE UnpinInv'
        <2>1. /\ pins' = pins /\ hidden' = hidden
              /\ \A v \in Operators : cmd'[v].pc = "unpin" => cmd'[v] = cmd[v]
            BY <1>12 DEF WriteFile, TypeOK, Idle, AfterWrite
        <2> QED BY <2>1 DEF UnpinInv, PinnedTo
    <1>13. ASSUME NEW w \in Operators, LookupSub(w) PROVE UnpinInv'
        <2>1. PICK s \in Subs \cup {None} :
                  /\ IF s = None THEN PinnedTo(cmd[w].email) = {} ELSE s \in PinnedTo(cmd[w].email)
                  /\ cmd' = [cmd EXCEPT ![w] = [pc |-> "unpin", email |-> cmd[w].email, sub |-> s]]
            BY <1>13 DEF LookupSub
        <2>2. /\ pins' = pins /\ hidden' = hidden
              /\ \A v \in Operators : v # w => cmd'[v] = cmd[v]
              /\ cmd'[w].email = cmd[w].email /\ cmd'[w].sub = s
            BY <1>13, <2>1 DEF LookupSub, TypeOK
        <2>3. \A r \in PinnedTo(cmd[w].email) : r = s
            BY <2>1 DEF PinnedTo, TypeOK, PinsOK
        <2> QED BY <2>2, <2>3 DEF UnpinInv, PinnedTo
    <1>14. ASSUME NEW w \in Operators, DeletePin(w) PROVE UnpinInv'
        <2>1. /\ pins' = PinsWithout(PinnedTo(cmd[w].email)) /\ hidden' = hidden
              /\ \A v \in Operators : cmd'[v].pc = "unpin" => cmd'[v] = cmd[v]
            BY <1>14 DEF DeletePin, Unpinned, TypeOK
        <2>2. \A s \in DOMAIN pins' : s \in DOMAIN pins /\ pins'[s] = pins[s]
            BY <2>1 DEF PinsWithout
        <2> QED BY <2>1, <2>2 DEF UnpinInv, PinnedTo
    <1>15. ASSUME NEW w \in Operators, RevokeGrants(w) PROVE UnpinInv'
        <2>1. /\ pins' = pins /\ hidden \cap DOMAIN pins \subseteq hidden'
              /\ \A v \in Operators : cmd'[v].pc = "unpin" => cmd'[v] = cmd[v]
            BY <1>15 DEF RevokeGrants, TypeOK
        <2> QED BY <2>1 DEF UnpinInv, PinnedTo
    <1>16. ASSUME NEW w \in Operators, CommandCrash(w) PROVE UnpinInv'
        <2>1. /\ pins' = pins /\ hidden \subseteq hidden'
              /\ \A v \in Operators : cmd'[v].pc = "unpin" => cmd'[v] = cmd[v]
            BY <1>16 DEF CommandCrash, TypeOK, Idle
        <2> QED BY <2>1 DEF UnpinInv, PinnedTo
    <1>17. ASSUME NEW s \in Subs, PinRevoke(s) PROVE UnpinInv'
        <2>1. /\ pins' = PinsWithout(PinnedTo(pins[s])) /\ hidden \subseteq hidden' /\ cmd' = cmd
            BY <1>17 DEF PinRevoke, Unpinned
        <2>2. \A r \in DOMAIN pins' : r \in DOMAIN pins /\ pins'[r] = pins[r]
            BY <2>1 DEF PinsWithout
        <2> QED BY <2>1, <2>2 DEF UnpinInv, PinnedTo
    <1>18. ASSUME ServerCrash PROVE UnpinInv'
        BY <1>18 DEF ServerCrash, UnpinInv, PinnedTo
    <1>19. CASE UNCHANGED vars
        BY <1>19 DEF vars, UnpinInv, PinnedTo
    <1> QED
        BY <1>1, <1>2, <1>3, <1>4, <1>5, <1>6, <1>7, <1>8, <1>9, <1>10,
           <1>11, <1>12, <1>13, <1>14, <1>15, <1>16, <1>17, <1>18, <1>19,
           <1>20, <1>21, <1>22, <1>23, <1>24 DEF Next

\* Who is covered changes only with what was asked, the pins, the commands and the history.
LEMMA CoverStays ==
    ASSUME asked' = asked, hidden' = hidden, pins' = pins, cmd' = cmd
    PROVE  /\ \A p : Covered(p) => Covered(p)'
           /\ \A s, e : PinHeld(s, e) => PinHeld(s, e)'
    BY DEF Covered, PinHeld, ListedIn, BeingRevoked, BeingUnpinned

\* A command's step that makes nobody due, and leaves whoever is still due covered.
LEMMA CoverKept ==
    ASSUME TypeOK, GrantsInv, overlapped = {}, srv' = srv, Due' \subseteq Due,
           \A p \in Due' : Covered(p) => Covered(p)',
           \A s \in Subs, e \in Emails : PinHeld(s, e) => PinHeld(s, e)'
    PROVE  GrantsInv'
    <1>1. srv.pc = "consent" => srv.sub \in Subs /\ srv.email \in Emails
        BY SignInType
    <1> QED BY <1>1 DEF GrantsInv

\* Due holds principals.
LEMMA DueType ==
    ASSUME TypeOK
    PROVE  Due \subseteq Principals
    BY ServedType DEF TypeOK, Due, Issuing

\* Every step keeps the grants, and those to come, covered.
LEMMA GrantsStep ==
    TypeOK /\ FileInv /\ RevokeInv /\ UnpinInv /\ GrantsInv /\ [Next]_vars => GrantsInv'
    <1> SUFFICES ASSUME TypeOK, FileInv, RevokeInv, UnpinInv, GrantsInv, [Next]_vars
          PROVE GrantsInv'
        OBVIOUS
    <1> USE DEF history
    <1>0. overlapped' # {} \/ (overlapped = {} /\ overlapped' = {})
        BY OverlapStays
    <1>1. ASSUME NEW p \in Accounts, GithubSignIn(p) PROVE GrantsInv'
        <2> SUFFICES ASSUME overlapped = {} PROVE GrantsInv'
            BY <1>0 DEF GrantsInv
        <2>1. /\ asked' = asked /\ hidden' = hidden /\ pins' = pins /\ cmd' = cmd
              /\ Due' \subseteq Due /\ srv' = srv
            BY <1>1 DEF GithubSignIn, Due, Issuing, Idle, TypeOK, HandlerState
        <2> QED BY <2>1, CoverStays DEF GrantsInv
    <1>2. ASSUME NEW s \in Subs, NEW e \in Emails, GoogleSignIn(s, e) PROVE GrantsInv'
        <2> SUFFICES ASSUME overlapped = {} PROVE GrantsInv'
            BY <1>0 DEF GrantsInv
        <2>1. /\ asked' = asked /\ hidden' = hidden /\ pins' = pins /\ cmd' = cmd
              /\ Due' \subseteq Due /\ srv'.pc # "consent"
            BY <1>2 DEF GoogleSignIn, Due, Issuing, Idle, TypeOK, HandlerState
        <2> QED BY <2>1, CoverStays DEF GrantsInv
    <1>3. ASSUME Returning PROVE GrantsInv'
        <2> SUFFICES ASSUME overlapped = {} PROVE GrantsInv'
            BY <1>0 DEF GrantsInv
        <2>1. /\ asked' = asked /\ hidden' = hidden /\ pins' = pins /\ cmd' = cmd
              /\ Due' \subseteq Due /\ srv'.pc # "consent"
            BY <1>3 DEF Returning, Due, Issuing, Idle, TypeOK, HandlerState
        <2> QED BY <2>1, CoverStays DEF GrantsInv
    <1>4. ASSUME Recheck PROVE GrantsInv'
        <2> SUFFICES ASSUME overlapped = {} PROVE GrantsInv'
            BY <1>0 DEF GrantsInv
        <2>1. /\ asked' = asked /\ hidden' = hidden /\ pins' = pins /\ cmd' = cmd
              /\ Due' \subseteq Due /\ srv'.pc # "consent"
            BY <1>4 DEF Recheck, Due, Issuing, Idle, TypeOK, HandlerState
        <2> QED BY <2>1, CoverStays DEF GrantsInv
    <1>5. ASSUME Invited PROVE GrantsInv'
        <2> SUFFICES ASSUME overlapped = {} PROVE GrantsInv'
            BY <1>0 DEF GrantsInv
        <2>1. /\ asked' = asked /\ hidden' = hidden /\ pins' = pins /\ cmd' = cmd
              /\ Due' \subseteq Due /\ srv'.pc # "consent"
            BY <1>5 DEF Invited, Due, Issuing, Idle, TypeOK, HandlerState
        <2> QED BY <2>1, CoverStays DEF GrantsInv
    <1>6. ASSUME CreatePin PROVE GrantsInv'
        <2> SUFFICES ASSUME overlapped = {} PROVE GrantsInv'
            BY <1>0 DEF GrantsInv
        <2>1. /\ asked' = asked /\ hidden \subseteq hidden' /\ cmd' = cmd
              /\ Due' \subseteq Due /\ srv'.pc # "consent"
              /\ pins' = Inserted(srv.sub, srv.email)
              /\ srv.sub \in Subs /\ srv.email \in Emails
            BY <1>6, SignInType DEF CreatePin, Due, Issuing, Idle
        <2>2. \A s \in DOMAIN pins : s \in DOMAIN pins' /\ pins'[s] = pins[s]
            BY <2>1, InsertedType DEF TypeOK
        <2>3. \A p : Covered(p) => Covered(p)'
            BY <2>1, <2>2 DEF Covered, ListedIn, BeingRevoked, BeingUnpinned
        <2> QED BY <2>1, <2>3 DEF GrantsInv
    <1>7. ASSUME NEW p \in Accounts, ConsentGithub(p) PROVE GrantsInv'
        <2> SUFFICES ASSUME overlapped = {} PROVE GrantsInv'
            BY <1>0 DEF GrantsInv
        <2>1. /\ asked' = asked /\ hidden' = hidden /\ pins' = pins /\ cmd' = cmd
              /\ Due' \subseteq Due \cup {p} /\ srv'.pc # "consent"
            BY <1>7 DEF ConsentGithub, Due, Issuing
        <2>2. ListedIn(asked, p)
            BY <1>7, FileBehind DEF ConsentGithub, Authorized, ListedIn, GithubIn, GoogleIn
        <2>3. Covered(p)
            BY <2>2 DEF Covered
        <2> QED BY <2>1, <2>3, CoverStays DEF GrantsInv
    <1>8. ASSUME NEW s \in Subs, ConsentGoogle(s) PROVE GrantsInv'
        <2> SUFFICES ASSUME overlapped = {} PROVE GrantsInv'
            BY <1>0 DEF GrantsInv
        <2>1. /\ asked' = asked /\ hidden' = hidden /\ pins' = pins /\ cmd' = cmd
              /\ Due' \subseteq Due /\ srv'.sub = s /\ srv'.email = pins[s]
            BY <1>8 DEF ConsentGoogle, Due, Issuing, Idle
        <2>2. PinHeld(s, pins[s])
            BY <1>8 DEF ConsentGoogle, PinHeld
        <2> QED BY <2>1, <2>2, CoverStays DEF GrantsInv
    <1>20. ASSUME ConsentListed PROVE GrantsInv'
        <2> SUFFICES ASSUME overlapped = {} PROVE GrantsInv'
            BY <1>0 DEF GrantsInv
        <2>1. /\ asked' = asked /\ hidden' = hidden /\ pins' = pins /\ cmd' = cmd
              /\ srv'.pc # "consent" /\ srv.sub \in Subs /\ PinHeld(srv.sub, srv.email)
              /\ Due' \subseteq Due \cup (IF srv.email \in GoogleIn(file) THEN {srv.sub} ELSE {})
            BY <1>20, SignInType DEF ConsentListed, Due, Issuing, Idle, GrantsInv
        <2>2. srv.email \in GoogleIn(file) => Covered(srv.sub)
            BY <2>1, FileBehind DEF Covered, PinHeld, ListedIn, GoogleIn
        <2>3. \A p \in Due' : Covered(p)
            BY <2>1, <2>2 DEF GrantsInv
        <2> QED BY <2>1, <2>3, CoverStays DEF GrantsInv
    <1>21. ASSUME CreateCode PROVE GrantsInv'
        <2> SUFFICES ASSUME overlapped = {} PROVE GrantsInv'
            BY <1>0 DEF GrantsInv
        <2>1. /\ asked' = asked /\ hidden' = hidden /\ pins' = pins /\ cmd' = cmd
              /\ Due' \subseteq Due /\ srv'.pc # "consent"
            BY <1>21 DEF CreateCode, Due, Issuing, Idle, TypeOK, HandlerState
        <2> QED BY <2>1, CoverStays DEF GrantsInv
    <1>22. ASSUME NEW p \in Principals, RedeemCode(p) PROVE GrantsInv'
        <2> SUFFICES ASSUME overlapped = {} PROVE GrantsInv'
            BY <1>0 DEF GrantsInv
        <2>1. /\ asked' = asked /\ hidden' = hidden /\ pins' = pins /\ cmd' = cmd
              /\ Due' \subseteq Due /\ srv'.pc # "consent"
            BY <1>22 DEF RedeemCode, Due, Issuing, Idle, TypeOK, HandlerState
        <2> QED BY <2>1, CoverStays DEF GrantsInv
    <1>23. ASSUME NEW p \in Principals, RotateRead(p) PROVE GrantsInv'
        <2> SUFFICES ASSUME overlapped = {} PROVE GrantsInv'
            BY <1>0 DEF GrantsInv
        <2>1. /\ asked' = asked /\ hidden' = hidden /\ pins' = pins /\ cmd' = cmd
              /\ Due' \subseteq Due /\ srv'.pc # "consent"
            BY <1>23 DEF RotateRead, Due, Issuing, Idle, TypeOK, HandlerState
        <2> QED BY <2>1, CoverStays DEF GrantsInv
    <1>24. ASSUME IssueTokens PROVE GrantsInv'
        <2> SUFFICES ASSUME overlapped = {} PROVE GrantsInv'
            BY <1>0 DEF GrantsInv
        <2>1. /\ asked' = asked /\ hidden' = hidden /\ pins' = pins /\ cmd' = cmd
              /\ Due' \subseteq Due /\ srv'.pc # "consent"
            BY <1>24 DEF IssueTokens, Due, Issuing, Idle, TypeOK, HandlerState
        <2> QED BY <2>1, CoverStays DEF GrantsInv
    <1>18. ASSUME ServerCrash PROVE GrantsInv'
        <2> SUFFICES ASSUME overlapped = {} PROVE GrantsInv'
            BY <1>0 DEF GrantsInv
        <2>1. /\ asked' = asked /\ hidden' = hidden /\ pins' = pins /\ cmd' = cmd
              /\ Due' \subseteq Due /\ srv'.pc # "consent"
            BY <1>18 DEF ServerCrash, Due, Issuing, Idle, TypeOK, HandlerState
        <2> QED BY <2>1, CoverStays DEF GrantsInv
    <1>9. ASSUME NEW p \in Principals, Lapse(p) PROVE GrantsInv'
        <2> SUFFICES ASSUME overlapped = {} PROVE GrantsInv'
            BY <1>0 DEF GrantsInv
        <2>1. /\ asked' = asked /\ hidden' = hidden /\ pins' = pins /\ cmd' = cmd
              /\ Due' \subseteq Due /\ srv' = srv
            BY <1>9 DEF Lapse, Due, Issuing, Idle, TypeOK, HandlerState
        <2> QED BY <2>1, CoverStays DEF GrantsInv
    <1>10. ASSUME NEW w \in Operators, NEW op \in {"add", "remove"}, NEW arg \in Args,
                 ReadFile(w, op, arg)
          PROVE  GrantsInv'
        <2> SUFFICES ASSUME overlapped = {} PROVE GrantsInv'
            BY <1>0 DEF GrantsInv
        <2>1. /\ asked' = asked /\ hidden' = hidden /\ pins' = pins /\ srv' = srv
              /\ Due' = Due
            BY <1>10 DEF ReadFile, Due, Issuing
        <2>2. \A v \in Operators :
                  /\ cmd[v].pc = "revoke" => cmd'[v] = cmd[v]
                  /\ cmd[v].pc \in {"lookup", "unpin"} =>
                         cmd'[v].pc \in {"lookup", "unpin"} /\ cmd'[v].email = cmd[v].email
            BY <1>10 DEF ReadFile, TypeOK
        <2>3. \A p : BeingRevoked(p) => BeingRevoked(p)'
            BY <2>1, <2>2 DEF BeingRevoked, BeingUnpinned
        <2> QED BY <2>1, <2>3, CoverKept DEF Covered, PinHeld, ListedIn
    <1>11. ASSUME NEW w \in Operators, TruncateFile(w) PROVE GrantsInv'
        <2> SUFFICES ASSUME overlapped = {} PROVE GrantsInv'
            BY <1>0 DEF GrantsInv
        <2>1. /\ asked' = asked /\ hidden' = hidden /\ pins' = pins /\ srv' = srv
              /\ Due' = Due
            BY <1>11 DEF TruncateFile, Due, Issuing
        <2>2. \A v \in Operators :
                  /\ cmd[v].pc = "revoke" => cmd'[v] = cmd[v]
                  /\ cmd[v].pc \in {"lookup", "unpin"} =>
                         cmd'[v].pc \in {"lookup", "unpin"} /\ cmd'[v].email = cmd[v].email
            BY <1>11 DEF TruncateFile, TypeOK
        <2>3. \A p : BeingRevoked(p) => BeingRevoked(p)'
            BY <2>1, <2>2 DEF BeingRevoked, BeingUnpinned
        <2> QED BY <2>1, <2>3, CoverKept DEF Covered, PinHeld, ListedIn
    <1>12. ASSUME NEW w \in Operators, WriteFile(w) PROVE GrantsInv'
        <2> SUFFICES ASSUME overlapped = {} PROVE GrantsInv'
            BY <1>0 DEF GrantsInv
        <2> DEFINE c == cmd[w]
        <2>1. /\ hidden' = hidden /\ pins' = pins /\ srv' = srv /\ Due' = Due
              /\ c.pc = "write" /\ c.arg \in Args /\ cmd' = [cmd EXCEPT ![w] = AfterWrite(c)]
              /\ asked' = IF c.op = "add" THEN asked \cup {LineOf(c.arg)}
                                          ELSE asked \ {LineOf(c.arg)}
            BY <1>12, CommandType DEF WriteFile, Due, Issuing
        <2>2. \A v \in Operators : v # w => cmd'[v] = cmd[v]
            BY <2>1 DEF TypeOK
        <2>3. cmd'[w] = AfterWrite(c)
            BY <2>1 DEF TypeOK
        <2>4. ASSUME NEW p \in Principals, Covered(p) PROVE Covered(p)'
            <3>1. BeingRevoked(p) => BeingRevoked(p)'
                BY <2>1, <2>2 DEF BeingRevoked, BeingUnpinned
            <3>2. CASE ListedIn(asked, p) /\ ~ListedIn(asked, p)'
                <4>1. CASE c.op = "add"
                    BY <2>1, <3>2, <4>1 DEF ListedIn, GithubIn, GoogleIn
                <4>2. CASE c.op # "add" /\ c.arg.form = "google"
                    <5>1. LineOf(c.arg) = c.arg /\ c.arg.form = "google"
                        BY <4>2 DEF LineOf
                    <5>2. p \in Subs /\ p \in DOMAIN pins /\ pins[p] = c.arg.email
                        BY <2>1, <3>2, <4>2, <5>1, NamesAssumption
                            DEF ListedIn, GithubIn, GoogleIn, GithubLines, GoogleLines
                    <5>3. cmd'[w].pc = "lookup" /\ cmd'[w].email = c.arg.email
                        BY <2>3, <4>2 DEF AfterWrite
                    <5> QED BY <2>1, <5>2, <5>3 DEF Covered, BeingRevoked, BeingUnpinned
                <4>3. CASE c.op # "add" /\ c.arg.form # "google"
                    <5>1. LineOf(c.arg).form # "google" /\ LineOf(c.arg).login = Lower[c.arg.name]
                        BY <4>3 DEF LineOf
                    <5>2. p \notin Subs /\ Lower[p] = Lower[c.arg.name]
                        BY <2>1, <3>2, <4>3, <5>1 DEF ListedIn, GithubIn, GoogleIn,
                            GoogleLines
                    <5>3. cmd'[w].pc = "revoke" /\ cmd'[w].name = Lower[c.arg.name]
                        BY <2>3, <4>3 DEF AfterWrite
                    <5> QED BY <5>2, <5>3 DEF Covered, BeingRevoked, Principals
                <4> QED BY <4>1, <4>2, <4>3
            <3> QED BY <2>1, <2>4, <3>1, <3>2 DEF Covered
        <2>5. \A p : BeingRevoked(p) => BeingRevoked(p)'
            BY <2>1, <2>2 DEF BeingRevoked, BeingUnpinned
        <2> HIDE DEF c
        <2>6. \A r, e : PinHeld(r, e) => PinHeld(r, e)'
            BY <2>1, <2>5 DEF PinHeld
        <2> QED BY <2>1, <2>4, <2>6, DueType, CoverKept
    <1>13. ASSUME NEW w \in Operators, LookupSub(w) PROVE GrantsInv'
        <2> SUFFICES ASSUME overlapped = {} PROVE GrantsInv'
            BY <1>0 DEF GrantsInv
        <2>1. /\ asked' = asked /\ hidden' = hidden /\ pins' = pins /\ srv' = srv
              /\ Due' = Due
            BY <1>13 DEF LookupSub, Due, Issuing
        <2>2. \A v \in Operators :
                  /\ cmd[v].pc = "revoke" => cmd'[v] = cmd[v]
                  /\ cmd[v].pc \in {"lookup", "unpin"} =>
                         cmd'[v].pc \in {"lookup", "unpin"} /\ cmd'[v].email = cmd[v].email
            BY <1>13 DEF LookupSub, TypeOK
        <2>3. \A p : BeingRevoked(p) => BeingRevoked(p)'
            BY <2>1, <2>2 DEF BeingRevoked, BeingUnpinned
        <2> QED BY <2>1, <2>3, CoverKept DEF Covered, PinHeld, ListedIn
    <1>14. ASSUME NEW w \in Operators, DeletePin(w) PROVE GrantsInv'
        <2> SUFFICES ASSUME overlapped = {} PROVE GrantsInv'
            BY <1>0 DEF GrantsInv
        <2> DEFINE gone == cmd[w].email
        <2>1. /\ asked' = asked /\ hidden' = hidden /\ srv' = srv /\ Due' = Due
              /\ pins' = PinsWithout(PinnedTo(gone)) /\ cmd[w].pc = "unpin"
              /\ cmd'[w] = [pc |-> "revoke", principal |-> cmd[w].sub, name |-> gone]
              /\ \A v \in Operators : v # w => cmd'[v] = cmd[v]
            BY <1>14 DEF DeletePin, Unpinned, TypeOK, Due, Issuing
        <2>2. ASSUME NEW p \in Principals, Covered(p) PROVE Covered(p)'
            <3>1. CASE p \in PinnedTo(gone)
                <4>1. p = cmd[w].sub \/ p \in hidden
                    BY <2>1, <3>1 DEF UnpinInv
                <4> QED BY <2>1, <4>1 DEF Covered, BeingRevoked
            <3>2. CASE p \notin PinnedTo(gone)
                <4>1. p \in DOMAIN pins <=> p \in DOMAIN pins'
                    BY <2>1, <3>2 DEF PinsWithout
                <4>2. p \in DOMAIN pins => pins'[p] = pins[p] /\ pins[p] # gone
                    BY <2>1, <3>2 DEF PinsWithout, PinnedTo
                <4> QED BY <2>1, <2>2, <4>1, <4>2 DEF Covered, ListedIn, BeingRevoked, BeingUnpinned
            <3> QED BY <3>1, <3>2
        <2>3. \A p : BeingRevoked(p) => BeingRevoked(p)' \/ p \in PinnedTo(gone)
            BY <2>1 DEF BeingRevoked, BeingUnpinned, PinsWithout, PinnedTo
        <2>4. \A p \in PinnedTo(gone) : p \in hidden' \/ BeingRevoked(p)'
            <3>1. \A p \in PinnedTo(gone) : p = cmd[w].sub \/ p \in hidden
                BY <2>1 DEF UnpinInv
            <3> QED BY <2>1, <3>1 DEF BeingRevoked
        <2>5. \A r \in DOMAIN pins : r \in PinnedTo(gone) \/ (r \in DOMAIN pins' /\ pins'[r] = pins[r])
            BY <2>1 DEF PinsWithout
        <2>6. \A r, e : PinHeld(r, e) => PinHeld(r, e)'
            BY <2>1, <2>3, <2>4, <2>5 DEF PinHeld
        <2> QED BY <2>1, <2>2, <2>6, DueType, CoverKept
    <1>15. ASSUME NEW w \in Operators, RevokeGrants(w) PROVE GrantsInv'
        <2> SUFFICES ASSUME overlapped = {} PROVE GrantsInv'
            BY <1>0 DEF GrantsInv
        <2> DEFINE q == cmd[w].principal
        <2>1. /\ asked' = asked /\ pins' = pins /\ srv' = srv /\ Due' \subseteq Due
              /\ \A p \in Due' : p = q => p \in hidden'
              /\ srv.pc = "consent" /\ srv.sub = q => q \in hidden'
              /\ hidden \ {q} \subseteq hidden'
              /\ \A r \in Accounts :
                     q \in Spellings /\ Lower[r] = Lower[q] /\ r # q => r \in hidden'
              /\ cmd[w].pc = "revoke" /\ cmd'[w].pc = "done"
              /\ \A v \in Operators : v # w => cmd'[v] = cmd[v]
            BY <1>15 DEF RevokeGrants, TypeOK, Due, Issuing, Served
        <2>2. ASSUME NEW p \in Principals, Covered(p), p \in Due'
              PROVE Covered(p)'
            <3>1. CASE p = q
                BY <2>1, <2>2, <3>1 DEF Covered
            <3>2. CASE p # q /\ p \in Accounts /\ Lower[p] = cmd[w].name
                <4>1. Lower[p] \notin Emails
                    BY <3>2, NamesAssumption
                <4>2. q \in Spellings /\ cmd[w].name = Lower[q]
                    BY <2>1, <3>2, <4>1 DEF RevokeInv
                <4> QED BY <2>1, <3>2, <4>2 DEF Covered
            <3>3. CASE p # q /\ ~(p \in Accounts /\ Lower[p] = cmd[w].name)
                BY <2>1, <2>2, <3>3 DEF Covered, ListedIn, BeingRevoked, BeingUnpinned
            <3> QED BY <3>1, <3>2, <3>3
        <2>3. srv.pc = "consent" => PinHeld(srv.sub, srv.email)'
            <3> SUFFICES ASSUME srv.pc = "consent" PROVE PinHeld(srv.sub, srv.email)'
                OBVIOUS
            <3>1. srv.sub \in Subs /\ PinHeld(srv.sub, srv.email)
                BY SignInType DEF GrantsInv
            <3>2. CASE srv.sub = q
                BY <2>1, <3>2 DEF PinHeld
            <3>3. CASE srv.sub # q
                <4>1. srv.sub \notin Accounts
                    BY <3>1, NamesAssumption
                <4> QED BY <2>1, <3>1, <3>3, <4>1 DEF PinHeld, BeingRevoked, BeingUnpinned
            <3> QED BY <3>2, <3>3
        <2> QED BY <2>1, <2>2, <2>3, DueType DEF GrantsInv
    <1>16. ASSUME NEW w \in Operators, CommandCrash(w) PROVE GrantsInv'
        <2> SUFFICES ASSUME overlapped = {} PROVE GrantsInv'
            BY <1>0 DEF GrantsInv
        <2>1. /\ asked' = asked /\ pins' = pins /\ srv' = srv /\ Due' = Due
              /\ hidden \subseteq hidden'
              /\ cmd[w].pc \in {"lookup", "unpin"} => PinnedTo(cmd[w].email) \subseteq hidden'
              /\ cmd[w].pc = "revoke" => \A q \in Principals :
                     q = cmd[w].principal \/ (q \in Accounts /\ Lower[q] = cmd[w].name)
                         => q \in hidden'
              /\ \A v \in Operators : v # w => cmd'[v] = cmd[v]
            BY <1>16 DEF CommandCrash, TypeOK, Due, Issuing
        <2>2. ASSUME NEW p \in Principals, Covered(p) PROVE Covered(p)'
            BY <2>1, <2>2 DEF Covered, ListedIn, BeingRevoked, BeingUnpinned, PinnedTo
        <2>3. ASSUME NEW r \in Subs, NEW e \in Emails, PinHeld(r, e) PROVE PinHeld(r, e)'
            <3>1. r \in Principals
                BY DEF Principals
            <3> QED BY <2>1, <2>3, <3>1 DEF PinHeld, BeingRevoked, BeingUnpinned, PinnedTo
        <2> QED BY <2>1, <2>2, <2>3, DueType, CoverKept
    <1>17. ASSUME NEW s \in Subs, PinRevoke(s) PROVE GrantsInv'
        <2> SUFFICES ASSUME overlapped = {} PROVE GrantsInv'
            BY <1>0 DEF GrantsInv
        <2>1. /\ asked' = asked /\ hidden' = hidden \cup {s} /\ cmd' = cmd
              /\ srv' = srv /\ Due' = Due
              /\ pins' = PinsWithout(PinnedTo(pins[s])) /\ s \in DOMAIN pins
            BY <1>17 DEF PinRevoke, Unpinned, Due, Issuing
        <2>2. PinnedTo(pins[s]) = {s}
            BY <2>1 DEF PinnedTo, TypeOK, PinsOK
        <2>3. \A p : p # s => /\ p \in DOMAIN pins <=> p \in DOMAIN pins'
                              /\ p \in DOMAIN pins => pins'[p] = pins[p]
            BY <2>1, <2>2 DEF PinsWithout
        <2>4. \A p : BeingRevoked(p) => BeingRevoked(p)' \/ p = s
            BY <2>1, <2>3 DEF BeingRevoked, BeingUnpinned
        <2>5. \A p : Covered(p) => Covered(p)'
            BY <2>1, <2>3, <2>4 DEF Covered, ListedIn
        <2>6. \A r, e : PinHeld(r, e) => PinHeld(r, e)'
            BY <2>1, <2>3, <2>4 DEF PinHeld
        <2> QED BY <2>1, <2>5, <2>6, CoverKept
    <1>19. CASE UNCHANGED vars
        <2>1. /\ asked' = asked /\ hidden' = hidden /\ pins' = pins /\ cmd' = cmd /\ srv' = srv
              /\ Due' = Due /\ overlapped' = overlapped
            BY <1>19 DEF vars, Due, Issuing
        <2> QED BY <2>1, CoverStays DEF GrantsInv
    <1> QED
        BY <1>1, <1>2, <1>3, <1>4, <1>5, <1>6, <1>7, <1>8, <1>9, <1>10,
           <1>11, <1>12, <1>13, <1>14, <1>15, <1>16, <1>17, <1>18, <1>19,
           <1>20, <1>21, <1>22, <1>23, <1>24 DEF Next

\* A grant outlives its holder's invite only out of the removal's reach: for any number of
\* friends, spellings, subjects, sign-ins and removals that run one after the other.
THEOREM GrantsFollowInvites == Spec => []GrantsOutliveRemovalOnlyHidden
<1>1. Init => FileInv /\ RevokeInv /\ UnpinInv /\ GrantsInv
    BY DEF Init, FileInv, Writing, RevokeInv, UnpinInv, GrantsInv, Due, Issuing, Idle
<1>2. GrantsInv => GrantsOutliveRemovalOnlyHidden
    BY DEF GrantsInv, Covered, Due, GrantsOutliveRemovalOnlyHidden
<1> QED BY <1>1, <1>2, FileStep, RevokeStep, UnpinStep, GrantsStep, TypeCorrect, PTL DEF Spec

-----------------------------------------------------------------------------
(* The grants of friends implement GrantLifecycle.                         *)

\* A consent under way is a signed-in friend's.
AdmittedInv ==
    /\ srv.pc = "consent" => srv.sub \in sessions
    /\ srv.pc = "code" => srv.principal \in sessions

\* AdmittedInv is preserved by every step.
LEMMA AdmittedStep == AdmittedInv /\ [Next]_vars => AdmittedInv'
    <1> SUFFICES ASSUME AdmittedInv, [Next]_vars PROVE AdmittedInv'
        OBVIOUS
    <1> USE DEF history
    <1>1. ASSUME NEW p \in Accounts, GithubSignIn(p) PROVE AdmittedInv'
        BY <1>1 DEF GithubSignIn, AdmittedInv, Idle
    <1>2. ASSUME NEW s \in Subs, NEW e \in Emails, GoogleSignIn(s, e) PROVE AdmittedInv'
        BY <1>2 DEF GoogleSignIn, AdmittedInv, Idle
    <1>3. ASSUME Returning PROVE AdmittedInv'
        BY <1>3 DEF Returning, AdmittedInv, Idle
    <1>4. ASSUME Recheck PROVE AdmittedInv'
        BY <1>4 DEF Recheck, AdmittedInv, Idle
    <1>5. ASSUME Invited PROVE AdmittedInv'
        BY <1>5 DEF Invited, AdmittedInv, Idle
    <1>6. ASSUME CreatePin PROVE AdmittedInv'
        BY <1>6 DEF CreatePin, AdmittedInv, Idle
    <1>7. ASSUME NEW p \in Accounts, ConsentGithub(p) PROVE AdmittedInv'
        BY <1>7 DEF ConsentGithub, AdmittedInv, Idle
    <1>8. ASSUME NEW s \in Subs, ConsentGoogle(s) PROVE AdmittedInv'
        BY <1>8 DEF ConsentGoogle, AdmittedInv, Idle
    <1>9. ASSUME ConsentListed PROVE AdmittedInv'
        BY <1>9 DEF ConsentListed, AdmittedInv, Idle
    <1>10. ASSUME CreateCode PROVE AdmittedInv'
        BY <1>10 DEF CreateCode, AdmittedInv, Idle
    <1>11. ASSUME IssueTokens PROVE AdmittedInv'
        BY <1>11 DEF IssueTokens, AdmittedInv, Idle
    <1>12. ASSUME NEW p \in Principals, RedeemCode(p) PROVE AdmittedInv'
        BY <1>12 DEF RedeemCode, AdmittedInv, Idle
    <1>13. ASSUME NEW p \in Principals, RotateRead(p) PROVE AdmittedInv'
        BY <1>13 DEF RotateRead, AdmittedInv, Idle
    <1>14. ASSUME NEW p \in Principals, Lapse(p) PROVE AdmittedInv'
        BY <1>14 DEF Lapse, AdmittedInv, Idle
    <1>15. ASSUME NEW w \in Operators, NEW op \in {"add", "remove"}, NEW arg \in Args,
                  ReadFile(w, op, arg)
          PROVE  AdmittedInv'
        BY <1>15 DEF ReadFile, AdmittedInv, Idle
    <1>16. ASSUME NEW w \in Operators, TruncateFile(w) PROVE AdmittedInv'
        BY <1>16 DEF TruncateFile, AdmittedInv, Idle
    <1>17. ASSUME NEW w \in Operators, WriteFile(w) PROVE AdmittedInv'
        BY <1>17 DEF WriteFile, AdmittedInv, Idle
    <1>18. ASSUME NEW w \in Operators, LookupSub(w) PROVE AdmittedInv'
        BY <1>18 DEF LookupSub, AdmittedInv, Idle
    <1>19. ASSUME NEW w \in Operators, DeletePin(w) PROVE AdmittedInv'
        BY <1>19 DEF DeletePin, AdmittedInv, Idle
    <1>20. ASSUME NEW w \in Operators, RevokeGrants(w) PROVE AdmittedInv'
        BY <1>20 DEF RevokeGrants, AdmittedInv, Idle
    <1>21. ASSUME NEW w \in Operators, CommandCrash(w) PROVE AdmittedInv'
        BY <1>21 DEF CommandCrash, AdmittedInv, Idle
    <1>22. ASSUME NEW s \in Subs, PinRevoke(s) PROVE AdmittedInv'
        BY <1>22 DEF PinRevoke, AdmittedInv, Idle
    <1>23. ASSUME ServerCrash PROVE AdmittedInv'
        BY <1>23 DEF ServerCrash, AdmittedInv, Idle
    <1>24. CASE UNCHANGED vars
        BY <1>24 DEF vars, AdmittedInv, Idle
    <1> QED
        BY <1>1, <1>2, <1>3, <1>4, <1>5, <1>6, <1>7, <1>8, <1>9, <1>10,
           <1>11, <1>12, <1>13, <1>14, <1>15, <1>16, <1>17, <1>18, <1>19, <1>20,
           <1>21, <1>22, <1>23, <1>24 DEF Next

\* A step that admits friends, or nobody, and neither issues nor takes back anything.
LEMMA Admits ==
    ASSUME UNCHANGED <<offers, grants>>, sessions \subseteq sessions',
           sessions' \subseteq Principals,
           srv.pc \notin {"tokens", "mint"}, srv'.pc \notin {"tokens", "mint"}
    PROVE  [Lifecycle!Next]_(Lifecycle!vars)
    BY DEF ServedIn, Lifecycle!Next, Lifecycle!Admit

\* A step that touches no session, code or family, and starts no exchange or rotation.
LEMMA Stutters ==
    ASSUME UNCHANGED <<sessions, offers, grants>>,
           \/ srv' = srv
           \/ srv.pc \notin {"tokens", "mint"} /\ srv'.pc \notin {"tokens", "mint"}
    PROVE  [Lifecycle!Next]_(Lifecycle!vars)
    BY DEF ServedIn, Lifecycle!vars

\* Every step of the server and the commands is a step of GrantLifecycle, or changes
\* nothing it sees.
LEMMA LifecycleStep ==
    TypeOK /\ TypeOK' /\ AdmittedInv /\ [Next]_vars => [Lifecycle!Next]_(Lifecycle!vars)
    <1> SUFFICES ASSUME TypeOK, TypeOK', AdmittedInv, [Next]_vars
                 PROVE  [Lifecycle!Next]_(Lifecycle!vars)
        OBVIOUS
    <1> USE DEF history
    <1>0. sessions' \subseteq Principals
        BY DEF TypeOK
    <1>1. ASSUME NEW p \in Accounts, GithubSignIn(p) PROVE [Lifecycle!Next]_(Lifecycle!vars)
        BY <1>0, <1>1, Admits DEF GithubSignIn, Idle
    <1>2. ASSUME NEW s \in Subs, NEW e \in Emails, GoogleSignIn(s, e)
          PROVE  [Lifecycle!Next]_(Lifecycle!vars)
        BY <1>2, Stutters DEF GoogleSignIn, Idle
    <1>3. ASSUME Returning PROVE [Lifecycle!Next]_(Lifecycle!vars)
        BY <1>3, Stutters DEF Returning, Idle
    <1>4. ASSUME Recheck PROVE [Lifecycle!Next]_(Lifecycle!vars)
        BY <1>0, <1>4, Admits DEF Recheck, Idle
    <1>5. ASSUME Invited PROVE [Lifecycle!Next]_(Lifecycle!vars)
        BY <1>5, Stutters DEF Invited, Idle
    <1>6. ASSUME CreatePin PROVE [Lifecycle!Next]_(Lifecycle!vars)
        BY <1>0, <1>6, Admits DEF CreatePin, Idle
    <1>7. ASSUME NEW p \in Accounts, ConsentGithub(p) PROVE [Lifecycle!Next]_(Lifecycle!vars)
        BY <1>7, Stutters DEF ConsentGithub, Idle
    <1>8. ASSUME NEW s \in Subs, ConsentGoogle(s) PROVE [Lifecycle!Next]_(Lifecycle!vars)
        BY <1>8, Stutters DEF ConsentGoogle, Idle
    <1>9. ASSUME ConsentListed PROVE [Lifecycle!Next]_(Lifecycle!vars)
        BY <1>9, Stutters DEF ConsentListed, Idle
    <1>10. ASSUME CreateCode PROVE [Lifecycle!Next]_(Lifecycle!vars)
        BY <1>10 DEF CreateCode, AdmittedInv, ServedIn, Idle, Lifecycle!Next, Lifecycle!Offer
    <1>11. ASSUME IssueTokens PROVE [Lifecycle!Next]_(Lifecycle!vars)
        BY <1>11 DEF IssueTokens, ServedIn, Idle, Lifecycle!vars, Lifecycle!Next,
            Lifecycle!Activate
    <1>12. ASSUME NEW p \in Principals, RedeemCode(p) PROVE [Lifecycle!Next]_(Lifecycle!vars)
        BY <1>12 DEF RedeemCode, ServedIn, Idle, Lifecycle!Next, Lifecycle!Withdraw
    <1>13. ASSUME NEW p \in Principals, RotateRead(p) PROVE [Lifecycle!Next]_(Lifecycle!vars)
        BY <1>13 DEF RotateRead, ServedIn, Idle, Lifecycle!Next, Lifecycle!Withdraw
    <1>14. ASSUME NEW p \in Principals, Lapse(p) PROVE [Lifecycle!Next]_(Lifecycle!vars)
        BY <1>14 DEF Lapse, ServedIn, Idle, Lifecycle!Next, Lifecycle!Withdraw
    <1>15. ASSUME NEW w \in Operators, NEW op \in {"add", "remove"}, NEW arg \in Args,
                  ReadFile(w, op, arg)
          PROVE  [Lifecycle!Next]_(Lifecycle!vars)
        BY <1>15, Stutters DEF ReadFile, Idle
    <1>16. ASSUME NEW w \in Operators, TruncateFile(w) PROVE [Lifecycle!Next]_(Lifecycle!vars)
        BY <1>16, Stutters DEF TruncateFile, Idle
    <1>17. ASSUME NEW w \in Operators, WriteFile(w) PROVE [Lifecycle!Next]_(Lifecycle!vars)
        BY <1>17, Stutters DEF WriteFile, Idle
    <1>18. ASSUME NEW w \in Operators, LookupSub(w) PROVE [Lifecycle!Next]_(Lifecycle!vars)
        BY <1>18, Stutters DEF LookupSub, Idle
    <1>19. ASSUME NEW w \in Operators, DeletePin(w) PROVE [Lifecycle!Next]_(Lifecycle!vars)
        BY <1>19, Stutters DEF DeletePin, Idle
    <1>20. ASSUME NEW w \in Operators, RevokeGrants(w) PROVE [Lifecycle!Next]_(Lifecycle!vars)
        BY <1>20 DEF RevokeGrants, ServedIn, Idle, Lifecycle!Next, Lifecycle!Withdraw
    <1>21. ASSUME NEW w \in Operators, CommandCrash(w) PROVE [Lifecycle!Next]_(Lifecycle!vars)
        BY <1>21, Stutters DEF CommandCrash, Idle
    <1>22. ASSUME NEW s \in Subs, PinRevoke(s) PROVE [Lifecycle!Next]_(Lifecycle!vars)
        BY <1>22, Stutters DEF PinRevoke, Idle
    <1>23. ASSUME ServerCrash PROVE [Lifecycle!Next]_(Lifecycle!vars)
        BY <1>23 DEF ServerCrash, ServedIn, Idle, Lifecycle!Next, Lifecycle!Withdraw
    <1>24. CASE UNCHANGED vars
        BY <1>24, Stutters DEF vars, Idle
    <1> QED
        BY <1>1, <1>2, <1>3, <1>4, <1>5, <1>6, <1>7, <1>8, <1>9, <1>10,
           <1>11, <1>12, <1>13, <1>14, <1>15, <1>16, <1>17, <1>18, <1>19, <1>20,
           <1>21, <1>22, <1>23, <1>24 DEF Next

\* For any number of friends and commands: a friend gets a code only once admitted through
\* a front door, and after the last grant is gone only a code brings another.
THEOREM GrantsImplementLifecycle == Spec => ImplementsLifecycle
<1>1. Init => AdmittedInv /\ Lifecycle!Init
    BY DEF Init, AdmittedInv, Lifecycle!Init, ServedIn, Idle
<1> QED
    BY <1>1, AdmittedStep, LifecycleStep, TypeCorrect, PTL
    DEF Spec, ImplementsLifecycle, Lifecycle!Spec

=============================================================================
