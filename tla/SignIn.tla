------------------------------- MODULE SignIn -------------------------------
(***************************************************************************)
(* Accounts by email and password: the sign-in panel and the forgotten-    *)
(* password form, their routes in front of Supabase Auth, the one-time     *)
(* links it mails, and the two pages such a link opens.  The panel's tab   *)
(* and the link's tab share one browser's cookie; a second browser may     *)
(* hold an older session of the same account.  Supabase Auth itself is     *)
(* modelled from the calls the routes make of it.                          *)
(***************************************************************************)
EXTENDS Integers, Sequences

CONSTANTS
    Emails,         \* addresses a visitor may type
    Registered,     \* those that have a confirmed account already
    Passwords,      \* passwords within the policy
    Floor, Step,    \* the duration floor of an email request and its step
    MaxTook,        \* bound: how long Supabase takes
    MaxMails,       \* bound: links mailed
    MaxUpsets,      \* bound: limits met, links cut short, answers lost
    MaxTyping       \* bound: edits of the panel

ASSUME FloorAssumption == Floor \in Nat /\ Step \in Nat \ {0} /\ MaxTook \in Nat

VARIABLES
    users,      \* Supabase's accounts: [exists, confirmed, password]
    mails,      \* the links mailed, in order: [kind, to, spent]
    cookie,     \* the session of this browser: an address, or NoSession
    elsewhere,  \* the session of another browser: [who, password it began with, kept when it should have ended]
    panel,      \* [page, mode, email, password, sentTo, message]
    calls,      \* the requests in flight: "form", "again" (a resend) and "link"
    linkPage,   \* [page, mail, cut, stage; history: the account whose password it saved]
    accepted,   \* history: the addresses an email request was accepted for
    resent,     \* history: the addresses the message's own button was used for
    upsets, typing

signInVars == <<users, mails, cookie, elsewhere, panel, calls, linkPage, accepted, resent, upsets, typing>>

NoSession == "no session"
None == "none"
ASSUME NamesAssumption == {None, NoSession} \cap Emails = {} /\ None \notin Passwords /\ Registered \subseteq Emails /\ Passwords # {}
NoOther == [who |-> NoSession, password |-> None, kept |-> FALSE]
NoCall == [route |-> None]
Busy(slot) == calls[slot] # NoCall
EmailRoutes == {"sign-up", "resend", "forgot"}
Sending(r, e, p) == [route |-> r, email |-> e, password |-> p, code |-> None, took |-> 0, at |-> 0]

----------------------------------------------------------------------------

\* The panel and the forgotten-password form.
TypeInto(e, p) ==
    /\ panel.sentTo = None /\ typing < MaxTyping /\ typing' = typing + 1
    /\ <<e, p>> # <<panel.email, panel.password>>
    /\ panel' = [panel EXCEPT !.email = e, !.password = p]
    /\ UNCHANGED <<users, mails, cookie, elsewhere, calls, linkPage, accepted, resent, upsets>>
\* Nothing disables the other tab of the panel while a request is out.
SwitchMode(m) ==
    /\ panel.sentTo = None /\ panel.page = "signin" /\ panel.mode # m /\ typing < MaxTyping
    /\ typing' = typing + 1
    /\ panel' = [panel EXCEPT !.mode = m, !.message = None]
    /\ UNCHANGED <<users, mails, cookie, elsewhere, calls, linkPage, accepted, resent, upsets>>
ForgotPassword ==
    /\ panel.page = "signin" /\ panel.mode = "sign-in" /\ ~Busy("form") /\ ~Busy("again")
    /\ panel' = [panel EXCEPT !.page = "forgot", !.sentTo = None, !.message = None]
    /\ UNCHANGED <<users, mails, cookie, elsewhere, calls, linkPage, accepted, resent, upsets, typing>>
BackToSignIn ==
    /\ panel.page = "forgot" /\ ~Busy("form") /\ ~Busy("again")
    /\ panel' = [panel EXCEPT !.page = "signin", !.mode = "sign-in", !.sentTo = None, !.message = None]
    /\ UNCHANGED <<users, mails, cookie, elsewhere, calls, linkPage, accepted, resent, upsets, typing>>
\* "Sign in", or "Use a different email address", under the notice.
UseAnother ==
    /\ panel.page = "signin" /\ panel.sentTo # None
    /\ \E m \in {"sign-in", "sign-up"} :
        panel' = [panel EXCEPT !.sentTo = None, !.message = None, !.mode = m,
                               !.email = IF m = "sign-up" THEN None ELSE @]
    /\ UNCHANGED <<users, mails, cookie, elsewhere, calls, linkPage, accepted, resent, upsets, typing>>
Submit1 ==
    /\ panel.sentTo = None /\ ~Busy("form")
    /\ panel.email # None /\ (panel.page = "signin" => panel.password # None)
    /\ calls' = [calls EXCEPT !["form"] =
                    Sending(IF panel.page = "forgot" THEN "forgot" ELSE panel.mode, panel.email, panel.password)]
    /\ panel' = [panel EXCEPT !.message = None]
    /\ UNCHANGED <<users, mails, cookie, elsewhere, linkPage, accepted, resent, upsets, typing>>
\* "Send the email again" under the notice, and the button of the message that
\* an address is not confirmed, which shows the notice whatever was answered.
Resend ==
    /\ ~Busy("again")
    /\ \/ panel.sentTo # None
       \/ panel.message = "email_not_confirmed" /\ panel.email # None
    /\ calls' = [calls EXCEPT !["again"] =
                    [Sending(IF panel.page = "forgot" THEN "forgot" ELSE "resend",
                             IF panel.sentTo # None THEN panel.sentTo ELSE panel.email, None)
                     EXCEPT !.took = IF panel.sentTo # None THEN 0 ELSE 1]]
    /\ UNCHANGED <<users, mails, cookie, elsewhere, panel, linkPage, accepted, resent, upsets, typing>>

\* (Mutant) the notice names the address the form holds by now.
MutantFormAnswered(c) ==
    CASE c.code = "check_email" -> [panel EXCEPT !.sentTo = panel.email, !.password = None]
      [] c.code = "signed_in" -> [panel EXCEPT !.page = "left", !.sentTo = None]
      [] OTHER -> [panel EXCEPT !.message = c.code]

FormAnswered(c) ==
    CASE c.code = "check_email" -> [panel EXCEPT !.sentTo = c.email, !.password = IF c.route = "sign-up" THEN None ELSE @]
      [] c.code = "signed_in" -> [panel EXCEPT !.page = "left", !.sentTo = None]
      [] OTHER -> [panel EXCEPT !.message = c.code]

Answered(slot) ==
    /\ slot \in {"form", "again"} /\ Busy(slot) /\ calls[slot].code # None
    /\ calls' = [calls EXCEPT ![slot] = NoCall]
    /\ IF panel.page = "left" THEN UNCHANGED <<panel, resent>>
       ELSE IF slot = "form" THEN panel' = FormAnswered(calls[slot]) /\ UNCHANGED resent
       ELSE IF calls[slot].took = 1
            THEN panel' = [panel EXCEPT !.sentTo = calls[slot].email, !.message = None] /\ resent' = resent \cup {calls[slot].email}
       ELSE UNCHANGED <<panel, resent>>
    /\ UNCHANGED <<users, mails, cookie, elsewhere, linkPage, accepted, upsets, typing>>

----------------------------------------------------------------------------

\* uniformDelay: the end of the floor, or of the next step past it.

UniformDelay(took) ==
    LET target == IF took <= Floor THEN Floor ELSE Floor + ((took - Floor + Step - 1) \div Step) * Step IN target - took

Mailed(kind, e) ==
    IF Len(mails) < MaxMails THEN Append(mails, [kind |-> kind, to |-> e, spent |-> FALSE]) ELSE mails

\* What Supabase does of an email request; the route answers 202 whatever it does.
EmailRequest(c) ==
    LET u == users[c.email] IN
    /\ users' = IF c.route = "sign-up" /\ ~u.exists
                THEN [users EXCEPT ![c.email] = [exists |-> TRUE, confirmed |-> FALSE, password |-> c.password]] ELSE users
    /\ mails' = IF c.route = "forgot" THEN (IF u.confirmed THEN Mailed("recovery", c.email) ELSE mails)
                ELSE IF c.route = "resend" => u.exists THEN (IF u.confirmed THEN mails ELSE Mailed("email", c.email)) ELSE mails
    /\ UNCHANGED cookie
SignInFailure(c) ==
    LET u == users[c.email] IN
    IF ~u.exists \/ u.password # c.password THEN "invalid_credentials"
    ELSE IF ~u.confirmed THEN "email_not_confirmed" ELSE "signed_in"

\* A route of the panel: refused by the limit on the address, or run.
Answer1(slot, took) ==
    LET c == calls[slot] IN
    /\ slot \in {"form", "again"} /\ Busy(slot) /\ c.code = None
    /\ \/ /\ upsets < MaxUpsets /\ upsets' = upsets + 1
          /\ calls' = [calls EXCEPT ![slot].code = "rate_limited"]
          /\ UNCHANGED <<users, mails, cookie, accepted>>
       \/ /\ c.route \in EmailRoutes
          /\ EmailRequest(c)
          /\ accepted' = accepted \cup {c.email}
          /\ calls' = [calls EXCEPT ![slot].code = "check_email", ![slot].at = took + UniformDelay(took)]
          /\ UNCHANGED upsets
       \/ /\ c.route = "sign-in"
          /\ cookie' = IF SignInFailure(c) = "signed_in" THEN c.email ELSE cookie
          /\ calls' = [calls EXCEPT ![slot].code = SignInFailure(c), ![slot].at = IF SignInFailure(c) = "signed_in" THEN Floor ELSE took + UniformDelay(took)]
          /\ UNCHANGED <<users, mails, accepted, upsets>>
    /\ UNCHANGED <<elsewhere, panel, linkPage, resent, typing>>

LoseAnswer(slot) ==
    /\ Busy(slot) /\ upsets < MaxUpsets /\ upsets' = upsets + 1
    /\ calls' = [calls EXCEPT ![slot].code = IF slot = "link" THEN "lost" ELSE "unavailable"]
    /\ UNCHANGED <<users, mails, cookie, elsewhere, panel, linkPage, accepted, resent, typing>>

----------------------------------------------------------------------------

\* A link is opened in a tab of its own, whole or cut short in the copying; the
\* page posts its token once and clears it from the address.
PageOf1(kind) == IF kind = "email" THEN "confirm" ELSE "reset"
OpenLink(n, cut) ==
    /\ n \in 1..Len(mails) /\ ~Busy("link")
    /\ linkPage.stage \notin {"verifying", "choose"}
    /\ cut => upsets < MaxUpsets
    /\ upsets' = IF cut THEN upsets + 1 ELSE upsets
    /\ linkPage' = [page |-> PageOf1(mails[n].kind), mail |-> n, cut |-> cut, saved |-> None,
                    stage |-> IF ~cut THEN "verifying" ELSE IF mails[n].kind = "recovery" /\ cookie # NoSession THEN "choose"
                              ELSE IF mails[n].kind = "recovery" THEN "no_link" ELSE "link_invalid"]
    /\ calls' = [calls EXCEPT !["link"] = IF cut THEN NoCall ELSE Sending(PageOf1(mails[n].kind), mails[n].to, None)]
    /\ UNCHANGED <<users, mails, cookie, elsewhere, panel, accepted, resent, typing>>

\* The two verification routes.
Verify ==
    LET n == linkPage.mail IN
    /\ Busy("link") /\ calls["link"].route \in {"confirm", "reset"} /\ calls["link"].code = None
    /\ \/ /\ upsets < MaxUpsets /\ upsets' = upsets + 1
          /\ calls' = [calls EXCEPT !["link"].code = "rate_limited"]
          /\ UNCHANGED <<users, mails, cookie>>
       \/ /\ mails[n].spent
          /\ calls' = [calls EXCEPT !["link"].code = "link_unusable"]
          /\ UNCHANGED <<users, mails, cookie, upsets>>
       \/ /\ ~mails[n].spent
          /\ mails' = [mails EXCEPT ![n].spent = TRUE]
          /\ users' = [users EXCEPT ![mails[n].to].confirmed = TRUE]
          /\ cookie' = mails[n].to
          /\ calls' = [calls EXCEPT !["link"].code = "ok"]
          /\ UNCHANGED upsets
    /\ UNCHANGED <<elsewhere, panel, linkPage, accepted, resent, typing>>

\* The reset page asks for a password, which is set for whoever the cookie says.
ChoosePassword(p) ==
    /\ linkPage.page = "reset" /\ linkPage.stage = "choose" /\ ~Busy("link")
    /\ calls' = [calls EXCEPT !["link"] = Sending("update-password", None, p)]
    /\ UNCHANGED <<users, mails, cookie, elsewhere, panel, linkPage, accepted, resent, upsets, typing>>

\* The password changes, then the other sessions of the account are ended, which
\* can fail: the route does not look.
UpdatePassword ==
    LET c == calls["link"] IN
    /\ Busy("link") /\ c.route = "update-password" /\ c.code = None
    /\ IF cookie = NoSession THEN calls' = [calls EXCEPT !["link"].code = "reset_session_expired"] /\ UNCHANGED <<users, elsewhere, upsets>>
       ELSE IF c.email # None
       THEN /\ \E fails \in BOOLEAN :
                /\ fails => upsets < MaxUpsets
                /\ upsets' = IF fails THEN upsets + 1 ELSE upsets
                /\ elsewhere' = IF elsewhere.who # c.email THEN elsewhere
                                ELSE IF fails THEN [elsewhere EXCEPT !.kept = TRUE] ELSE NoOther
            /\ calls' = [calls EXCEPT !["link"].code = "ok"] /\ UNCHANGED users
       ELSE IF users[cookie].password = c.password
       THEN calls' = [calls EXCEPT !["link"].code = "same_password"] /\ UNCHANGED <<users, elsewhere, upsets>>
       ELSE /\ users' = [users EXCEPT ![cookie].password = c.password]
            /\ calls' = [calls EXCEPT !["link"].email = cookie] /\ UNCHANGED <<elsewhere, upsets>>
    /\ UNCHANGED <<mails, cookie, panel, linkPage, accepted, resent, typing>>

LinkAnswered ==
    LET c == calls["link"] IN
    /\ Busy("link") /\ c.code # None
    /\ linkPage' = [linkPage EXCEPT
            !.saved = IF c.route = "update-password" /\ c.code = "ok" THEN c.email ELSE @,
            !.stage =
            CASE c.route = "update-password" ->
                    (IF c.code = "ok" THEN "saved" ELSE IF c.code = "reset_session_expired" THEN "session_expired" ELSE "choose")
              [] c.code = "ok" -> (IF c.route = "confirm" THEN "signed in" ELSE "choose")
              [] c.code = "link_unusable" -> "link_unusable"
              [] OTHER -> (IF c.route = "confirm" THEN "unavailable" ELSE "link_invalid")]
    /\ calls' = [calls EXCEPT !["link"] = NoCall]
    /\ UNCHANGED <<users, mails, cookie, elsewhere, panel, accepted, resent, upsets, typing>>

----------------------------------------------------------------------------

SignOut ==
    /\ cookie # NoSession /\ cookie' = NoSession
    /\ UNCHANGED <<users, mails, elsewhere, panel, calls, linkPage, accepted, resent, upsets, typing>>
SignInElsewhere(e) ==
    /\ users[e].confirmed /\ elsewhere.who = NoSession /\ typing < MaxTyping /\ typing' = typing + 1
    /\ elsewhere' = [who |-> e, password |-> users[e].password, kept |-> FALSE]
    /\ UNCHANGED <<users, mails, cookie, panel, calls, linkPage, accepted, resent, upsets>>

SignInInit ==
    /\ users = [e \in Emails |-> IF e \in Registered THEN [exists |-> TRUE, confirmed |-> TRUE, password |-> CHOOSE p \in Passwords : TRUE]
                                 ELSE [exists |-> FALSE, confirmed |-> FALSE, password |-> None]]
    /\ mails = <<>> /\ cookie = NoSession /\ elsewhere = NoOther
    /\ \E e \in Emails, p \in Passwords, m \in {"sign-in", "sign-up"} :
        panel = [page |-> "signin", mode |-> m, email |-> e, password |-> p, sentTo |-> None, message |-> None]
    /\ calls = [s \in {"form", "again", "link"} |-> NoCall]
    /\ linkPage = [page |-> None, mail |-> 0, cut |-> FALSE, stage |-> None, saved |-> None]
    /\ accepted = {} /\ resent = {} /\ upsets = 0 /\ typing = 0

SignInNext ==
    \/ \E e \in Emails, p \in Passwords : TypeInto(e, p)
    \/ \E m \in {"sign-in", "sign-up"} : SwitchMode(m)
    \/ ForgotPassword \/ BackToSignIn \/ UseAnother \/ Submit1 \/ Resend
    \/ \E s \in {"form", "again"} : Answered(s) \/ \E took \in 0..MaxTook : Answer1(s, took)
    \/ \E s \in {"form", "again", "link"} : LoseAnswer(s)
    \/ \E n \in 1..MaxMails, cut \in BOOLEAN : OpenLink(n, cut)
    \/ Verify \/ UpdatePassword \/ LinkAnswered \/ SignOut
    \/ \E p \in Passwords : ChoosePassword(p)
    \/ \E e \in Emails : SignInElsewhere(e)

SignInSpec == SignInInit /\ [][SignInNext]_signInVars

----------------------------------------------------------------------------

\* "Check your email" names an address a request was accepted for, whatever was
\* typed or switched while it was out.  The message's own button is the one way
\* to the notice without an accepted request.
SentMeansAsked == panel.sentTo # None => panel.sentTo \in accepted \cup resent

\* When an answer comes says nothing of how long Supabase took: an email request
\* and a failed sign-in are answered at the floor, or whole steps past it.
OnTheGrid(at) == \E k \in 0..at : at = Floor + k * Step
AnswersOnTheGrid ==
    \A s \in {"form", "again"} : Busy(s) /\ calls[s].code \in {"check_email", "invalid_credentials", "email_not_confirmed"}
        => OnTheGrid(calls[s].at)

\* When the page says the password is saved, a session another browser holds of
\* the account it was saved for began with that password, if the call that ends
\* them did not fail.  Of another account it says nothing: one whose own request
\* stopped between the two calls keeps its old session.
Ended(e) == elsewhere.who = e /\ ~elsewhere.kept => elsewhere.password = users[e].password
OthersSignedOut == linkPage.stage = "saved" => Ended(linkPage.saved)

\* What the sign-in pages say is so, and no more than may be said: where a message
\* went, no account's existence by the time an answer takes, and that a new
\* password ended the other sessions.
SignInIsAsTold == SentMeansAsked /\ AnswersOnTheGrid /\ OthersSignedOut

=============================================================================
