---------------------------- MODULE CalendarLink ----------------------------
(***************************************************************************)
(* The link to the owner's Google calendar: app/gcal.py, the one row of    *)
(* google_oauth and the calls made with it, and the consent flow of        *)
(* app/admin/scheduling.py that fills and empties it.                      *)
(***************************************************************************)
EXTENDS Naturals, FiniteSets

CONSTANTS
  Accounts,  \* Google accounts the owner may connect
  Askers,    \* threads that ask the calendar: slot pages, bookings
  States,    \* the random states of consent links
  NoAccount, NoState

ASSUME CalendarLinkAssumption == NoAccount \notin Accounts /\ NoState \notin States

VARIABLES
  strict,   \* GCAL_AVAILABILITY_STRICT
  grant,    \* google_oauth: whose refresh token, whose access token, is that one fresh
  cookie,   \* the g_oauth_state of the owner's browser
  links,    \* states given out so far
  returns,  \* callbacks past the check of their state, which are exchanging their code
  asker,    \* each call: its place, the account and the token it holds, its answer
  \* history
  overtaken   \* a refreshed token was stored over another connection

linkVars == <<strict, grant, cookie, links, returns, asker, overtaken>>
consent  == <<cookie, links, returns>>

NotConnected == [refresh |-> NoAccount, access |-> NoAccount, fresh |-> FALSE]
NotAsking == [at |-> "idle", account |-> NoAccount, token |-> NoAccount, answer |-> "none", seen |-> {}]

LinkInit ==
  /\ strict \in BOOLEAN /\ grant = NotConnected /\ cookie = NoState /\ links = {} /\ returns = {}
  /\ asker = [k \in Askers |-> NotAsking] /\ overtaken = FALSE

-----------------------------------------------------------------------------
(* Consent *)

\* A link to Google, and its state in the browser's cookie.
GoogleConnect(s) ==
  /\ s \notin links
  /\ links' = links \cup {s} /\ cookie' = s
  /\ UNCHANGED <<strict, grant, returns, asker, overtaken>>

\* Google sends the browser back with the link's state; a refusal, a state that is
\* not the cookie's or a missing code ends the flow, and the answer drops the cookie.
StateMatches(s) == cookie # NoState /\ s = cookie
CallbackArrives(s) ==
  /\ s \in links /\ StateMatches(s) /\ returns' = returns \cup {s}
  /\ UNCHANGED <<strict, grant, cookie, links, asker, overtaken>>

CallbackRefused(s) ==
  /\ s \in links /\ cookie' = NoState
  /\ UNCHANGED <<strict, grant, links, returns, asker, overtaken>>

\* The code's tokens are written over whatever the row holds.
Seeing(a) == [k \in Askers |-> IF asker[k].at \in {"idle", "answered"} THEN asker[k]
                               ELSE [asker[k] EXCEPT !.seen = @ \cup {a}]]
GrantedMut(a, fresh) == [grant EXCEPT !.refresh = a, !.fresh = fresh]
Granted(a, fresh)    == [refresh |-> a, access |-> a, fresh |-> fresh]
ExchangeCode(s, a) ==
  /\ s \in returns /\ returns' = returns \ {s} /\ cookie' = NoState
  /\ \E fresh \in BOOLEAN : grant' = Granted(a, fresh)
  /\ asker' = Seeing(a) /\ UNCHANGED <<strict, links, overtaken>>

\* The token endpoint fails, or sends no refresh token.
ExchangeFails(s) ==
  /\ s \in returns /\ returns' = returns \ {s} /\ cookie' = NoState
  /\ UNCHANGED <<strict, grant, links, asker, overtaken>>

GoogleDisconnect ==
  /\ grant # NotConnected /\ grant' = NotConnected
  /\ UNCHANGED <<strict, consent, asker, overtaken>>

\* Access tokens last an hour.
TokenExpires ==
  /\ grant.fresh /\ grant' = [grant EXCEPT !.fresh = FALSE]
  /\ UNCHANGED <<strict, consent, asker, overtaken>>

-----------------------------------------------------------------------------
(* free_busy *)

IsConnected == grant.refresh # NoAccount

\* No connection is no filter; else on to the call.
FreeBusy(k) ==
  /\ asker[k].at \in {"idle", "answered"}
  /\ asker' = [asker EXCEPT ![k] =
       IF IsConnected THEN [NotAsking EXCEPT !.at = "row", !.seen = {grant.refresh}]
       ELSE [NotAsking EXCEPT !.at = "answered", !.answer = "open", !.seen = {NoAccount}]]
  /\ UNCHANGED <<strict, grant, consent, overtaken>>

\* Any failure on the way: no filter, or no slots where the policy is strict.
OnFailureMut == "open"
OnFailure    == IF strict THEN "unavailable" ELSE "open"
Fails(k)     == asker' = [asker EXCEPT ![k].at = "answered", ![k].answer = OnFailure]

\* _access_token reads the row again: gone, a token with a minute left, or a refresh.
AccessToken(k) ==
  /\ asker[k].at = "row"
  /\ \/ ~IsConnected /\ Fails(k)
     \/ /\ IsConnected /\ grant.fresh
        /\ asker' = [asker EXCEPT ![k].at = "call", ![k].token = grant.access]
     \/ /\ IsConnected /\ ~grant.fresh
        /\ asker' = [asker EXCEPT ![k].at = "refresh", ![k].account = grant.refresh]
  /\ UNCHANGED <<strict, grant, consent, overtaken>>

RefreshAnswers(k) ==
  /\ asker[k].at = "refresh"
  /\ asker' = [asker EXCEPT ![k].at = "store", ![k].token = asker[k].account]
  /\ UNCHANGED <<strict, grant, consent, overtaken>>

\* UPDATE ... WHERE id=1: the row, if there is one, whoever is connected by now.
StoreToken(k) ==
  /\ asker[k].at = "store"
  /\ \E fresh \in BOOLEAN :
       grant' = IF IsConnected THEN [grant EXCEPT !.access = asker[k].token, !.fresh = fresh] ELSE grant
  /\ overtaken' = (overtaken \/ (IsConnected /\ grant.refresh # asker[k].account))
  /\ asker' = [asker EXCEPT ![k].at = "call"]
  /\ UNCHANGED <<strict, consent>>

\* The calendar of the account the token is of.
ApiAnswers(k) ==
  /\ asker[k].at = "call"
  /\ asker' = [asker EXCEPT ![k].at = "answered", ![k].answer = "busy"]
  /\ UNCHANGED <<strict, grant, consent, overtaken>>

CallFails(k) ==
  /\ asker[k].at \in {"refresh", "call"} /\ Fails(k)
  /\ UNCHANGED <<strict, grant, consent, overtaken>>

LinkNext ==
  \/ GoogleDisconnect \/ TokenExpires
  \/ \E s \in States : \/ GoogleConnect(s) \/ CallbackArrives(s) \/ CallbackRefused(s) \/ ExchangeFails(s)
                       \/ \E a \in Accounts : ExchangeCode(s, a)
  \/ \E k \in Askers : \/ FreeBusy(k) \/ AccessToken(k) \/ RefreshAnswers(k) \/ StoreToken(k)
                       \/ ApiAnswers(k) \/ CallFails(k)

LinkSpec == LinkInit /\ [][LinkNext]_linkVars

-----------------------------------------------------------------------------
(* Properties *)

LinkTypeOK ==
  /\ strict \in BOOLEAN /\ overtaken \in BOOLEAN
  /\ grant \in [refresh : Accounts \cup {NoAccount}, access : Accounts \cup {NoAccount}, fresh : BOOLEAN]
  /\ cookie \in States \cup {NoState} /\ links \subseteq States /\ returns \subseteq links
  /\ asker \in [Askers -> [at : {"idle", "row", "refresh", "store", "call", "answered"},
                           account : Accounts \cup {NoAccount}, token : Accounts \cup {NoAccount},
                           answer : {"none", "open", "busy", "unavailable"},
                           seen : SUBSET (Accounts \cup {NoAccount})]]

\* The two tokens of the row are of one account: but for a refresh that was under
\* way while the owner connected another (app/gcal.py:217).
TokensOfOneAccount == grant.access = grant.refresh \/ overtaken

\* The busy times a caller acts on are those of an account connected while it asked,
\* under the same exception: and under the strict policy it is told that nothing
\* filters only if nothing was connected when it asked.
AnswersAreOfTheLink ==
  \A k \in Askers :
    /\ asker[k].answer = "busy" => asker[k].token \in asker[k].seen \/ overtaken
    /\ (strict /\ asker[k].answer = "open") => asker[k].seen = {NoAccount}

LinkIsSound == TokensOfOneAccount /\ AnswersAreOfTheLink
=============================================================================
