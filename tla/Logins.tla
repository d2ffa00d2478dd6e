-------------------------------- MODULE Logins --------------------------------
(***************************************************************************)
(* The sessions of one user account: login, the rotation of refresh        *)
(* tokens, logout, and the reset of a forgotten password                   *)
(* (auth/auth.service.ts).                                                 *)
(*                                                                         *)
(* These routes have no transaction of their own: every statement commits  *)
(* when it runs, but for the rotation and the reset, which write in one    *)
(* transaction what they decided on before it.  The user has several       *)
(* browser tabs, which share a refresh token and use it at the same time.  *)
(* Access tokens are not stored anywhere and are left out.  A token or a   *)
(* link that has run out is one nobody uses any more, and a request for a  *)
(* link that the rate limit refuses changes nothing.                       *)
(***************************************************************************)
EXTENDS Naturals, FiniteSets

CONSTANTS
  Tokens,     \* refresh tokens: each is issued once
  Links,      \* password reset links: each is issued once
  Tabs,       \* requests of the user that run at the same time
  MaxResets   \* bound on the resets of the password

VARIABLES
  token,     \* [Tokens -> status of the token]
  login,     \* [Tokens -> the first token of its session]
  proven,    \* [Tokens -> the password its login was checked with]
  link,      \* [Links -> status of the link]
  password,  \* resets so far: the number of the password
  request,   \* [Tabs -> request in progress]
  forked,    \* history: sessions two refreshes of which overlapped
  late,      \* history: tokens issued on the strength of an older password
  doubled    \* history: links issued while another request was about to issue one

loginVars == <<token, login, proven, link, password, request, forked, late, doubled>>

Idle == [op |-> "idle"]

\* Tokens, links and requests are well formed.
TypeOK ==
  /\ token \in [Tokens -> {"unmade", "live", "revoked"}]
  /\ login \in [Tokens -> Tokens]
  /\ proven \in [Tokens -> 0..MaxResets]
  /\ link \in [Links -> {"unmade", "live", "used"}]
  /\ password \in 0..MaxResets
  /\ request \in [Tabs -> {Idle} \cup [op : {"login"}, password : 0..MaxResets]
                   \cup [op : {"rotate"}, token : Tokens] \cup [op : {"revoke", "forgot", "issue"}]
                   \cup [op : {"reset"}, link : Links]]
  /\ forked \subseteq Tokens /\ late \subseteq Tokens /\ doubled \subseteq Links

Init ==
  /\ token = [t \in Tokens |-> "unmade"]
  /\ login = [t \in Tokens |-> t]
  /\ proven = [t \in Tokens |-> 0]
  /\ link = [l \in Links |-> "unmade"]
  /\ password = 0
  /\ request = [c \in Tabs |-> Idle]
  /\ forked = {} /\ late = {} /\ doubled = {}

sessions == <<token, login, proven, forked, late>>
links    == <<link, password, doubled>>

Goto(c, next) == request' = [request EXCEPT ![c] = next]

Revoked(some) == [t \in Tokens |-> IF t \in some /\ token[t] = "live" THEN "revoked" ELSE token[t]]

-----------------------------------------------------------------------------
(* login and logout                                                         *)

CheckPassword(c) ==
  /\ request[c] = Idle
  /\ Goto(c, [op |-> "login", password |-> password])
  /\ UNCHANGED <<sessions, links>>

IssueToken(c, t) ==
  /\ request[c].op = "login" /\ token[t] = "unmade"
  /\ token' = [token EXCEPT ![t] = "live"]
  /\ proven' = [proven EXCEPT ![t] = request[c].password]
  /\ late' = IF request[c].password # password THEN late \cup {t} ELSE late
  /\ Goto(c, Idle)
  /\ UNCHANGED <<login, forked, links>>

Logout(t) ==
  /\ token[t] = "live"
  /\ token' = Revoked({t})
  /\ UNCHANGED <<login, proven, forked, late, links, request>>

-----------------------------------------------------------------------------
(* refresh                                                                  *)

ReadToken(c, t) ==
  /\ request[c] = Idle
  /\ \/ token[t] = "live" /\ Goto(c, [op |-> "rotate", token |-> t])
        /\ forked' = IF \E d \in Tabs \ {c} : request[d] = [op |-> "rotate", token |-> t]
                     THEN forked \cup {login[t]} ELSE forked
     \/ token[t] = "revoked" /\ Goto(c, [op |-> "revoke"]) /\ UNCHANGED forked
  /\ UNCHANGED <<token, login, proven, late, links>>

\* Mutant: the token that was used stays valid.
RotateKeepsOld(c, new) ==
  LET old == request[c].token
  IN  /\ request[c].op = "rotate" /\ token[new] = "unmade"
      /\ token' = [token EXCEPT ![new] = "live"]
      /\ login' = [login EXCEPT ![new] = login[old]]
      /\ proven' = [proven EXCEPT ![new] = proven[old]]
      /\ late' = IF old \in late \/ proven[old] # password THEN late \cup {new} ELSE late
      /\ Goto(c, Idle)
      /\ UNCHANGED <<forked, links>>

\* The old token is revoked whatever became of it in the meantime.
Rotate(c, new) ==
  LET old == request[c].token
  IN  /\ request[c].op = "rotate" /\ token[new] = "unmade"
      /\ token' = [token EXCEPT ![old] = "revoked", ![new] = "live"]
      /\ login' = [login EXCEPT ![new] = login[old]]
      /\ proven' = [proven EXCEPT ![new] = proven[old]]
      /\ late' = IF old \in late \/ proven[old] # password THEN late \cup {new} ELSE late
      /\ Goto(c, Idle)
      /\ UNCHANGED <<forked, links>>

\* A token used twice ends all sessions of the user.
RevokeAll(c) ==
  /\ request[c].op = "revoke"
  /\ token' = Revoked(Tokens)
  /\ Goto(c, Idle)
  /\ UNCHANGED <<login, proven, forked, late, links>>

-----------------------------------------------------------------------------
(* forgotPassword and resetPassword                                         *)

Ask(c) ==
  /\ request[c] = Idle
  /\ Goto(c, [op |-> "forgot"])
  /\ UNCHANGED <<sessions, links>>

InvalidateLinks(c) ==
  /\ request[c].op = "forgot"
  /\ link' = [l \in Links |-> IF link[l] = "live" THEN "used" ELSE link[l]]
  /\ Goto(c, [op |-> "issue"])
  /\ UNCHANGED <<sessions, password, doubled>>

IssueLink(c, l) ==
  /\ request[c].op = "issue" /\ link[l] = "unmade"
  /\ link' = [link EXCEPT ![l] = "live"]
  /\ doubled' = IF \E d \in Tabs \ {c} : request[d].op = "issue" THEN doubled \cup {l} ELSE doubled
  /\ Goto(c, Idle)
  /\ UNCHANGED <<sessions, password>>

OpenLink(c, l) ==
  /\ request[c] = Idle /\ link[l] = "live"
  /\ Goto(c, [op |-> "reset", link |-> l])
  /\ UNCHANGED <<sessions, links>>

Reset(c) ==
  /\ request[c].op = "reset" /\ password < MaxResets
  /\ password' = password + 1
  /\ link' = [link EXCEPT ![request[c].link] = "used"]
  /\ token' = Revoked(Tokens)
  /\ Goto(c, Idle)
  /\ UNCHANGED <<login, proven, forked, late, doubled>>

\* A request fails or its process dies between two statements.
Fail(c) ==
  /\ request[c] # Idle
  /\ Goto(c, Idle)
  /\ UNCHANGED <<sessions, links>>

-----------------------------------------------------------------------------
Next ==
  \/ \E c \in Tabs :
       \/ CheckPassword(c)
       \/ \E t \in Tokens : IssueToken(c, t) \/ ReadToken(c, t) \/ Rotate(c, t)
       \/ RevokeAll(c)
       \/ Ask(c)
       \/ InvalidateLinks(c)
       \/ \E l \in Links : IssueLink(c, l) \/ OpenLink(c, l)
       \/ Reset(c)
       \/ Fail(c)
  \/ \E t \in Tokens : Logout(t)

Spec == Init /\ [][Next]_loginVars

-----------------------------------------------------------------------------
(* Properties.                                                              *)

\* A session has one working token unless two tabs refreshed it at once.
OneTokenPerSession ==
  \A t, u \in Tokens :
    token[t] = "live" /\ token[u] = "live" /\ login[t] = login[u] => t = u \/ login[t] \in forked

\* After a reset no session goes on that began with an older password, unless
\* its login or refresh was under way during the reset.
ResetEndsSessions == \A t \in Tokens : token[t] = "live" => proven[t] = password \/ t \in late

\* One link works at a time unless two requests for a link overlapped.
OneLinkWorks == \A l, k \in Links \ doubled : link[l] = "live" /\ link[k] = "live" => l = k

\* What Logins checks of its states.
LoginsCohere == TypeOK /\ OneTokenPerSession /\ ResetEndsSessions /\ OneLinkWorks
==============================================================================
