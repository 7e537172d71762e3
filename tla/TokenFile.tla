------------------------------ MODULE TokenFile -------------------------------
(***************************************************************************)
(* The token file of one linked account, data/tokens/<email>.json, and the *)
(* GDriveHandler sessions that load and rewrite it (src/gdrive_handler.cpp)*)
(* Each chunk uploaded to, downloaded from or deleted in the account has a *)
(* session of its own, in a thread of its own: up to 16 at once in an      *)
(* upload, one per chunk in a download or a delete.  No lock is taken.     *)
(*                                                                         *)
(* A session loads the file once, in its constructor.  Each request to     *)
(* Drive first calls ensureAuthenticated(), which always asks the token    *)
(* endpoint for a new access token and saves the result: std::ofstream     *)
(* truncates the file, the text is written when it is closed.  Access      *)
(* tokens themselves are left out: all that were issued stay good.  How    *)
(* the sign-in gets its code is module Authentication, and whose tokens it *)
(* brings is module Library; here they are told apart by their age.        *)
(***************************************************************************)
EXTENDS Base64Url

CONSTANTS Sessions,     \* threads that build a GDriveHandler on this file
          Calls,        \* ensureAuthenticated() calls per session: 3 or 4 for
                        \* an uploaded chunk, 1 for a download or a delete
          FirstFiles,   \* what the file may be at first
          Endpoint,     \* what a refresh may come to: see AllAnswers
          Given,        \* what a completed sign-in may be given: "new" tokens
                        \* with a refresh token, "bare" ones without; {} if no
                        \* user completes one
          Commands,     \* commands run: subset of {"upload", "download", "delete"}
          Starts,       \* bound: how often the process is started
          Payloads      \* id_token payloads Google may issue, encoded

\* "fresh": status 200; "denied": another status, or no connection at all (cpr
\* gives status 0); "garbled": status 200 with a body that does not parse.
AllAnswers == {"fresh", "denied", "garbled"}

ASSUME TokenAssumption ==
    /\ Calls \in Nat \ {0} /\ Starts \in Nat \ {0}
    /\ Given \subseteq {"bare", "new"}
    /\ FirstFiles \subseteq {"absent", "bare", "old"}
    /\ Endpoint \subseteq AllAnswers
    /\ Commands \subseteq {"upload", "download", "delete"}

\* A token is issued in base64url, without padding.
ASSUME PayloadAssumption == \A p \in Payloads : p \in Seq(0..Underscore)

\* m_tokens: nothing, tokens without a refresh token, or with one: "old" if the
\* file had it when the process was started, "new" if it was issued since.
Tokens == {"none", "bare", "old", "new"}

VARIABLES file,         \* "absent", "empty", or the tokens it holds
          m_tokens,     \* m_tokens[s] of session s
          issued,       \* history: what sign-ins of this process were given
          pc,           \* control point of each session's thread
          left,         \* ensureAuthenticated() calls the session will make
          command,      \* the command whose threads the sessions are
          alive,        \* the process runs
          starts,       \* times it was started
          refused,      \* external: the endpoint does not take the old grant,
                        \* which expired or was revoked, while the process runs
          adding,       \* the tokens for which add-account has the file open,
                        \* or "none"
          wrecked,      \* history: a process died while the file was empty
          id_token,     \* the payload add-account was given, ...
          email         \* ... and what it decoded: it names the file

naming == <<id_token, email>>
tokens == <<m_tokens, issued>>
process == <<command, alive, starts, refused, adding, wrecked, naming>>
vars == <<file, tokens, pc, left, process>>

TypeOK ==
    /\ file \in {"absent", "empty", "bare", "old", "new"}
    /\ m_tokens \in [Sessions -> Tokens] /\ issued \subseteq {"bare", "new"}
    /\ pc \in [Sessions -> {"new", "ready", "signing_in", "saving",
                            "finished", "failed"}]
    /\ left \in [Sessions -> 0..Calls]
    /\ command \in Commands /\ alive \in BOOLEAN /\ starts \in 1..Starts
    /\ refused \in BOOLEAN /\ adding \in {"none", "bare", "new"} /\ wrecked \in BOOLEAN
    /\ id_token \in Payloads \cup {<<>>} /\ email \in Seq(0..255)

MayRefuse == {b \in BOOLEAN : b => "denied" \in Endpoint}

\* add-account wrote the file; or there is none yet, or it was taken away after
\* the Shell listed the directory.
Init ==
    /\ file \in FirstFiles
    /\ m_tokens = [s \in Sessions |-> "none"] /\ issued = {} /\ refused \in MayRefuse
    /\ pc = [s \in Sessions |-> "new"]
    /\ left = [s \in Sessions |-> Calls]
    /\ command \in Commands /\ alive = TRUE /\ starts = 1
    /\ adding = "none" /\ wrecked = FALSE /\ id_token = <<>> /\ email = <<>>

Goto(s, from, to) ==
    /\ alive /\ adding = "none"
    /\ pc[s] = from
    /\ pc' = [pc EXCEPT ![s] = to]
    /\ UNCHANGED process

\* The process ends; what an open ofstream holds in its buffer is lost.
End ==
    /\ alive /\ alive' = FALSE
    /\ adding' = "none" /\ id_token' = <<>> /\ email' = <<>>
    /\ wrecked' = (wrecked \/ file = "empty")
    /\ UNCHANGED <<file, tokens, pc, left, command, starts, refused>>

\* An exception leaves the session: the task reports its chunk as failed; in a
\* download thread nothing catches it.
Throw(s, from) ==
    IF command = "download" THEN pc[s] = from /\ adding = "none" /\ End
    ELSE Goto(s, from, "failed") /\ UNCHANGED <<file, tokens, left>>
------------------------------------------------------------------------------
\* The constructor: loadTokens() parses the file if it opens.
Load(s) ==
    /\ file # "empty"
    /\ Goto(s, "new", "ready")
    /\ m_tokens' = [m_tokens EXCEPT ![s] = IF file = "absent" THEN "none" ELSE file]
    /\ UNCHANGED <<file, issued, left>>

\* operator>> throws parse_error at the end of an empty file.
LoadThrows(s) == file = "empty" /\ Throw(s, "new")

\* saveTokens(): std::ofstream truncates the file ...
OpenFile(s, from) == Goto(s, from, "saving") /\ file' = "empty"

\* Faulty variant: one request more than the session was given tokens for.
AskingOnceMore(s) == pc[s] = "ready"

Asking(s) == pc[s] = "ready" /\ left[s] > 0

HasRefreshToken(s) == m_tokens[s] \in {"old", "new"}

\* The endpoint may take the refresh token of s.
Taken(s) == "fresh" \in Endpoint /\ ~(refused /\ m_tokens[s] = "old")

\* Faulty variants: the file is opened before the endpoint is asked; no answer at
\* all (status 0) is taken for a good one.
RefreshOpeningFirst(s) ==
    /\ Asking(s) /\ HasRefreshToken(s)
    /\ \/ Taken(s) /\ OpenFile(s, "ready")
       \/ "denied" \in Endpoint /\ Goto(s, "ready", "signing_in") /\ file' = "empty"
    /\ UNCHANGED <<tokens, left>>

RefreshUnanswered(s) ==
    /\ Asking(s) /\ HasRefreshToken(s)
    /\ \/ OpenFile(s, "ready")
       \/ "denied" \in Endpoint /\ Goto(s, "ready", "signing_in") /\ UNCHANGED file
    /\ UNCHANGED <<tokens, left>>

\* ensureAuthenticated() with a refresh token: refreshAccessToken(), and on 200
\* only the access token in m_tokens is replaced; else performAuthentication().
Refresh(s) ==
    /\ Asking(s) /\ HasRefreshToken(s)
    /\ \/ Taken(s) /\ OpenFile(s, "ready")
       \/ "denied" \in Endpoint /\ Goto(s, "ready", "signing_in") /\ UNCHANGED file
    /\ UNCHANGED <<tokens, left>>

RefreshThrows(s) ==
    /\ Asking(s) /\ HasRefreshToken(s)
    /\ "garbled" \in Endpoint /\ Throw(s, "ready")

\* Without a refresh token: performAuthentication() at once.
NoSession(s) ==
    /\ Asking(s) /\ ~HasRefreshToken(s)
    /\ Goto(s, "ready", "signing_in")
    /\ UNCHANGED <<file, tokens, left>>

\* The user completes the sign-in: all of m_tokens is replaced by the answer,
\* whatever it holds, and saved.
SignIn(s) ==
    /\ OpenFile(s, "signing_in")
    /\ \E t \in Given :
           m_tokens' = [m_tokens EXCEPT ![s] = t] /\ issued' = issued \cup {t}
    /\ UNCHANGED left

SignInThrows(s) == Throw(s, "signing_in")

\* ... and close() writes the text.  A shorter text written over a longer one
\* by two savers leaves a tail behind, which operator>> does not read.
WriteFile(s) ==
    /\ Goto(s, "saving", "ready")
    /\ file' = m_tokens[s]
    /\ left' = [left EXCEPT ![s] = @ - 1]
    /\ UNCHANGED tokens

\* The requests of the session are made.
Finish(s) ==
    /\ left[s] = 0 /\ Goto(s, "ready", "finished")
    /\ UNCHANGED <<file, tokens, left>>

\* The add-account command, before any session: authenticateNewAccount decodes
\* who signed in, and truncates and writes the file of that name likewise.  (A
\* sign-in that fails, or a token it cannot read, throws before that.)
AddAccountOpens ==
    /\ alive /\ adding = "none" /\ \A s \in Sessions : pc[s] = "new"
    /\ adding' \in Given /\ issued' = issued \cup {adding'}
    /\ id_token' \in Payloads
    /\ email' = decode_base64url(id_token')
    /\ file' = "empty"
    /\ UNCHANGED <<m_tokens, pc, left, command, alive, starts, refused, wrecked>>

AddAccountWrites ==
    /\ alive /\ adding # "none"
    /\ file' = adding /\ adding' = "none"
    /\ id_token' = <<>> /\ email' = <<>>
    /\ UNCHANGED <<tokens, pc, left, command, alive, starts, refused, wrecked>>

\* The process is killed, exits, or another download thread ends it.
Die == End

\* The program is started again, and sessions are built on the file again: what
\* it holds is old by now, and may have been revoked.
Restart ==
    /\ ~alive /\ starts < Starts
    /\ alive' = TRUE /\ starts' = starts + 1 /\ command' \in Commands
    /\ m_tokens' = [s \in Sessions |-> "none"] /\ issued' = {} /\ refused' \in MayRefuse
    /\ file' = IF file = "new" THEN "old" ELSE file
    /\ pc' = [s \in Sessions |-> "new"]
    /\ left' = [s \in Sessions |-> Calls]
    /\ UNCHANGED <<adding, wrecked, naming>>

SessionStep(s) ==
    \/ Load(s) \/ LoadThrows(s) \/ Refresh(s) \/ RefreshThrows(s) \/ NoSession(s)
    \/ SignIn(s) \/ SignInThrows(s) \/ WriteFile(s) \/ Finish(s)

Next ==
    \/ \E s \in Sessions : SessionStep(s)
    \/ AddAccountOpens \/ AddAccountWrites
    \/ Die \/ Restart

Spec == Init /\ [][Next]_vars
------------------------------------------------------------------------------
\* The file is empty only while somebody rewrites it, or after a process died at
\* that very moment: nothing that fails (a refused refresh, a sign-in that is
\* given up, a body that does not parse) costs the account its tokens, because
\* saveTokens() is called only with the new tokens in hand.
EmptyOnlyWhileSaving ==
    file = "empty" =>
        wrecked \/ adding # "none" \/ \E s \in Sessions : pc[s] = "saving"

\* A sign-in lasts: once the old grant is refused and somebody has signed in, no
\* session brings the old grant back, though those that loaded it save m_tokens
\* too, and no refresh strips the new grant of its refresh token: when nobody is
\* saving, the file has what a sign-in was given.  (While the old grant is good, a
\* session that loaded it may well save it over a newer one.)
SignInLasts == refused /\ issued # {} => file \in issued \cup {"empty"}

\* The file that add-account overwrites is the one of the account that signed
\* in: the payload is decoded as RFC 4648 means it, at every length and with
\* both url-safe digits, although val overflows on the way.
FileOfTheSignedIn == adding # "none" => email = Meaning(id_token)
------------------------------------------------------------------------------
(* A statement of the documentation that the code does not keep.           *)

\* README.md:145: the token is "automatically refreshed".  When the endpoint
\* answers every time and nobody died, no session of a linked account fails.
\* A session that loads the file while another one saves it does.
RefreshedUnattended ==
    Endpoint = {"fresh"} /\ FirstFiles = {"old"} /\ ~wrecked =>
        \A s \in Sessions : pc[s] # "failed"
==============================================================================
