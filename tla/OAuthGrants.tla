---------------------------- MODULE OAuthGrants -----------------------------
(***************************************************************************)
(* One OAuth application and one user who authorizes it: codes exchanged   *)
(* for access tokens, the authorization row that shows the user what the   *)
(* application holds, the revocation that takes it away, and the deletion  *)
(* of the application. Every statement is a step of its own: no handler    *)
(* opens a transaction. The owner's edits and new secrets are left out.    *)
(***************************************************************************)
EXTENDS Database

CONSTANT Codes  \* authorization codes

VARIABLES
  live,        \* the application's row exists
  codes,       \* codes in the code store
  unused,      \* codes not generated yet
  token,       \* the access token an exchange made
  authorized,  \* the authorization row of the user and the application exists
  grant,       \* where a request is
  overlapped   \* history: exchanges that made their token in the middle of a revocation

grantVars == <<live, codes, unused, token, authorized, grant, overlapped>>

GrantTypeOK ==
  /\ live \in BOOLEAN
  /\ codes \subseteq Codes /\ unused \subseteq Codes /\ codes \intersect unused = {}
  /\ token \in [Requests -> {"none", "live", "revoked", "deleted"}]
  /\ authorized \in BOOLEAN
  /\ grant \in [Requests -> {"idle", "client", "token", "authorization", "answered", "failed",
                            "revoke", "unauthorize", "delete"}]
  /\ overlapped \subseteq Requests

GrantInit ==
  /\ live = TRUE
  /\ codes = {} /\ unused = Codes
  /\ token = [q \in Requests |-> "none"]
  /\ authorized = FALSE
  /\ grant = [q \in Requests |-> "idle"]
  /\ overlapped = {}

Goes(q, from, to) == grant[q] = from /\ grant' = [grant EXCEPT ![q] = to]

-----------------------------------------------------------------------------
(* Codes. *)

Authorize(c) ==
  /\ live /\ c \in unused
  /\ unused' = unused \ {c}
  /\ codes' = codes \union {c}
  /\ UNCHANGED <<live, token, authorized, grant, overlapped>>

\* Ten minutes pass, or the server that kept the code in its memory restarts.
CodeExpires(c) ==
  /\ c \in codes
  /\ codes' = codes \ {c}
  /\ UNCHANGED <<live, unused, token, authorized, grant, overlapped>>

-----------------------------------------------------------------------------
(* OAuthTokenUsecase: the exchange of a code for a token. *)

\* The code is gone whatever the exchange comes to.
GetDel(q, c) ==
  /\ c \in codes
  /\ codes' = codes \ {c}
  /\ Goes(q, "idle", "client")
  /\ UNCHANGED <<live, unused, token, authorized, overlapped>>

\* The client presents the code with the right or with a wrong secret.
CheckClient(q) ==
  /\ \/ live /\ Goes(q, "client", "token")
     \/ Goes(q, "client", "failed")
  /\ UNCHANGED <<live, codes, unused, token, authorized, overlapped>>

\* A token that references a deleted application is refused where references are checked.
IssueToken(q) ==
  /\ \/ /\ live \/ ~enforced
        /\ Goes(q, "token", "authorization")
        /\ token' = [token EXCEPT ![q] = "live"]
        /\ overlapped' = IF \E p \in Requests : grant[p] = "unauthorize"
                           THEN overlapped \union {q} ELSE overlapped
     \/ /\ enforced /\ ~live
        /\ Goes(q, "token", "failed")
        /\ UNCHANGED <<token, overlapped>>
  /\ UNCHANGED <<live, codes, unused, authorized>>

\* The row names the user by a decimal number, and users are keyed by UUIDs: where
\* references are checked, the row is refused, and with it the exchange.
UpsertAuthorization(q) ==
  /\ \/ ~enforced /\ authorized' = TRUE /\ Goes(q, "authorization", "answered")
     \/ enforced /\ authorized' = authorized /\ Goes(q, "authorization", "failed")
  /\ UNCHANGED <<live, codes, unused, token, overlapped>>

-----------------------------------------------------------------------------
(* RevokeAuthorization: the tokens, then the row. *)

StartRevocation(q) ==
  /\ Goes(q, "idle", "revoke")
  /\ UNCHANGED <<live, codes, unused, token, authorized, overlapped>>

Revoked == [q \in Requests |-> IF token[q] = "live" THEN "revoked" ELSE token[q]]

\* Mutant of RevokeTokens: only the store that nothing fills is cleared.
RevokeTokensNot(q) ==
  /\ Goes(q, "revoke", "unauthorize")
  /\ UNCHANGED <<live, codes, unused, token, authorized, overlapped>>

RevokeTokens(q) ==
  /\ Goes(q, "revoke", "unauthorize")
  /\ token' = Revoked
  /\ UNCHANGED <<live, codes, unused, authorized, overlapped>>

\* No row is answered with 404, but there is no row afterwards.
DeleteAuthorization(q) ==
  /\ Goes(q, "unauthorize", "answered")
  /\ authorized' = FALSE
  /\ UNCHANGED <<live, codes, unused, token, overlapped>>

-----------------------------------------------------------------------------
(* The owner of the application. *)

GetApp(q) ==
  /\ live
  /\ Goes(q, "idle", "delete")
  /\ UNCHANGED <<live, codes, unused, token, authorized, overlapped>>

\* Checked references refuse it while an authorization exists, and delete the tokens with it.
DeleteApp(q) ==
  /\ Goes(q, "delete", "answered")
  /\ LET refused == enforced /\ authorized
     IN  /\ live' = (live /\ refused)
         /\ token' = IF live /\ enforced /\ ~refused
                       THEN [p \in Requests |-> IF token[p] = "none" THEN "none" ELSE "deleted"]
                       ELSE token
  /\ UNCHANGED <<codes, unused, authorized, overlapped>>

-----------------------------------------------------------------------------

\* A statement fails, the client goes away, or the server stops: no handler undoes anything.
AbandonGrant(q) ==
  /\ grant[q] \notin {"idle", "answered", "failed"}
  /\ Goes(q, grant[q], "failed")
  /\ UNCHANGED <<live, codes, unused, token, authorized, overlapped>>

GrantBegins(q) == StartRevocation(q) \/ GetApp(q) \/ \E c \in Codes : GetDel(q, c)

GrantStep(q) ==
  \/ CheckClient(q) \/ IssueToken(q) \/ UpsertAuthorization(q)
  \/ RevokeTokens(q) \/ DeleteAuthorization(q)
  \/ DeleteApp(q)
  \/ AbandonGrant(q)

GrantNext ==
  \/ \E c \in Codes : Authorize(c) \/ CodeExpires(c)
  \/ \E q \in Requests : GrantStep(q)

-----------------------------------------------------------------------------
(* Properties. *)

\* A token the application can use is one whose authorization the user sees and can
\* revoke, unless its exchange did not answer, or overlapped a revocation, or the
\* application was deleted where deleting does not reach its tokens
\* (OAuthTokenUsecase.Execute, RevokeAuthorization, Delete).
GrantsAccounted ==
  \A q \in Requests : token[q] = "live" =>
    \/ authorized
    \/ grant[q] \in {"authorization", "failed"}
    \/ q \in overlapped
    \/ ~live /\ ~enforced
=============================================================================
