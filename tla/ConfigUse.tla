------------------------------ MODULE ConfigUse ------------------------------
(***************************************************************************)
(* An account block of config.toml, from `config.Load` to the connection   *)
(* that is opened with it.  What Load accepts is taken on trust further    *)
(* down: the providers, the token source and `account doctor` each read    *)
(* their own part of the block, and meet a secret store and servers that   *)
(* may refuse.                                                             *)
(***************************************************************************)
EXTENDS FiniteSets, Integers

CONSTANTS
    Blocks      \* the account blocks that are in the file

VARIABLES
    account,    \* the block of the account
    works,      \* the kinds of secrets that can be read just now
    use,        \* the verb and how far it is, and how it ends
    report      \* what account doctor has said, if it was asked

useVars == <<account, works, use, report>>

\* What a secret may be given as: in order of precedence raw, keyring, cmd.
Variants == {"raw", "keyring", "cmd"}

Secret == [set : SUBSET Variants, writeCmd : BOOLEAN]
NoSecret == [set |-> {}, writeCmd |-> FALSE]
Optional(S) == {T \in SUBSET S : Cardinality(T) <= 1}

\* The fields that must be there are TRUE if they are.  (An access-token, which
\* Load checks like a client-secret and only doctor reads, is left out.)
AuthBlock == [type : {"password", "oauth2", "other"}, flat : SUBSET Variants,
              clientId : BOOLEAN, urls : BOOLEAN,
              clientSecret : Optional(Secret), refresh : Optional(Secret)]

BackendBlock == [type : {"imap", "gmail", "smtp", "other"},
                 host : BOOLEAN, port : BOOLEAN, login : BOOLEAN,
                 encryption : {"absent", "tls", "start-tls", "none", "other"},
                 insecure : BOOLEAN, auth : AuthBlock]

AccountBlock == [email : BOOLEAN, inbox : BOOLEAN,
                 backend : BackendBlock, send : Optional(BackendBlock)]

ASSUME BlocksType == Blocks \subseteq AccountBlock

\* How a verb ends; "unsupported" is a block the code further down cannot use.
Ends == {"invalid", "unsupported", "cleartext", "nowritecmd", "notoauth",
         "nosecret", "refused", "opened"}

Use == [verb : {"none", "read", "send", "auth"}, pc : {"load", "open", "end"}, how : Ends \union {"none"}]

-----------------------------------------------------------------------------
(* Load *)

\* Exactly one variant is set.
SecretIsValid(s) == Cardinality(s.set) = 1

PasswordIsValid(a) ==
    /\ ~a.clientId /\ ~a.urls /\ a.refresh = {} /\ a.clientSecret = {}
    /\ Cardinality(a.flat) = 1

OAuth2IsValid(a) ==
    /\ a.flat = {}
    /\ a.clientId /\ a.urls
    /\ a.refresh # {}
    /\ \A s \in a.refresh \union a.clientSecret : SecretIsValid(s)

AuthIsValid(a) ==
    \/ a.type = "password" /\ PasswordIsValid(a)
    \/ a.type = "oauth2" /\ OAuth2IsValid(a)

\* (mutant) The encryption may be left out.
NetworkIsValidUnencrypted(b) ==
    /\ b.host /\ b.port /\ b.login
    /\ b.insecure => b.encryption # "none"
    /\ AuthIsValid(b.auth)

NetworkIsValid(b) ==
    /\ b.host /\ b.port /\ b.login
    /\ b.encryption \in {"tls", "start-tls", "none"}
    /\ b.insecure => b.encryption # "none"
    /\ AuthIsValid(b.auth)

\* validateAsRead: a Gmail backend has nothing to configure but its login and OAuth.
ReadIsValid(b) ==
    \/ b.type = "imap" /\ NetworkIsValid(b)
    \/ /\ b.type = "gmail"
       /\ ~b.host /\ ~b.port /\ b.encryption = "absent"
       /\ b.login
       /\ AuthIsValid(b.auth) /\ b.auth.type = "oauth2"

SendIsValid(b) == b.type = "smtp" /\ NetworkIsValid(b)

AccountIsValid(a) ==
    /\ a.email
    /\ ReadIsValid(a.backend)
    /\ a.backend.type = "imap" => a.send # {} /\ (\A b \in a.send : SendIsValid(b)) /\ a.inbox
    /\ a.backend.type = "gmail" => a.send = {}

Load ==
    /\ use.pc = "load"
    /\ use' = IF AccountIsValid(account) THEN [use EXCEPT !.pc = "open"]
              ELSE [use EXCEPT !.pc = "end", !.how = "invalid"]
    /\ UNCHANGED <<account, works, report>>

-----------------------------------------------------------------------------
(* What reads the block *)

\* Secret.Variant, and whether it can be read; raw always can.
Readable(set) ==
    \/ "raw" \in set
    \/ "raw" \notin set /\ "keyring" \in set /\ "keyring" \in works
    \/ set = {"cmd"} /\ "cmd" \in works

AllReadable(S) == \A s \in S : Readable(s.set)

HasWriteCmd(a) == \E s \in a.refresh : s.writeCmd

\* The ends of the OAuth half of an authentication: TokenSource, and then the
\* provider and the server, which may refuse.
TokenSourceEnds(a) ==
    IF a.type # "oauth2" THEN {"unsupported"}
    ELSE IF ~HasWriteCmd(a) THEN {"nowritecmd"}
    ELSE IF ~AllReadable(a.clientSecret) THEN {"nosecret"}
    ELSE IF ~a.clientId THEN {"unsupported"}
    ELSE IF ~AllReadable(a.refresh) THEN {"nosecret"}
    ELSE {"refused", "opened"}

\* The ends of a login over a connection, which is refused in clear for sending.
AuthenticateEnds(b, sending) ==
    IF b.auth.type = "password"
    THEN IF sending /\ b.encryption = "none" THEN {"cleartext"}
         ELSE IF ~Readable(b.auth.flat) THEN {"nosecret"}
         ELSE {"refused", "opened"}
    ELSE TokenSourceEnds(b.auth)

DialEnds(b, sending) ==
    IF b.encryption \notin {"tls", "start-tls", "none"} THEN {"unsupported"}
    ELSE {"refused"} \union AuthenticateEnds(b, sending)

\* newBackend: gmail.New, or imap.New.
ReadEnds(a) ==
    CASE a.backend.type = "gmail" -> TokenSourceEnds(a.backend.auth)
      [] a.backend.type = "imap"  -> DialEnds(a.backend, FALSE)
      [] OTHER                    -> {"unsupported"}

\* newSendBackend: gmail.New, or smtp.New with the other block.
SendEnds(a) ==
    CASE a.backend.type = "gmail" -> TokenSourceEnds(a.backend.auth)
      [] a.backend.type = "imap" /\ (\E b \in a.send : b.type = "smtp")
                                  -> UNION {DialEnds(b, TRUE) : b \in a.send}
      [] OTHER                    -> {"unsupported"}

\* The checks of account auth before its preflight and consent.
AuthEnds(a) ==
    IF a.backend.auth.type # "oauth2" THEN {"notoauth"}
    ELSE IF ~HasWriteCmd(a.backend.auth) THEN {"nowritecmd"}
    ELSE {"refused",
          IF AllReadable(a.backend.auth.clientSecret) THEN "opened" ELSE "nosecret"}

\* A verb opens the account.
OpenFor ==
    /\ use.pc = "open"
    /\ \/ \E how \in ReadEnds(account) : use' = [verb |-> "read", pc |-> "end", how |-> how]
       \/ \E how \in SendEnds(account) : use' = [verb |-> "send", pc |-> "end", how |-> how]
       \/ \E how \in AuthEnds(account) : use' = [verb |-> "auth", pc |-> "end", how |-> how]
    /\ UNCHANGED <<account, works, report>>

\* checkAuthSecrets
SecretsResolve(a) ==
    \/ a.type = "password" /\ Readable(a.flat)
    \/ a.type = "oauth2" /\ AllReadable(a.clientSecret \union a.refresh)
    \/ a.type = "other"

\* (mutant) The secrets of the send backend are not looked at.
DoctorReading ==
    /\ use.pc = "open" /\ report = "none"
    /\ LET read == account.backend.auth
       IN  report' \in IF ~SecretsResolve(read) THEN {"fail"}
                       ELSE IF read.type # "oauth2" THEN {"ok"}
                       ELSE IF ~HasWriteCmd(read) THEN {"fail"}
                       ELSE {"ok", "fail"}
    /\ UNCHANGED <<account, works, use>>

\* account doctor: the secrets of both backends, and a refresh with those of the first.
Doctor ==
    /\ use.pc = "open" /\ report = "none"
    /\ LET read == account.backend.auth
           resolve == \A a \in {read} \union {b.auth : b \in account.send} : SecretsResolve(a)
       IN  report' \in IF ~resolve THEN {"fail"}
                       ELSE IF read.type # "oauth2" THEN {"ok"}
                       ELSE IF ~HasWriteCmd(read) THEN {"fail"}
                       ELSE {"ok", "fail"}
    /\ UNCHANGED <<account, works, use>>

UseInit ==
    /\ account \in Blocks
    /\ works \in SUBSET {"keyring", "cmd"}
    /\ use = [verb |-> "none", pc |-> "load", how |-> "none"]
    /\ report = "none"

UseNext == Load \/ Doctor \/ OpenFor

UseSpec == UseInit /\ [][UseNext]_useVars

-----------------------------------------------------------------------------
(* Properties *)

\* Every variable stays in its range.
UseTypeOK ==
    /\ works \subseteq Variants
    /\ use \in Use
    /\ report \in {"none", "ok", "fail"}
    /\ use.pc = "end" <=> use.how # "none"

\* The backend a verb uses: that of [message.send] to send from an IMAP account.
Used == IF use.verb = "send" THEN account.send \union {account.backend} ELSE {account.backend}

\* A block that loads is never found unusable further down, by the code that opens
\* a connection with it, but for a password that would be sent in clear and for a
\* refresh token without a write_cmd, which Load does not ask for.
LoadedOpens ==
    use.pc = "end" =>
        /\ use.how # "unsupported"
        /\ use.how = "cleartext" =>
               \E b \in account.send : b.encryption = "none" /\ b.auth.type = "password"
        /\ use.how = "nowritecmd" =>
               \E b \in Used : b.auth.type = "oauth2" /\ ~HasWriteCmd(b.auth)

\* An account that doctor has called healthy is not kept from reading, or from a new
\* consent, by anything in its block or in the secret store; for sending, doctor sees
\* the secrets but neither the cleartext nor the missing write_cmd.
DoctorVouches ==
    report = "ok" /\ use.pc = "end" =>
        \/ use.how \in {"refused", "opened"}
        \/ use.verb = "auth" /\ use.how = "notoauth"
        \/ use.verb = "send" /\ account.backend.type = "imap" /\ use.how \in {"cleartext", "nowritecmd"}
=============================================================================
