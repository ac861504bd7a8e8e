--------------------------- MODULE MCInvocations ---------------------------
(***************************************************************************)
(* Instances for TLC of the modules that are about one kind of invocation  *)
(* each and share no state.  A behaviour is one of one of them, while the  *)
(* others rest; what is checked is checked of each part by itself.         *)
(***************************************************************************)
EXTENDS CacheOpen, CacheListing, SendMail, AuthorizeFlow, MessageIds, ThreadFetch, ConfigUse

CONSTANTS me, ann

ASSUME InstanceType == ann \in Mailboxes /\ Spellings # {}

VARIABLE part       \* the module that moves

restVars == <<part, openVars, listVars, sendVars, authVars, idVars, threadVars, useVars>>

-----------------------------------------------------------------------------
(* The commands given to SendMail *)

Plainly == CHOOSE s \in Spellings : TRUE
UpTo(k, S) == UNION {kSubset(i, S) : i \in 0..k}

Blank == [verb |-> "send", gmail |-> FALSE, to |-> {}, cc |-> {}, bcc |-> {},
          from |-> Unparseable, others |-> <<>>, all |-> FALSE, place |-> Nowhere]

\* Sends and forwards to up to four addresses, text that is no address among them.
Writes == {[Blank EXCEPT !.verb = v, !.gmail = g, !.to = t, !.cc = c, !.bcc = b] :
              v \in {"send", "forward"}, g \in BOOLEAN,
              t \in UpTo(1, Texts), c \in UpTo(1, Addresses), b \in UpTo(2, Addresses)}

\* Replies to a message with up to three addresses in To and Cc.
Replies == {[Blank EXCEPT !.verb = "reply", !.gmail = g, !.from = f, !.others = o, !.all = a] :
               g \in BOOLEAN, f \in {<<ann, Plainly>>, <<me, Plainly>>},
               o \in SeqOf(Texts, MaxOthers), a \in BOOLEAN}

\* Replies to a message anywhere in its conversation.
ReplyPlaces == {[Blank EXCEPT !.verb = "reply", !.from = <<ann, Plainly>>, !.place = p] : p \in Place}

MCCommands == Writes \union Replies \union ReplyPlaces

-----------------------------------------------------------------------------
(* The account blocks given to ConfigUse: good ones, with a change that leaves *)
(* them good, and one that may not                                             *)

Password(v) == [type |-> "password", flat |-> {v}, clientId |-> FALSE, urls |-> FALSE,
                clientSecret |-> {}, refresh |-> {}]
OAuth2(v) == [type |-> "oauth2", flat |-> {}, clientId |-> TRUE, urls |-> TRUE,
              clientSecret |-> {[set |-> {"cmd"}, writeCmd |-> FALSE]},
              refresh |-> {[set |-> {v}, writeCmd |-> TRUE]}]

Gmail == [type |-> "gmail", host |-> FALSE, port |-> FALSE, login |-> TRUE,
          encryption |-> "absent", insecure |-> FALSE, auth |-> OAuth2("keyring")]
Network(type, auth) == [type |-> type, host |-> TRUE, port |-> TRUE, login |-> TRUE,
                        encryption |-> "tls", insecure |-> FALSE, auth |-> auth]

AuthChanges(a) ==
    {[a EXCEPT !.type = t] : t \in {"password", "oauth2", "other"}} \union
    {[a EXCEPT !.flat = f] : f \in UpTo(2, Variants)} \union
    {[a EXCEPT !.clientId = ~@], [a EXCEPT !.urls = ~@], [a EXCEPT !.clientSecret = {}]} \union
    {[a EXCEPT !.refresh = r] :
        r \in Optional([set : {{}, {"raw"}, {"cmd"}, {"keyring", "cmd"}}, writeCmd : BOOLEAN])}

BackendChanges(b) ==
    {[b EXCEPT !.type = t] : t \in {"imap", "gmail", "smtp", "other"}} \union
    {[b EXCEPT !.host = ~@], [b EXCEPT !.port = ~@], [b EXCEPT !.login = ~@], [b EXCEPT !.insecure = ~@]} \union
    {[b EXCEPT !.encryption = e] : e \in {"absent", "tls", "start-tls", "none", "other"}} \union
    {[b EXCEPT !.auth = a] : a \in AuthChanges(b.auth)}

AccountChanges(a) ==
    {[a EXCEPT !.email = ~@], [a EXCEPT !.inbox = ~@], [a EXCEPT !.send = {}]} \union
    {[a EXCEPT !.backend = b] : b \in BackendChanges(a.backend)} \union
    UNION {{[a EXCEPT !.send = {c}] : c \in BackendChanges(b)} : b \in a.send}

GoodBlocks ==
    {[email |-> TRUE, inbox |-> FALSE, backend |-> Gmail, send |-> {}]} \union
    {[email |-> TRUE, inbox |-> TRUE, backend |-> Network("imap", r), send |-> {Network("smtp", s)}] :
        r \in {Password("keyring"), OAuth2("keyring")}, s \in {Password("cmd"), OAuth2("cmd")}}

MCBlocks ==
    LET good == {b \in UNION {AccountChanges(a) : a \in GoodBlocks} : AccountIsValid(b)}
    IN  UNION {AccountChanges(b) : b \in good}

-----------------------------------------------------------------------------
(* Each part at rest: where a behaviour of it begins, or ends *)

ListRest ==
    /\ date = [r \in Rows |-> 0] /\ matching = {} /\ limit = DefaultLimit /\ cursor = 0
    /\ listing = "end" /\ shown = <<>> /\ stayed = {}

SendRest ==
    /\ mail = [Blank EXCEPT !.to = {<<ann, Plainly>>}]
    /\ wire = [pc |-> "open", run |-> 1, left |-> {}, named |-> {}, through |-> FALSE, lost |-> 0]
    /\ got = [a \in Addresses |-> 0] /\ reads = [a \in Addresses |-> {}]

IdRest == id = NotAnID /\ text = NoText /\ back = NotAnID

ThreadRest ==
    /\ above = [u \in Uids |-> 0] /\ newest = 1 /\ box = {} /\ remained = {}
    /\ thread = [pc |-> "select", anchor |-> 1, alias |-> FALSE, server |-> "plain",
                 window |-> 1, uids |-> {}, answer |-> {}]

UseRest ==
    /\ account = [email |-> TRUE, inbox |-> FALSE, backend |-> Gmail, send |-> {}]
    /\ works = {} /\ report = "none"
    /\ use = [verb |-> "none", pc |-> "load", how |-> "none"]

MCInit ==
    \/ /\ part = "open"
       /\ OpenInit /\ ListRest /\ SendRest /\ AuthInit /\ IdRest /\ ThreadRest /\ UseRest
    \/ /\ part = "list"
       /\ OpenInit /\ ListInit /\ SendRest /\ AuthInit /\ IdRest /\ ThreadRest /\ UseRest
    \/ /\ part = "send"
       /\ OpenInit /\ ListRest /\ SendInit /\ AuthInit /\ IdRest /\ ThreadRest /\ UseRest
    \/ /\ part = "auth"
       /\ OpenInit /\ ListRest /\ SendRest /\ AuthInit /\ IdRest /\ ThreadRest /\ UseRest
    \/ /\ part = "id"
       /\ OpenInit /\ ListRest /\ SendRest /\ AuthInit /\ IdInit /\ ThreadRest /\ UseRest
    \/ /\ part = "thread"
       /\ OpenInit /\ ListRest /\ SendRest /\ AuthInit /\ IdRest /\ ThreadInit /\ UseRest
       /\ thread.alias => thread.server = "plain" /\ thread.window = MaxUid
       /\ thread.window \in {1, 2, MaxUid}
    \/ /\ part = "use"
       /\ OpenInit /\ ListRest /\ SendRest /\ AuthInit /\ IdRest /\ ThreadRest /\ UseInit

MCNext ==
    /\ \/ /\ part = "open" /\ OpenNext
          /\ UNCHANGED <<listVars, sendVars, authVars, idVars, threadVars, useVars>>
       \/ /\ part = "list" /\ ListNext
          /\ UNCHANGED <<openVars, sendVars, authVars, idVars, threadVars, useVars>>
       \/ /\ part = "send" /\ SendNext
          /\ UNCHANGED <<openVars, listVars, authVars, idVars, threadVars, useVars>>
       \/ /\ part = "auth" /\ AuthNext
          /\ UNCHANGED <<openVars, listVars, sendVars, idVars, threadVars, useVars>>
       \/ /\ part = "id" /\ IdNext
          /\ UNCHANGED <<openVars, listVars, sendVars, authVars, threadVars, useVars>>
       \/ /\ part = "thread" /\ ThreadNext
          /\ UNCHANGED <<openVars, listVars, sendVars, authVars, idVars, useVars>>
       \/ /\ part = "use" /\ UseNext
          /\ UNCHANGED <<openVars, listVars, sendVars, authVars, idVars, threadVars>>
    /\ UNCHANGED part

\* The fairness of FairListSpec and FairAuthSpec.
MCSpec ==
    /\ MCInit /\ [][MCNext]_restVars
    /\ WF_listVars(ListEnvelopes)
    /\ \A f \in Flows : WF_authVars(FlowStep(f))
-----------------------------------------------------------------------------
(* Properties *)

\* The variables of every part stay in their ranges.
TypesOK ==
    OpenTypeOK /\ ListTypeOK /\ SendTypeOK /\ AuthTypeOK /\ ThreadTypeOK /\ UseTypeOK
=============================================================================
