---------------------------- MODULE Conversation ----------------------------
(***************************************************************************)
(* The conversation of PAM with the helper (helper/backend/PamBackend.cpp, *)
(* PamHandle.cpp), and the requests that the helper makes of the daemon    *)
(* for it (auth/AuthRequest.cpp, Display::slotRequestChanged).  Login      *)
(* only counts these requests; here it matters what they ask for and what  *)
(* PAM is told.                                                            *)
(*                                                                         *)
(* PAM is in the middle of pam_authenticate, pam_acct_mgmt or              *)
(* pam_chauthtok and calls PamBackend::converse with some messages.  Of a  *)
(* message its style counts, and of a prompt the type that                 *)
(* PamData::detectPrompt reads from its text.  The user's name and         *)
(* password are the ones the greeter sent with Login.                      *)
(***************************************************************************)
EXTENDS Naturals, Sequences, SequencesExt

CONSTANTS
    MaxCalls,       \* bound on the calls of converse
    MaxMessages     \* bound on the messages of one call

ASSUME ConversationAssumption == MaxCalls \in Nat /\ MaxMessages \in Nat \ {0}

\* AuthPrompt::Type.  Every prompt that is shown as it is typed counts as a
\* LOGIN_USER, every hidden one without the word "password" as UNKNOWN.
LoginTypes == {"LOGIN_USER", "LOGIN_PASSWORD", "UNKNOWN"}
ChangeTypes == {"CHANGE_CURRENT", "CHANGE_NEW", "CHANGE_REPEAT"}
PromptTypes == LoginTypes \union ChangeTypes

\* "change": the text is "Changing password for" somebody.
PamMessage == [style : {"prompt"}, type : PromptTypes]
              \union [style : {"info"}, change : BOOLEAN]
              \union [style : {"error"}]

Response == {"none", "name", "password"}
Prompt == [type : PromptTypes, response : Response]
Blank(t) == [type |-> t, response |-> "none"]

\* PamData::detectPrompt, also for what is not a prompt.
DetectPrompt(m) == IF m.style = "prompt" THEN m.type ELSE "LOGIN_USER"

\* changePassRequest, loginRequest and changePassNoOldRequest.
ChangePassRequest ==
    <<Blank("CHANGE_CURRENT"), Blank("CHANGE_NEW"), Blank("CHANGE_REPEAT")>>

Predicted == [t \in {"LOGIN_USER", "CHANGE_CURRENT", "CHANGE_NEW"} |->
    CASE t = "LOGIN_USER" -> <<Blank("LOGIN_USER"), Blank("LOGIN_PASSWORD")>>
      [] t = "CHANGE_CURRENT" -> ChangePassRequest
      [] t = "CHANGE_NEW" -> <<Blank("CHANGE_NEW"), Blank("CHANGE_REPEAT")>>]

VARIABLES
    \* PAM
    phase,          \* the function of PAM that PamBackend::authenticate is in
    call,           \* the messages of the call of converse
    calls,          \* how many calls there were
    given,          \* what the last call returned for its first message
    \* PamBackend and PamData
    step,           \* where converse is
    at,             \* the message that its loops are at
    newRequest,     \* its variable of that name
    current,        \* m_currentRequest
    sent,           \* m_sent
    \* the daemon
    wire,           \* the request, then the reply, between the two
    prompts,        \* AuthRequest: prompts that wait for responses
    connected,      \* the socket of the helper is open
    \* history
    announced,      \* a password change was announced while m_sent was set
    changing        \* PAM has asked for, or announced, a change that needs
                    \*    the current password

pamVars == <<phase, call, calls, given>>
dataVars == <<newRequest, current, sent>>
daemonVars == <<wire, prompts, connected>>
vars == <<pamVars, step, at, dataVars, daemonVars, announced, changing>>

Functions == {"authenticate", "acctMgmt", "chAuthTok"}

TypeOK ==
    /\ phase \in Functions \union {"accepted", "denied", "crashed"}
    /\ call \in Seq(PamMessage) /\ Len(call) <= MaxMessages
    /\ calls \in 0 .. MaxCalls
    /\ given \in Response \union {"error"}
    /\ step \in {"pam", "insert", "asked", "answered", "respond"}
    /\ at \in 1 .. MaxMessages + 1
    /\ newRequest \in BOOLEAN /\ sent \in BOOLEAN
    /\ current \in Seq(Prompt)
    /\ wire \in Seq(Prompt) /\ prompts \in Seq(Prompt)
    /\ connected \in BOOLEAN /\ announced \in BOOLEAN /\ changing \in BOOLEAN

Init ==
    /\ phase = "authenticate" /\ step = "pam"
    /\ call = <<>> /\ calls = 0 /\ given = "none"
    /\ at = 1 /\ newRequest = FALSE
    /\ current = <<>> /\ sent = FALSE
    /\ wire = <<>> /\ prompts = <<>> /\ connected = TRUE
    /\ announced = FALSE /\ changing = FALSE

-----------------------------------------------------------------------------
(***************************************************************************)
(* PAM.                                                                    *)
(***************************************************************************)
NeedsCurrent(m) == \/ m.style = "prompt" /\ m.type = "CHANGE_CURRENT"
                   \/ m.style = "info" /\ m.change

Converse ==
    /\ phase \in Functions /\ step = "pam" /\ calls < MaxCalls
    /\ \E n \in 1 .. MaxMessages : call' \in [1 .. n -> PamMessage]
    /\ calls' = calls + 1
    /\ step' = "insert" /\ at' = 1 /\ newRequest' = FALSE
    /\ changing' = (changing \/ \E i \in 1 .. Len(call') : NeedsCurrent(call'[i]))
    /\ given' = "none"
    /\ UNCHANGED <<phase, current, sent, daemonVars, announced>>

\* PamBackend::authenticate and PamHandle::acctMgmt: a password that is over
\* has to be changed.
AfterSuccess == CASE phase = "authenticate" -> {"acctMgmt"}
                  [] phase = "acctMgmt" -> {"accepted", "chAuthTok"}
                  [] phase = "chAuthTok" -> {"accepted"}

PamReturns ==
    /\ phase \in Functions /\ step = "pam"
    /\ phase' \in AfterSuccess \union {"denied"}
    /\ UNCHANGED <<call, calls, given, step, at, dataVars, daemonVars,
                   announced, changing>>

\* The end of converse.
Return(result) ==
    /\ step' = "pam" /\ at' = 1 /\ call' = <<>>
    /\ given' = result

-----------------------------------------------------------------------------
(***************************************************************************)
(* The first loop of converse: what has to be asked for.                   *)
(***************************************************************************)
Stored(t) == \E k \in 1 .. Len(current) : current[k].type = t

Inserts(style) ==
    /\ step = "insert" /\ at <= Len(call)
    /\ call[at].style = style
    /\ at' = at + 1
    /\ UNCHANGED <<pamVars, step, daemonVars, changing>>

\* PamData::insertPrompt for a prompt that is stored: with an answer when
\* m_sent is set, else to be asked for now.
InsertKnown ==
    /\ Inserts("prompt") /\ Stored(call[at].type)
    /\ newRequest' = ~sent
    /\ UNCHANGED <<current, sent, announced>>

\* Fault: m_sent is not reset.
InsertNewKeeps ==
    /\ Inserts("prompt") /\ ~Stored(call[at].type)
    /\ newRequest' = TRUE
    /\ current' = IF Len(call) = 1 /\ call[at].type \in DOMAIN Predicted
                  THEN Predicted[call[at].type]
                  ELSE Append(IF sent THEN <<>> ELSE current, Blank(call[at].type))
    /\ UNCHANGED <<sent, announced>>

\* Other prompts throw away the answers to the last request; a prompt that
\* comes alone is taken for the first one of a known dialogue.
InsertNew ==
    /\ Inserts("prompt") /\ ~Stored(call[at].type)
    /\ newRequest' = TRUE
    /\ sent' = (sent /\ current = <<>>)
    /\ current' = IF Len(call) = 1 /\ call[at].type \in DOMAIN Predicted
                  THEN Predicted[call[at].type]
                  ELSE Append(IF sent THEN <<>> ELSE current, Blank(call[at].type))
    /\ UNCHANGED announced

\* PamData::handleInfo: "Changing password for" alone predicts three prompts.
HandleInfo ==
    /\ Inserts("info")
    /\ IF call[at].change /\ Len(call) = 1
       THEN current' = ChangePassRequest /\ announced' = (announced \/ sent)
       ELSE UNCHANGED <<current, announced>>
    /\ UNCHANGED <<newRequest, sent>>

HandleError ==
    /\ Inserts("error")
    /\ UNCHANGED <<dataVars, announced>>

\* Fault: the second loop starts with message 0.
EndInsertAtZero ==
    /\ step = "insert" /\ at > Len(call)
    /\ step' = "respond" /\ at' = 0
    /\ UNCHANGED <<pamVars, dataVars, daemonVars, announced, changing>>

\* HelperApp::request, when there is one and it was not sent before; without
\* the daemon it returns nothing and converse fails.
EndInsert ==
    /\ step = "insert" /\ at > Len(call)
    /\ IF newRequest /\ ~sent /\ current # <<>>
       THEN IF connected
            THEN /\ step' = "asked" /\ wire' = current
                 /\ UNCHANGED <<at, call, given>>
            ELSE Return("error") /\ UNCHANGED wire
       ELSE /\ step' = "respond" /\ at' = 1
            /\ UNCHANGED <<call, given, wire>>
    /\ UNCHANGED <<phase, calls, dataVars, prompts, connected, announced, changing>>

-----------------------------------------------------------------------------
(***************************************************************************)
(* The daemon, and the end of the wait for it.                             *)
(***************************************************************************)
\* Fault: the password first.
FillSwapped(q) == [k \in 1 .. Len(q) |->
    [q[k] EXCEPT !.response = IF k = 1 THEN "password" ELSE "name"]]

\* Display::slotRequestChanged for one or two prompts.
Fill(q) == [k \in 1 .. Len(q) |->
    [q[k] EXCEPT !.response = IF k = Len(q) THEN "password" ELSE "name"]]

\* Fault: only one prompt can be filled in.
ReceiveRequestOfOne ==
    /\ step = "asked" /\ wire # <<>>
    /\ IF Len(wire) = 1
       THEN step' = "answered" /\ wire' = Fill(wire) /\ UNCHANGED prompts
       ELSE prompts' = wire /\ wire' = <<>> /\ UNCHANGED step
    /\ UNCHANGED <<pamVars, at, dataVars, connected, announced, changing>>

\* AuthRequest::setRequest, and done() if Display has filled it in.
ReceiveRequest ==
    /\ step = "asked" /\ wire # <<>>
    /\ IF Len(wire) <= 2
       THEN step' = "answered" /\ wire' = Fill(wire) /\ UNCHANGED prompts
       ELSE prompts' = wire /\ wire' = <<>> /\ UNCHANGED step
    /\ UNCHANGED <<pamVars, at, dataVars, connected, announced, changing>>

\* PamData::completeRequest takes a reply with the prompts of the request.
CompleteRequest ==
    /\ step = "answered"
    /\ IF [k \in 1 .. Len(wire) |-> wire[k].type]
            = [k \in 1 .. Len(current) |-> current[k].type]
       THEN current' = wire /\ sent' = TRUE
       ELSE UNCHANGED <<current, sent>>
    /\ step' = "respond" /\ at' = 1 /\ wire' = <<>>
    /\ UNCHANGED <<pamVars, newRequest, prompts, connected, announced, changing>>

\* The daemon ends: who waits for it is told so by his socket, unless the
\* reply is there already.
DaemonEnds ==
    /\ connected /\ connected' = FALSE
    /\ prompts' = <<>>
    /\ IF step = "asked"
       THEN Return("error") /\ wire' = <<>>
       ELSE UNCHANGED <<step, at, call, given, wire>>
    /\ UNCHANGED <<phase, calls, dataVars, announced, changing>>

-----------------------------------------------------------------------------
(***************************************************************************)
(* The second loop of converse: the responses.                             *)
(***************************************************************************)
Index(t) == CHOOSE k \in 1 .. Len(current) :
               /\ current[k].type = t
               /\ \A j \in 1 .. k - 1 : current[j].type # t

\* PamData::getResponse: a response is handed out once.  resp[i] is right for
\* the first message; behind it is memory of the caller that converse takes
\* for pointers, so PAM gets nothing or the helper crashes.
GetResponse ==
    /\ step = "respond" /\ at <= Len(call)
    /\ LET t == DetectPrompt(call[at])
           response == IF Stored(t) THEN current[Index(t)].response ELSE "none"
       IN /\ current' = IF Stored(t) THEN RemoveAt(current, Index(t)) ELSE current
          /\ given' = IF at = 1 THEN response ELSE given
    /\ sent' = (sent /\ current' # <<>>)
    /\ at' = at + 1
    /\ phase' \in {phase} \union (IF at > 1 THEN {"crashed"} ELSE {})
    /\ step' = IF phase' = "crashed" THEN "pam" ELSE step
    /\ UNCHANGED <<call, calls, newRequest, daemonVars, announced, changing>>

EndRespond ==
    /\ step = "respond" /\ at > Len(call)
    /\ Return(given)
    /\ UNCHANGED <<phase, calls, dataVars, daemonVars, announced, changing>>

HelperNext ==
    \/ InsertKnown \/ InsertNew \/ HandleInfo \/ HandleError \/ EndInsert
    \/ CompleteRequest \/ GetResponse \/ EndRespond

Next == Converse \/ PamReturns \/ HelperNext \/ ReceiveRequest \/ DaemonEnds

Spec == Init /\ [][Next]_vars

\* Helper and daemon go on.  PAM need not.
FairSpec == Spec /\ WF_vars(HelperNext) /\ WF_vars(ReceiveRequest)
-----------------------------------------------------------------------------
(***************************************************************************)
(* Properties.                                                             *)
(***************************************************************************)

\* insertPrompt does not ask for a prompt that is stored while m_sent is set,
\* since "we have a response already": there is one, for every prompt, unless
\* PAM has announced a password change while answers were still left.
SentAreAnswered ==
    sent /\ ~announced => \A k \in 1 .. Len(current) : current[k].response # "none"

\* What PAM waits for: a prompt that came alone, or anything else.
Question == IF step = "pam" THEN "none"
            ELSE IF Len(call) = 1 /\ call[1].style = "prompt" THEN call[1].type
            ELSE "other"

PamView == INSTANCE Prompting WITH
    Questions <- PromptTypes \union {"other"},
    Answers <- [q \in PromptTypes \union {"other"} |->
                  CASE q = "LOGIN_USER" -> {"name"}
                    [] q \in {"LOGIN_PASSWORD", "UNKNOWN"} -> {"password"}
                    [] OTHER -> Response],
    question <- Question,
    answer <- IF step = "pam" THEN given ELSE "none"

\* A prompt of a login gets the answer it is meant for: one that shows what
\* is typed the user name, a hidden one the password, whatever was asked or
\* answered ahead before.  Prompts of password changes may get anything.
AnswersRight == PamView!Spec

\* A call of converse returns, unless the daemon got more prompts than it
\* fills in.
CallReturns == step # "pam" ~> step = "pam" \/ Len(prompts) > 2
=============================================================================
