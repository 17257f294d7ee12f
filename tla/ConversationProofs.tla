------------------------- MODULE ConversationProofs -------------------------
(***************************************************************************)
(* Proofs about Conversation, however many calls PAM makes and however     *)
(* long they are: while m_sent is set every stored prompt has its          *)
(* response, and a prompt of a login gets its own answer or none           *)
(* (Conversation implements Prompting).                                    *)
(***************************************************************************)
EXTENDS Conversation, SequenceTheorems, WellFoundedInduction, TLAPS

\* A reply on its way has a response for every prompt, and what was sent is
\* stored with its responses.
AnsweredInv ==
    /\ sent => current # <<>>
    /\ step = "answered" =>
         wire # <<>> /\ \A k \in 1 .. Len(wire) : wire[k].response # "none"
    /\ SentAreAnswered

-----------------------------------------------------------------------------
\* Of the places of a sequence one is the first.
LEMMA FirstPlace ==
    ASSUME NEW n \in Nat, NEW T, T \subseteq 1 .. n, T # {}
    PROVE  \E k \in T : \A j \in T : ~ (j < k)
<1>1. T \subseteq Nat
  OBVIOUS
<1>2. \E k \in T : \A j \in T : ~ (<<j, k>> \in OpToRel(<, Nat))
  BY <1>1, WFMin, NatLessThanWellFounded
<1> QED
  BY <1>1, <1>2 DEF OpToRel

\* The prompt that getResponse finds.
LEMMA IndexStored ==
    ASSUME NEW t, Stored(t), current \in Seq(Prompt)
    PROVE  /\ Index(t) \in 1 .. Len(current)
           /\ current[Index(t)].type = t
<1> DEFINE T == {k \in 1 .. Len(current) : current[k].type = t}
<1>1. T \subseteq 1 .. Len(current) /\ T # {} /\ Len(current) \in Nat
  BY DEF Stored
<1>2. PICK k \in T : \A j \in T : ~ (j < k)
  BY <1>1, FirstPlace
<1>3. \A j \in 1 .. k - 1 : current[j].type # t
  BY <1>1, <1>2
<1> QED
  BY <1>2, <1>3 DEF Index

\* What is left when it has been taken out.
LEMMA Removed ==
    ASSUME NEW S, NEW s \in Seq(S), NEW i \in 1 .. Len(s)
    PROVE  /\ RemoveAt(s, i) \in Seq(S)
           /\ Len(RemoveAt(s, i)) = Len(s) - 1
           /\ \A k \in 1 .. Len(RemoveAt(s, i)) :
                RemoveAt(s, i)[k] = s[IF k < i THEN k ELSE k + 1]
<1> DEFINE a == SubSeq(s, 1, i - 1)
           b == SubSeq(s, i + 1, Len(s))
<1>1. Len(s) \in Nat
  OBVIOUS
<1>2. /\ a \in Seq(S) /\ Len(a) = i - 1
      /\ \A k \in 1 .. i - 1 : a[k] = s[k]
  BY <1>1, SubSeqProperties
<1>3. /\ b \in Seq(S) /\ Len(b) = Len(s) - i
      /\ \A k \in 1 .. Len(s) - i : b[k] = s[i + k]
  BY <1>1, SubSeqProperties
<1> HIDE DEF a, b
<1>4. /\ a \o b \in Seq(S) /\ Len(a \o b) = Len(s) - 1
      /\ \A k \in 1 .. Len(s) - 1 :
           (a \o b)[k] = IF k <= i - 1 THEN a[k] ELSE b[k - (i - 1)]
  <2>1. /\ a \o b \in Seq(S) /\ Len(a \o b) = Len(a) + Len(b)
        /\ \A k \in 1 .. Len(a) + Len(b) :
             (a \o b)[k] = IF k <= Len(a) THEN a[k] ELSE b[k - Len(a)]
    BY <1>2, <1>3, ConcatProperties
  <2>2. Len(a) + Len(b) = Len(s) - 1
    BY <1>1, <1>2, <1>3
  <2> QED
    BY <1>2, <2>1, <2>2
<1>5. RemoveAt(s, i) = a \o b
  BY DEF RemoveAt, a, b
<1>6. ASSUME NEW k \in 1 .. Len(s) - 1
      PROVE  (a \o b)[k] = s[IF k < i THEN k ELSE k + 1]
  <2>1. CASE k < i
    BY <1>1, <1>2, <1>4, <2>1
  <2>2. CASE ~ (k < i)
    <3>1. (a \o b)[k] = b[k - (i - 1)] /\ k - (i - 1) \in 1 .. Len(s) - i
      BY <1>1, <1>4, <2>2
    <3>2. b[k - (i - 1)] = s[i + (k - (i - 1))]
      BY <1>3, <3>1
    <3>3. i + (k - (i - 1)) = k + 1
      BY <1>1
    <3> QED
      BY <2>2, <3>1, <3>2, <3>3
  <2> QED
    BY <2>1, <2>2
<1> QED
  BY <1>4, <1>5, <1>6

\* A blank prompt, and the prompts of the known dialogues.
LEMMA Blanks ==
    /\ \A t \in PromptTypes : Blank(t) \in Prompt
    /\ \A t \in DOMAIN Predicted : Predicted[t] \in Seq(Prompt) /\ Predicted[t] # <<>>
    /\ ChangePassRequest \in Seq(Prompt) /\ ChangePassRequest # <<>>
<1>1. \A t \in PromptTypes : Blank(t) \in Prompt
  BY DEF Blank, Prompt, Response
<1> DEFINE s2(t, u) == <<Blank(t), Blank(u)>>
           s3 == <<Blank("CHANGE_CURRENT"), Blank("CHANGE_NEW"),
                   Blank("CHANGE_REPEAT")>>
<1>2. /\ s2("LOGIN_USER", "LOGIN_PASSWORD") \in Seq(Prompt)
      /\ s2("LOGIN_USER", "LOGIN_PASSWORD") # <<>>
      /\ s2("CHANGE_NEW", "CHANGE_REPEAT") \in Seq(Prompt)
      /\ s2("CHANGE_NEW", "CHANGE_REPEAT") # <<>>
  BY <1>1 DEF PromptTypes, LoginTypes, ChangeTypes
<1>3. s3 \in Seq(Prompt) /\ s3 # <<>>
  BY <1>1 DEF PromptTypes, ChangeTypes
<1>4. \A t \in DOMAIN Predicted : Predicted[t] \in
        {s3, s2("LOGIN_USER", "LOGIN_PASSWORD"), s2("CHANGE_NEW", "CHANGE_REPEAT")}
  BY DEF Predicted, ChangePassRequest
<1> HIDE DEF s2, s3
<1>5. ChangePassRequest = s3
  BY DEF ChangePassRequest, s3
<1> QED
  BY <1>1, <1>2, <1>3, <1>4, <1>5

\* Display fills in every prompt of a request, and leaves its type.
LEMMA Filled ==
    ASSUME NEW q \in Seq(Prompt)
    PROVE  /\ Fill(q) \in Seq(Prompt) /\ Len(Fill(q)) = Len(q)
           /\ \A k \in 1 .. Len(q) :
                /\ Fill(q)[k].type = q[k].type
                /\ Fill(q)[k].response = IF k = Len(q) THEN "password" ELSE "name"
<1>1. Len(q) \in Nat /\ \A k \in 1 .. Len(q) : q[k] \in Prompt
  OBVIOUS
<1>2. \A p \in Prompt, r \in Response : /\ [p EXCEPT !.response = r] \in Prompt
                                       /\ [p EXCEPT !.response = r].type = p.type
                                       /\ [p EXCEPT !.response = r].response = r
  BY DEF Prompt
<1>3. Fill(q) = [k \in 1 .. Len(q) |-> [q[k] EXCEPT
                  !.response = IF k = Len(q) THEN "password" ELSE "name"]]
  BY DEF Fill
<1>4. ASSUME NEW k \in 1 .. Len(q)
      PROVE  /\ Fill(q)[k] \in Prompt
             /\ Fill(q)[k].type = q[k].type
             /\ Fill(q)[k].response = IF k = Len(q) THEN "password" ELSE "name"
  <2> DEFINE r == IF k = Len(q) THEN "password" ELSE "name"
  <2>1. r \in Response /\ q[k] \in Prompt
    BY <1>1 DEF Response
  <2>2. Fill(q)[k] = [q[k] EXCEPT !.response = r]
    BY <1>3
  <2> HIDE DEF r
  <2>3. Fill(q)[k] \in Prompt /\ Fill(q)[k].type = q[k].type /\ Fill(q)[k].response = r
    BY <1>2, <2>1, <2>2
  <2> QED
    BY <2>3 DEF r
<1>5. Fill(q) \in [1 .. Len(q) -> Prompt]
  BY <1>3, <1>4
<1> QED
  BY <1>1, <1>4, <1>5, LenProperties

\* Where converse begins and ends.
LEMMA Begin ==
    /\ MaxMessages \in Nat /\ 1 \in 1 .. MaxMessages + 1
    /\ <<>> \in Seq(Prompt) /\ <<>> \in Seq(PamMessage) /\ Len(<<>>) <= MaxMessages
<1>1. MaxMessages \in Nat /\ MaxMessages > 0
  BY ConversationAssumption
<1>2. <<>> \in Seq(Prompt) /\ <<>> \in Seq(PamMessage) /\ Len(<<>>) = 0
  OBVIOUS
<1> QED
  BY <1>1, <1>2

-----------------------------------------------------------------------------
\* PamBackend as it is made.
LEMMA InitTypes == Init => TypeOK /\ AnsweredInv
<1>1. 0 \in 0 .. MaxCalls
  BY ConversationAssumption
<1>2. Init => TypeOK
  BY <1>1, Begin DEF Init, TypeOK, Functions, Response
<1>3. Init => AnsweredInv
  BY DEF Init, AnsweredInv, SentAreAnswered
<1> QED
  BY <1>2, <1>3

\* PAM calls converse, or one of its functions returns.
LEMMA PamTypes ==
    ASSUME TypeOK, Converse \/ PamReturns
    PROVE  TypeOK'
<1>1. CASE Converse
  <2>1. PICK n \in 1 .. MaxMessages : call' \in [1 .. n -> PamMessage]
    BY <1>1 DEF Converse
  <2>2. call' \in Seq(PamMessage) /\ Len(call') = n /\ n \in Nat
    BY <2>1, ConversationAssumption, LenProperties
  <2>3. Len(call') <= MaxMessages
    BY <2>1, <2>2, ConversationAssumption
  <2>4. calls' \in 0 .. MaxCalls /\ changing' \in BOOLEAN
    BY <1>1, ConversationAssumption DEF Converse, TypeOK
  <2> QED
    BY <1>1, <2>2, <2>3, <2>4, Begin
       DEF Converse, TypeOK, Response, daemonVars
<1>2. CASE PamReturns
  <2>1. phase' \in Functions \union {"accepted", "denied", "crashed"}
    BY <1>2 DEF PamReturns, AfterSuccess, Functions
  <2> QED
    BY <1>2, <2>1 DEF PamReturns, TypeOK, dataVars, daemonVars
<1> QED
  BY <1>1, <1>2

\* The first loop of converse.
LEMMA InsertTypes ==
    ASSUME TypeOK, InsertKnown \/ InsertNew \/ HandleInfo \/ HandleError
    PROVE  TypeOK'
<1>1. at <= Len(call) /\ at' = at + 1 /\ UNCHANGED <<pamVars, step, daemonVars, changing>>
  BY DEF InsertKnown, InsertNew, HandleInfo, HandleError, Inserts
<1>2. at' \in 1 .. MaxMessages + 1 /\ Len(call) \in Nat
  BY <1>1, ConversationAssumption DEF TypeOK
<1>3. call[at] \in PamMessage
  BY <1>1, <1>2 DEF TypeOK
<1>4. current' \in Seq(Prompt)
  <2>1. CASE InsertKnown
    BY <2>1 DEF InsertKnown, TypeOK
  <2>2. CASE InsertNew
    <3>1. Blank(call[at].type) \in Prompt
      BY <1>3, <2>2, Blanks DEF InsertNew, Inserts, PamMessage
    <3>2. Append(<<>>, Blank(call[at].type)) \in Seq(Prompt)
          /\ Append(current, Blank(call[at].type)) \in Seq(Prompt)
      BY <3>1, AppendProperties DEF TypeOK
    <3> QED
      BY <2>2, <3>2, Blanks DEF InsertNew
  <2>3. CASE HandleInfo
    BY <2>3, Blanks DEF HandleInfo, TypeOK
  <2>4. CASE HandleError
    BY <2>4 DEF HandleError, dataVars, TypeOK
  <2> QED
    BY <2>1, <2>2, <2>3, <2>4
<1>5. newRequest' \in BOOLEAN /\ sent' \in BOOLEAN /\ announced' \in BOOLEAN
  BY DEF InsertKnown, InsertNew, HandleInfo, HandleError, dataVars, TypeOK
<1> QED
  BY <1>1, <1>2, <1>4, <1>5 DEF TypeOK, pamVars, daemonVars

\* The request and its reply.
LEMMA RequestTypes ==
    ASSUME TypeOK, EndInsert \/ ReceiveRequest \/ CompleteRequest \/ DaemonEnds
    PROVE  TypeOK'
<1> USE Begin DEF TypeOK, pamVars, dataVars, daemonVars, Return, Response
<1>1. CASE EndInsert
  BY <1>1 DEF EndInsert
<1>2. CASE ReceiveRequest
  <2>1. Fill(wire) \in Seq(Prompt)
    BY Filled
  <2> QED
    BY <1>2, <2>1 DEF ReceiveRequest
<1>3. CASE CompleteRequest
  <2>1. /\ current' \in {current, wire} /\ sent' \in {sent, TRUE}
        /\ step' = "respond" /\ at' = 1 /\ wire' = <<>>
        /\ UNCHANGED <<pamVars, newRequest, prompts, connected, announced, changing>>
    BY <1>3, Zenon DEF CompleteRequest
  <2> QED
    BY <2>1
<1>4. CASE DaemonEnds
  <2>1. /\ connected' = FALSE /\ prompts' = <<>>
        /\ UNCHANGED <<phase, calls, newRequest, current, sent, announced, changing>>
    BY <1>4 DEF DaemonEnds
  <2>2. CASE step = "asked"
    BY <1>4, <2>1, <2>2 DEF DaemonEnds
  <2>3. CASE step # "asked"
    <3>1. UNCHANGED <<step, at, call, given, wire>>
      BY <1>4, <2>3, Zenon DEF DaemonEnds
    <3> QED
      BY <2>1, <3>1
  <2> QED
    BY <2>2, <2>3
<1> QED
  BY <1>1, <1>2, <1>3, <1>4

\* The second loop of converse.
LEMMA RespondTypes ==
    ASSUME TypeOK, GetResponse \/ EndRespond
    PROVE  TypeOK'
<1>1. CASE GetResponse
  <2>1. at' \in 1 .. MaxMessages + 1
    BY <1>1, ConversationAssumption DEF GetResponse, TypeOK
  <2> DEFINE t == DetectPrompt(call[at])
  <2>2. current' \in Seq(Prompt)
    BY <1>1, IndexStored, Removed DEF GetResponse, TypeOK
  <2>3. Stored(t) => current[Index(t)] \in Prompt
    BY IndexStored DEF TypeOK
  <2>4. given' \in Response \union {"error"}
    BY <1>1, <2>3 DEF GetResponse, TypeOK, Prompt, Response
  <2>5. /\ phase' \in Functions \union {"accepted", "denied", "crashed"}
        /\ step' \in {"pam", "respond"} /\ sent' \in BOOLEAN
    BY <1>1 DEF GetResponse, TypeOK
  <2> QED
    BY <1>1, <2>1, <2>2, <2>4, <2>5 DEF GetResponse, TypeOK, daemonVars
<1>2. CASE EndRespond
  BY <1>2, Begin DEF EndRespond, Return, TypeOK, dataVars, daemonVars
<1> QED
  BY <1>1, <1>2

\* Every step keeps the types.
LEMMA NextTypes == TypeOK /\ [Next]_vars => TypeOK'
<1> SUFFICES ASSUME TypeOK, [Next]_vars PROVE TypeOK'
  OBVIOUS
<1>1. CASE UNCHANGED vars
  BY <1>1 DEF vars, TypeOK, pamVars, dataVars, daemonVars
<1> QED
  BY <1>1, PamTypes, InsertTypes, RequestTypes, RespondTypes DEF Next, HelperNext

\* The variables have their types, for any number and length of calls
\* (PamBackend and PamData).
THEOREM ConversationTypes == Spec => []TypeOK
<1>1. Init => TypeOK
  BY InitTypes
<1> QED
  BY <1>1, NextTypes, PTL DEF Spec

-----------------------------------------------------------------------------
\* PAM, and the end of the daemon: prompts and answers stay.
LEMMA OthersKeepAnswers ==
    ASSUME TypeOK, AnsweredInv, Converse \/ PamReturns \/ HandleError \/ InsertKnown
                                \/ EndInsert \/ EndRespond \/ DaemonEnds
    PROVE  AnsweredInv'
<1>1. UNCHANGED <<sent, current, announced>>
  BY DEF Converse, PamReturns, HandleError, InsertKnown, EndInsert, EndRespond,
         DaemonEnds, Inserts, dataVars
<1>2. step' = "answered" => step = "answered" /\ wire' = wire
  BY DEF Converse, PamReturns, HandleError, InsertKnown, Inserts, EndInsert, EndRespond,
         DaemonEnds, Return, daemonVars
<1> QED
  BY <1>1, <1>2 DEF AnsweredInv, SentAreAnswered

\* New prompts reset m_sent; announced ones are marked.
LEMMA InsertKeepsAnswers ==
    ASSUME TypeOK, AnsweredInv, InsertNew \/ HandleInfo
    PROVE  AnsweredInv'
<1>1. step' = "insert"
  BY DEF InsertNew, HandleInfo, Inserts
<1>2. CASE InsertNew
  BY <1>1, <1>2 DEF InsertNew, AnsweredInv, SentAreAnswered
<1>3. CASE HandleInfo
  BY <1>1, <1>3, Blanks DEF HandleInfo, AnsweredInv, SentAreAnswered
<1> QED
  BY <1>2, <1>3

\* The daemon answers all prompts or none.
LEMMA RequestKeepsAnswers ==
    ASSUME TypeOK, AnsweredInv, ReceiveRequest \/ CompleteRequest
    PROVE  AnsweredInv'
<1>1. CASE ReceiveRequest
  <2>1. UNCHANGED <<sent, current, announced>>
    BY <1>1 DEF ReceiveRequest, dataVars
  <2>2. step' = "answered" => wire # <<>> /\ wire' = Fill(wire)
    BY <1>1 DEF ReceiveRequest
  <2>3. wire # <<>> => Fill(wire) # <<>> /\ \A k \in 1 .. Len(Fill(wire)) :
                                              Fill(wire)[k].response # "none"
    BY Filled DEF TypeOK
  <2> QED
    BY <2>1, <2>2, <2>3 DEF AnsweredInv, SentAreAnswered
<1>2. CASE CompleteRequest
  BY <1>2 DEF CompleteRequest, AnsweredInv, SentAreAnswered
<1> QED
  BY <1>1, <1>2

\* A response is taken with its prompt, and the last one takes m_sent with it.
LEMMA RespondKeepsAnswers ==
    ASSUME TypeOK, AnsweredInv, GetResponse
    PROVE  AnsweredInv'
<1> DEFINE t == DetectPrompt(call[at])
<1>1. step' # "answered" /\ (sent' => sent /\ current' # <<>>) /\ announced' = announced
  BY DEF GetResponse
<1>2. CASE ~ Stored(t)
  <2>1. current' = current
    BY <1>2 DEF GetResponse
  <2> QED
    BY <1>1, <2>1 DEF AnsweredInv, SentAreAnswered
<1>3. CASE Stored(t)
  <2>1. current' = RemoveAt(current, Index(t))
    BY <1>3 DEF GetResponse
  <2>2. current \in Seq(Prompt) /\ Len(current) \in Nat /\ Index(t) \in 1 .. Len(current)
    BY <1>3, IndexStored DEF TypeOK
  <2>3. /\ Len(current') = Len(current) - 1
        /\ \A k \in 1 .. Len(current') :
              current'[k] = current[IF k < Index(t) THEN k ELSE k + 1]
    BY <2>1, <2>2, Removed
  <2>4. ASSUME \A k \in 1 .. Len(current) : current[k].response # "none",
               NEW k \in 1 .. Len(current')
        PROVE  current'[k].response # "none"
    BY <2>2, <2>3, <2>4
  <2> QED
    BY <1>1, <2>4 DEF AnsweredInv, SentAreAnswered
<1> QED
  BY <1>2, <1>3

\* Every step keeps the invariant.
LEMMA NextAnswered == TypeOK /\ AnsweredInv /\ [Next]_vars => AnsweredInv'
<1> SUFFICES ASSUME TypeOK, AnsweredInv, [Next]_vars PROVE AnsweredInv'
  OBVIOUS
<1>1. CASE UNCHANGED vars
  BY <1>1 DEF vars, dataVars, daemonVars, AnsweredInv, SentAreAnswered
<1> QED
  BY <1>1, OthersKeepAnswers, InsertKeepsAnswers, RequestKeepsAnswers,
     RespondKeepsAnswers DEF Next, HelperNext

\* While m_sent is set every stored prompt has a response, for any number and
\* length of calls, unless a password change was announced while it was set
\* (PamData::insertPrompt: "we have a response already").
THEOREM SentAlwaysAnswered == Spec => []SentAreAnswered
<1>1. Init => TypeOK /\ AnsweredInv
  BY InitTypes
<1>2. AnsweredInv => SentAreAnswered
  BY DEF AnsweredInv
<1> QED
  BY <1>1, <1>2, NextTypes, NextAnswered, PTL DEF Spec

-----------------------------------------------------------------------------
(***************************************************************************)
(* The refinement of Prompting.  That a prompt of a login gets its answer  *)
(* depends on what was asked for with it, and on what a request may meet   *)
(* that earlier calls have left behind.                                    *)
(***************************************************************************)
\* The answer that a prompt of a login is meant to get.
Right(t) == IF t = "LOGIN_USER" THEN "name" ELSE "password"
AllRight(q) == \A k \in 1 .. Len(q) :
                  q[k].type \in LoginTypes => q[k].response = Right(q[k].type)

\* A prompt that comes alone.
Single == Len(call) = 1 /\ call[1].style = "prompt"

\* A message asks for a prompt of the type.
AskedBy(m, t) == m.style = "prompt" /\ m.type = t

\* What a request for one or two prompts may be: the prompts that are predicted
\* from the only one, or different ones of this call.
Dialogues == {Predicted["LOGIN_USER"], Predicted["CHANGE_NEW"]}
             \union {<<Blank(t)>> : t \in PromptTypes \ {"LOGIN_USER"}}

\* No two prompts have the same type.
Different(q) == \A j, k \in 1 .. Len(q) : q[j].type = q[k].type => j = k

\* What may be asked for after n messages of the call have been handled.
Fresh(q, n) ==
    \/ Len(q) > 2
    \/ Single /\ q \in Dialogues
    \/ /\ Len(call) > 1
       /\ Different(q)
       /\ \A k \in 1 .. Len(q) : \E j \in 1 .. n : AskedBy(call[j], q[k].type)

\* While m_sent is not set, nothing but the prompts of an announced change is
\* stored from before.
InsertInv ==
    step = "insert" =>
      /\ at <= Len(call) + 1
      /\ at = 1 => ~newRequest
      /\ newRequest => ~sent /\ current # <<>>
      /\ Single /\ at > 1 => Stored(call[1].type) /\ (sent \/ newRequest)
      /\ connected /\ ~sent =>
           IF newRequest THEN Fresh(current, at - 1)
           ELSE /\ current \in {<<>>, ChangePassRequest}
                /\ \A i \in 1 .. at - 1 : call[i].style # "prompt"

\* A request is for the stored prompts, and what comes back is all of them with
\* their answers.
AskInv ==
    /\ step = "asked" => wire \in {<<>>, current}
    /\ step = "answered" => wire = Fill(current) /\ Len(current) <= 2
    /\ step \in {"asked", "answered"} =>
         ~sent /\ Fresh(current, Len(call)) /\ (Single => Stored(call[1].type))

\* While responses are given out, the stored prompts have the right answers or
\* are those that the rest of the call will ask for.
RespondInv ==
    step = "respond" =>
      /\ connected /\ ~sent =>
           \/ current = <<>>
           \/ /\ current = ChangePassRequest
              /\ \A i \in 1 .. Len(call) : call[i].style # "prompt"
      /\ sent => \/ AllRight(current)
                 \/ /\ Len(call) > 1 /\ Different(current)
                    /\ \A k \in 1 .. Len(current) : \E j \in at .. Len(call) :
                         DetectPrompt(call[j]) = current[k].type
      /\ Single /\ at = 1 => sent /\ Stored(call[1].type)
      /\ Single /\ at > 1 /\ call[1].type \in LoginTypes => given = Right(call[1].type)

\* What a call leaves behind: nothing, prompts of an announced change, or
\* prompts with their right answers.
BetweenInv ==
    /\ step = "pam" /\ phase \in Functions =>
         /\ connected /\ ~sent => current \in {<<>>, ChangePassRequest}
         /\ sent => AllRight(current)
    /\ step = "insert" /\ sent => AllRight(current)
    /\ step # "pam" => given \in Response /\ phase \in Functions

AnswersInv == TypeOK /\ AnsweredInv /\ InsertInv /\ AskInv /\ RespondInv /\ BetweenInv

-----------------------------------------------------------------------------
\* The prompts of an announced change.
LEMMA ChangePass ==
    /\ ChangePassRequest \in Seq(Prompt) /\ Len(ChangePassRequest) = 3
    /\ \A k \in 1 .. 3 : ChangePassRequest[k].type \in ChangeTypes
    /\ AllRight(ChangePassRequest)
<1>1. /\ Len(ChangePassRequest) = 3
      /\ \A k \in 1 .. 3 : ChangePassRequest[k].type \in ChangeTypes
  BY DEF ChangePassRequest, Blank, ChangeTypes
<1>2. \A t \in ChangeTypes : t \notin LoginTypes
  BY DEF ChangeTypes, LoginTypes
<1> QED
  BY <1>1, <1>2, Blanks DEF AllRight

\* Display gives the right answers to the dialogues of a login.
LEMMA FillDialogue ==
    ASSUME NEW q \in Dialogues
    PROVE  AllRight(Fill(q))
<1>1. CASE q = Predicted["LOGIN_USER"]
  <2>0. "LOGIN_USER" \in DOMAIN Predicted
    BY DEF Predicted
  <2>1. q \in Seq(Prompt) /\ q = <<Blank("LOGIN_USER"), Blank("LOGIN_PASSWORD")>>
    BY <1>1, <2>0, Blanks DEF Predicted
  <2>2. Len(q) = 2 /\ q[1].type = "LOGIN_USER" /\ q[2].type = "LOGIN_PASSWORD"
    BY <2>1 DEF Blank
  <2>3. /\ Len(Fill(q)) = 2
        /\ Fill(q)[1].type = "LOGIN_USER" /\ Fill(q)[1].response = "name"
        /\ Fill(q)[2].type = "LOGIN_PASSWORD" /\ Fill(q)[2].response = "password"
    <3>1. \A k \in 1 .. Len(q) :
             /\ Fill(q)[k].type = q[k].type
             /\ Fill(q)[k].response = IF k = Len(q) THEN "password" ELSE "name"
      BY <2>1, Filled
    <3>2. Len(Fill(q)) = Len(q)
      BY <2>1, Filled
    <3>3. 1 \in 1 .. Len(q) /\ 2 \in 1 .. Len(q) /\ 1 # Len(q) /\ 2 = Len(q)
      BY <2>2
    <3> QED
      BY <2>2, <3>1, <3>2, <3>3
  <2>4. \A k \in 1 .. 2 : k = 1 \/ k = 2
    OBVIOUS
  <2> QED
    BY <2>3, <2>4 DEF AllRight, Right
<1>2. CASE q = Predicted["CHANGE_NEW"]
  <2>0. "CHANGE_NEW" \in DOMAIN Predicted
    BY DEF Predicted
  <2>1. q \in Seq(Prompt) /\ q = <<Blank("CHANGE_NEW"), Blank("CHANGE_REPEAT")>>
    BY <1>2, <2>0, Blanks DEF Predicted
  <2>2. Len(q) = 2 /\ q[1].type = "CHANGE_NEW" /\ q[2].type = "CHANGE_REPEAT"
    BY <2>1 DEF Blank
  <2>3. \A k \in 1 .. Len(q) : q[k].type \notin LoginTypes
    BY <2>2 DEF LoginTypes
  <2> QED
    BY <2>1, <2>3, Filled DEF AllRight
<1>3. ASSUME NEW t \in PromptTypes \ {"LOGIN_USER"}, q = <<Blank(t)>>
      PROVE  AllRight(Fill(q))
  <2>1. q \in Seq(Prompt) /\ Len(q) = 1 /\ q[1].type = t
    BY <1>3, Blanks DEF Blank
  <2> QED
    BY <2>1, Filled DEF AllRight, Right
<1> QED
  BY <1>1, <1>2, <1>3 DEF Dialogues

\* A prompt of another type is added.
LEMMA AppendDifferent ==
    ASSUME NEW q \in Seq(Prompt), NEW t \in PromptTypes, Different(q),
           \A k \in 1 .. Len(q) : q[k].type # t
    PROVE  Different(Append(q, Blank(t)))
<1>1. Len(q) \in Nat /\ Blank(t) \in Prompt /\ Blank(t).type = t
  BY Blanks DEF Blank
<1> DEFINE p == Append(q, Blank(t))
<1>2. /\ Len(p) = Len(q) + 1 /\ p[Len(q) + 1].type = t
      /\ \A k \in 1 .. Len(q) : p[k] = q[k]
  BY <1>1, AppendProperties
<1> HIDE DEF p
<1>3. ASSUME NEW j \in 1 .. Len(p), NEW k \in 1 .. Len(p), p[j].type = p[k].type
      PROVE  j = k
  <2>1. (j \in 1 .. Len(q) \/ j = Len(q) + 1) /\ (k \in 1 .. Len(q) \/ k = Len(q) + 1)
    BY <1>1, <1>2
  <2> QED
    BY <1>2, <1>3, <2>1 DEF Different
<1>4. Different(p)
  BY <1>3 DEF Different
<1> QED
  BY <1>4 DEF p

\* More messages do not make a request less than fresh.
LEMMA FreshLater ==
    ASSUME NEW q, NEW n \in Nat, Fresh(q, n - 1)
    PROVE  Fresh(q, n)
<1>1. \A j \in 1 .. n - 1 : j \in 1 .. n
  OBVIOUS
<1> QED
  BY <1>1 DEF Fresh

-----------------------------------------------------------------------------
\* A message is taken that asks for nothing: prompts and request stay.
LEMMA InsertNothing ==
    ASSUME AnswersInv, at <= Len(call), at' = at + 1, step = "insert",
           call[at].style # "prompt",
           UNCHANGED <<call, step, connected, newRequest, current, sent>>
    PROVE  InsertInv'
<1>1. at \in Nat /\ at >= 1 /\ Len(call) \in Nat
  BY ConversationAssumption DEF AnswersInv, TypeOK
<1>2. at' # 1 /\ at' - 1 = at /\ at' <= Len(call') + 1
  BY <1>1
<1>3. ~ (Single' /\ at' > 1)
  BY <1>1 DEF Single
<1>4. Fresh(current, at - 1) => Fresh(current, at)
  BY <1>1, FreshLater
<1>6. \A i \in 1 .. at : i \in 1 .. at - 1 \/ i = at
  BY <1>1
<1>7. Fresh(current, at) => Fresh(current, at - 1)'
  BY <1>2 DEF Fresh, Single
<1>8. InsertInv
  BY DEF AnswersInv
<1>9. connected' /\ ~ sent' /\ ~ newRequest' =>
         \A i \in 1 .. at' - 1 : call'[i].style # "prompt"
  BY <1>2, <1>6, <1>8 DEF InsertInv
<1> QED
  BY <1>2, <1>3, <1>4, <1>7, <1>8, <1>9 DEF InsertInv

\* What insertPrompt makes of the stored prompts for one that is not stored.
LEMMA InsertedNew ==
    ASSUME AnswersInv, InsertNew, NEW t, t = call[at].type
    PROVE  /\ t \in PromptTypes
           /\ at \in Nat /\ at >= 1 /\ Len(call) \in Nat /\ at <= Len(call)
           /\ current' \in Seq(Prompt) /\ current' # <<>>
           /\ \E k \in 1 .. Len(current') : current'[k].type = t
           /\ connected => Fresh(current', at)
<1>1. at \in Nat /\ at >= 1 /\ Len(call) \in Nat /\ at <= Len(call)
  BY ConversationAssumption DEF AnswersInv, TypeOK, InsertNew, Inserts
<1>2. call[at] \in PamMessage /\ call[at].style = "prompt"
  BY <1>1 DEF AnswersInv, TypeOK, InsertNew, Inserts
<1>3. t \in PromptTypes /\ AskedBy(call[at], t)
  BY <1>2 DEF PamMessage, AskedBy
<1>4. Blank(t) \in Prompt /\ Blank(t).type = t
  BY <1>3, Blanks DEF Blank
<1>5. current \in Seq(Prompt) /\ Len(current) \in Nat
  BY DEF AnswersInv, TypeOK
<1>6. CASE Len(call) = 1 /\ t \in DOMAIN Predicted
  <2>1. current' = Predicted[t]
    BY <1>6 DEF InsertNew
  <2>2. Single
    BY <1>1, <1>2, <1>6 DEF Single
  <2>3. Predicted[t] \in Seq(Prompt) /\ Predicted[t] # <<>>
    BY <1>6, Blanks
  <2>4. t = "CHANGE_CURRENT" => Predicted[t] = ChangePassRequest
    BY DEF Predicted
  <2>5. t \in {"LOGIN_USER", "CHANGE_NEW"} \/ t = "CHANGE_CURRENT"
    BY <1>6 DEF Predicted
  <2>6. Fresh(Predicted[t], at)
    <3>1. CASE t = "CHANGE_CURRENT"
      <4>1. Predicted[t] = ChangePassRequest
        BY <2>4, <3>1
      <4>2. Len(ChangePassRequest) > 2
        BY ChangePass
      <4>3. Len(Predicted[t]) > 2
        BY ONLY <4>1, <4>2
      <4> QED
        BY <4>3 DEF Fresh
    <3>2. CASE t # "CHANGE_CURRENT"
      <4>1. Predicted[t] \in Dialogues
        BY <2>5, <3>2 DEF Dialogues
      <4> QED
        BY <2>2, <4>1 DEF Fresh
    <3> QED
      BY <3>1, <3>2
  <2>7. Predicted[t][1].type = t
    BY <2>5 DEF Predicted, ChangePassRequest, Blank
  <2>8. 1 \in 1 .. Len(Predicted[t])
    BY <2>3
  <2> QED
    BY <1>1, <1>3, <2>1, <2>3, <2>6, <2>7, <2>8
<1>7. CASE ~ (Len(call) = 1 /\ t \in DOMAIN Predicted)
  <2> DEFINE old == IF sent THEN <<>> ELSE current
  <2>1. current' = Append(old, Blank(t))
    BY <1>7 DEF InsertNew
  <2>2. old \in Seq(Prompt) /\ Len(old) \in Nat
    BY <1>5
  <2>3. \A k \in 1 .. Len(old) : old[k].type # t
    BY DEF InsertNew, Stored
  <2>4. connected => old = <<>> \/ Len(old) > 2
                     \/ (newRequest /\ Len(call) > 1 /\ Different(old)
                        /\ \A k \in 1 .. Len(old) :
                             \E j \in 1 .. at - 1 : AskedBy(call[j], old[k].type))
    <3>1. CASE sent
      BY <3>1
    <3>2. CASE ~ sent /\ ~ newRequest
      <4>1. connected => current \in {<<>>, ChangePassRequest}
        BY <3>2 DEF AnswersInv, InsertInv, InsertNew, Inserts
      <4>2. Len(ChangePassRequest) > 2 /\ old = current
        BY <3>2, ChangePass
      <4> QED
        BY <4>1, <4>2
    <3>3. CASE ~ sent /\ newRequest
      <4>1. at # 1 /\ (connected => Fresh(current, at - 1))
        BY <3>3 DEF AnswersInv, InsertInv, InsertNew, Inserts
      <4>2. Len(call) > 1 /\ ~ Single
        BY <1>1, <4>1 DEF Single
      <4> QED
        BY <3>3, <4>1, <4>2 DEF Fresh
    <3> QED
      BY <3>1, <3>2, <3>3
  <2> HIDE DEF old
  <2>5. /\ current' \in Seq(Prompt) /\ current' # <<>>
        /\ Len(current') = Len(old) + 1
        /\ current'[Len(old) + 1] = Blank(t)
        /\ \A k \in 1 .. Len(old) : current'[k] = old[k]
    BY <1>4, <2>1, <2>2, AppendProperties
  <2>6. ASSUME connected PROVE Fresh(current', at)
    <3>1. CASE Len(old) > 2
      BY <2>2, <2>5, <3>1 DEF Fresh
    <3>2. CASE Len(call) = 1 /\ ~ (Len(old) > 2)
      <4>1. old = <<>> /\ Single
        BY <1>1, <1>2, <2>4, <2>6, <3>2 DEF Single
      <4>2. current' = <<Blank(t)>>
        BY <2>1, <4>1
      <4>3. t # "LOGIN_USER"
        BY <1>7, <3>2 DEF Predicted
      <4> QED
        BY <1>3, <4>1, <4>2, <4>3 DEF Fresh, Dialogues
    <3>3. CASE Len(call) # 1 /\ ~ (Len(old) > 2)
      <4>1. /\ Different(old)
            /\ \A k \in 1 .. Len(old) : \E j \in 1 .. at - 1 : AskedBy(call[j], old[k].type)
        BY <2>4, <2>6, <3>3 DEF Different
      <4>2. Different(current')
        BY <1>3, <2>1, <2>2, <2>3, <4>1, AppendDifferent
      <4>3. ASSUME NEW k \in 1 .. Len(current')
            PROVE  \E j \in 1 .. at : AskedBy(call[j], current'[k].type)
        <5>1. CASE k = Len(old) + 1
          BY <1>1, <1>3, <1>4, <2>5, <5>1
        <5>2. CASE k # Len(old) + 1
          <6>1. k \in 1 .. Len(old)
            BY <2>2, <2>5, <5>2
          <6>2. PICK j \in 1 .. at - 1 : AskedBy(call[j], old[k].type)
            BY <4>1, <6>1
          <6> QED
            BY <1>1, <2>5, <6>1, <6>2
        <5> QED
          BY <5>1, <5>2
      <4>4. Len(call) > 1
        BY <1>1, <3>3
      <4> QED
        BY <4>2, <4>3, <4>4 DEF Fresh
    <3> QED
      BY <3>1, <3>2, <3>3
  <2>7. Len(old) + 1 \in 1 .. Len(current')
    BY <2>2, <2>5
  <2> QED
    BY <1>1, <1>3, <1>4, <2>5, <2>6, <2>7
<1> QED
  BY <1>6, <1>7

\* The first loop of converse.
LEMMA InsertSteps ==
    ASSUME AnswersInv, InsertKnown \/ InsertNew \/ HandleInfo \/ HandleError
    PROVE  InsertInv' /\ AskInv' /\ RespondInv' /\ BetweenInv'
<1>1. /\ step = "insert" /\ at <= Len(call) /\ at' = at + 1
      /\ UNCHANGED <<phase, call, given, step, wire, connected>>
  BY DEF InsertKnown, InsertNew, HandleInfo, HandleError, Inserts, pamVars, daemonVars
<1>2. at \in Nat /\ at >= 1 /\ Len(call) \in Nat
  BY ConversationAssumption DEF AnswersInv, TypeOK
<1>3. at' # 1 /\ at' - 1 = at /\ at' <= Len(call') + 1
  BY <1>1, <1>2
<1>4. AskInv' /\ RespondInv'
  BY <1>1 DEF AskInv, RespondInv
<1>5. /\ at = 1 => ~newRequest
      /\ newRequest => ~sent /\ current # <<>>
      /\ connected /\ ~sent =>
           IF newRequest THEN Fresh(current, at - 1)
           ELSE /\ current \in {<<>>, ChangePassRequest}
                /\ \A i \in 1 .. at - 1 : call[i].style # "prompt"
  BY <1>1 DEF AnswersInv, InsertInv
<1>6. (sent => AllRight(current)) /\ given \in Response /\ phase \in Functions
  BY <1>1 DEF AnswersInv, BetweenInv
<1>7. (sent' => AllRight(current)') => BetweenInv'
  BY <1>1, <1>6 DEF BetweenInv
<1>8. Fresh(current', at) => Fresh(current, at - 1)'
  BY <1>1, <1>3 DEF Fresh, Single
<1>9. CASE InsertKnown
  <2>1. Stored(call[at].type) /\ newRequest' = ~ sent /\ UNCHANGED <<current, sent>>
    BY <1>9 DEF InsertKnown
  <2>2. current # <<>>
    BY <2>1 DEF Stored
  <2>3. Single => Stored(call[1].type)
    BY <1>1, <1>2, <2>1 DEF Single
  <2>4. connected /\ ~ sent => Fresh(current, at)
    <3>1. newRequest => (Fresh(current, at - 1) => Fresh(current, at))
      BY <1>2, FreshLater
    <3>2. Fresh(ChangePassRequest, at)
      BY ChangePass DEF Fresh
    <3> QED
      BY <1>5, <2>2, <3>1, <3>2
  <2>5. (Single => Stored(call[1].type)) => (Single' => Stored(call[1].type)')
    BY <1>1, <2>1 DEF Single, Stored
  <2>6. InsertInv'
    BY <1>1, <1>3, <1>8, <2>1, <2>2, <2>3, <2>4, <2>5 DEF InsertInv
  <2> QED
    BY <1>4, <1>6, <1>7, <2>1, <2>6 DEF AllRight
<1>10. CASE InsertNew
  <2>1. sent' = FALSE /\ newRequest' = TRUE
    BY <1>10 DEF InsertNew, AnswersInv, AnsweredInv
  <2>2. /\ current' # <<>> /\ (connected => Fresh(current', at))
        /\ \E k \in 1 .. Len(current') : current'[k].type = call[at].type
    BY <1>10, InsertedNew
  <2>3. Single' => Stored(call[1].type)'
    BY <1>1, <1>2, <2>2 DEF Single, Stored
  <2>4. InsertInv'
    BY <1>1, <1>3, <1>8, <2>1, <2>2, <2>3 DEF InsertInv
  <2> QED
    BY <1>4, <1>7, <2>1, <2>4
<1>11. CASE HandleInfo
  <2>1. call[at].style = "info" /\ UNCHANGED <<newRequest, sent>>
    BY <1>11 DEF HandleInfo, Inserts
  <2>2. CASE call[at].change /\ Len(call) = 1
    <3>1. current' = ChangePassRequest
      BY <1>11, <2>2 DEF HandleInfo
    <3>2. at = 1 /\ ~ newRequest' /\ ~ Single'
      BY <1>1, <1>2, <1>5, <2>1, <2>2 DEF Single
    <3>3. \A i \in 1 .. at : call[i].style # "prompt"
      BY <2>1, <3>2
    <3>4. InsertInv'
      BY <1>1, <1>3, <3>1, <3>2, <3>3 DEF InsertInv
    <3>5. AllRight(current)'
      BY <3>1, ChangePass
    <3> QED
      BY <1>4, <1>7, <3>4, <3>5
  <2>3. CASE ~ (call[at].change /\ Len(call) = 1)
    <3>1. current' = current
      BY <1>11, <2>3 DEF HandleInfo
    <3>2. InsertInv'
      BY <1>1, <2>1, <3>1, InsertNothing
    <3> QED
      BY <1>4, <1>6, <1>7, <2>1, <3>1, <3>2 DEF AllRight
  <2> QED
    BY <2>2, <2>3
<1>12. CASE HandleError
  <2>1. call[at].style = "error" /\ UNCHANGED <<newRequest, current, sent>>
    BY <1>12 DEF HandleError, Inserts, dataVars
  <2>2. InsertInv'
    BY <1>1, <2>1, InsertNothing
  <2> QED
    BY <1>4, <1>6, <1>7, <2>1, <2>2 DEF AllRight
<1> QED
  BY <1>9, <1>10, <1>11, <1>12

\* PAM calls, or returns.
LEMMA PamSteps ==
    ASSUME AnswersInv, Converse \/ PamReturns
    PROVE  InsertInv' /\ AskInv' /\ RespondInv' /\ BetweenInv'
<1>1. step = "pam" /\ phase \in Functions /\ UNCHANGED <<current, sent, connected>>
  BY DEF Converse, PamReturns, dataVars, daemonVars
<1>2. /\ connected /\ ~sent => current \in {<<>>, ChangePassRequest}
      /\ sent => AllRight(current)
  BY <1>1 DEF AnswersInv, BetweenInv
<1>3. AllRight(current) => AllRight(current)'
  BY <1>1 DEF AllRight
<1>4. CASE Converse
  <2>1. step' = "insert" /\ at' = 1 /\ newRequest' = FALSE /\ given' = "none" /\ phase' = phase
    BY <1>4 DEF Converse
  <2>2. (\A i \in 1 .. at' - 1 : FALSE) /\ at' <= Len(call') + 1
    <3>1. Len(call') \in Nat
      BY PamTypes DEF AnswersInv, TypeOK
    <3> QED
      BY <2>1, <3>1
  <2> QED
    BY <1>1, <1>2, <1>3, <2>1, <2>2
       DEF InsertInv, AskInv, RespondInv, BetweenInv, Response
<1>5. CASE PamReturns
  BY <1>1, <1>2, <1>3, <1>5 DEF PamReturns, InsertInv, AskInv, RespondInv, BetweenInv
<1> QED
  BY <1>4, <1>5

\* What the end of a call without an answer leaves.
LEMMA Returned ==
    ASSUME step' = "pam",
           phase' \in Functions /\ sent' => AllRight(current'),
           phase' \in Functions /\ connected' /\ ~ sent' =>
             current' \in {<<>>, ChangePassRequest}
    PROVE  InsertInv' /\ AskInv' /\ RespondInv' /\ BetweenInv'
  BY DEF InsertInv, AskInv, RespondInv, BetweenInv, AllRight

\* The first loop ends: a request, nothing to ask for, or no daemon.
LEMMA EndInsertStep ==
    ASSUME AnswersInv, EndInsert
    PROVE  InsertInv' /\ AskInv' /\ RespondInv' /\ BetweenInv'
<1>1. /\ step = "insert" /\ at > Len(call)
      /\ UNCHANGED <<phase, newRequest, current, sent, connected>>
  BY DEF EndInsert, dataVars
<1>2. /\ at \in Nat /\ at >= 1 /\ Len(call) \in Nat /\ at <= MaxMessages + 1
      /\ given \in Response /\ phase \in Functions /\ (sent => AllRight(current))
  BY <1>1, ConversationAssumption DEF AnswersInv, TypeOK, BetweenInv
<1>3. InsertInv
  BY DEF AnswersInv
<1>4. Single => at > 1
  BY <1>1, <1>2 DEF Single
<1>5. at - 1 = Len(call)
  BY <1>1, <1>2, <1>3 DEF InsertInv
<1>6. CASE newRequest /\ ~sent /\ current # <<>> /\ connected
  <2>1. step' = "asked" /\ wire' = current /\ UNCHANGED <<call, given>>
    BY <1>6 DEF EndInsert
  <2>2. Fresh(current, at - 1) /\ (Single => Stored(call[1].type))
    BY <1>1, <1>3, <1>4, <1>6 DEF InsertInv
  <2>3. Fresh(current, Len(call))
    BY <1>5, <2>2
  <2>4. (Single => Stored(call[1].type))' /\ Fresh(current, Len(call))'
    BY <1>1, <2>1, <2>2, <2>3 DEF Single, Stored, Fresh
  <2> QED
    BY <1>1, <1>2, <1>6, <2>1, <2>4 DEF InsertInv, AskInv, RespondInv, BetweenInv
<1>7. CASE newRequest /\ ~sent /\ current # <<>> /\ ~ connected
  BY <1>1, <1>7, Returned DEF EndInsert, Return
<1>8. CASE ~ (newRequest /\ ~sent /\ current # <<>>)
  <2>1. step' = "respond" /\ at' = 1 /\ UNCHANGED <<call, given>>
    BY <1>8 DEF EndInsert
  <2>2. ~ sent => ~ newRequest
    BY <1>1, <1>3, <1>8 DEF InsertInv
  <2>3. connected /\ ~ sent =>
           /\ current \in {<<>>, ChangePassRequest}
           /\ \A i \in 1 .. Len(call) : call[i].style # "prompt"
    BY <1>1, <1>3, <1>5, <2>2 DEF InsertInv
  <2>4. Single => sent /\ Stored(call[1].type)
    BY <1>1, <1>3, <1>4, <2>2 DEF InsertInv
  <2>5. (Single /\ at = 1 => sent /\ Stored(call[1].type))'
    BY <1>1, <2>1, <2>4 DEF Single, Stored
  <2>6. AllRight(current)' <=> AllRight(current)
    BY <1>1 DEF AllRight
  <2>7. RespondInv'
    BY <1>1, <1>2, <2>1, <2>3, <2>5, <2>6 DEF RespondInv
  <2> QED
    BY <1>1, <1>2, <2>1, <2>7 DEF InsertInv, AskInv, BetweenInv
<1> QED
  BY <1>6, <1>7, <1>8

\* A request of one or two prompts is filled in, or waits.
LEMMA ReceiveStep ==
    ASSUME AnswersInv, ReceiveRequest
    PROVE  InsertInv' /\ AskInv' /\ RespondInv' /\ BetweenInv'
<1>1. /\ step = "asked" /\ wire # <<>> /\ step' \in {"asked", "answered"}
      /\ UNCHANGED <<phase, call, given, current, sent, connected>>
  BY DEF ReceiveRequest, pamVars, dataVars
<1>2. /\ wire = current /\ ~ sent /\ Fresh(current, Len(call))
      /\ Single => Stored(call[1].type)
  BY <1>1 DEF AnswersInv, AskInv
<1>3. /\ step' = "asked" => wire' = <<>>
      /\ step' = "answered" => wire' = Fill(current) /\ Len(current) <= 2
  BY <1>1, <1>2 DEF ReceiveRequest
<1>4. Fill(current)' = Fill(current)
  BY <1>1 DEF Fill
<1>5. (Single => Stored(call[1].type))' /\ Fresh(current, Len(call))'
  BY <1>1, <1>2 DEF Single, Stored, Fresh
<1>6. AskInv'
  BY <1>1, <1>2, <1>3, <1>4, <1>5 DEF AskInv
<1>7. given \in Response /\ phase \in Functions
  BY <1>1 DEF AnswersInv, BetweenInv
<1> QED
  BY <1>1, <1>6, <1>7 DEF InsertInv, RespondInv, BetweenInv

\* The reply has the prompts of the request, which are for the only message of
\* the call or for all of them.
LEMMA CompleteStep ==
    ASSUME AnswersInv, CompleteRequest
    PROVE  InsertInv' /\ AskInv' /\ RespondInv' /\ BetweenInv'
<1>1. /\ step = "answered" /\ step' = "respond" /\ at' = 1
      /\ UNCHANGED <<phase, call, given, connected>>
  BY DEF CompleteRequest, pamVars
<1>2. /\ wire = Fill(current) /\ Len(current) <= 2 /\ Fresh(current, Len(call))
      /\ Single => Stored(call[1].type)
  BY <1>1 DEF AnswersInv, AskInv
<1>3. current \in Seq(Prompt) /\ Len(current) \in Nat
  BY DEF AnswersInv, TypeOK
<1>4. /\ Len(wire) = Len(current)
      /\ \A k \in 1 .. Len(current) : wire[k].type = current[k].type
  BY <1>2, <1>3, Filled
<1>5. current' = wire /\ sent' = TRUE
  <2>1. [k \in 1 .. Len(wire) |-> wire[k].type]
            = [k \in 1 .. Len(current) |-> current[k].type]
    BY <1>4
  <2> QED
    BY <2>1 DEF CompleteRequest
<1>6. \/ Single /\ current \in Dialogues
      \/ /\ Len(call) > 1 /\ Different(current)
         /\ \A k \in 1 .. Len(current) :
               \E j \in 1 .. Len(call) : AskedBy(call[j], current[k].type)
  BY <1>2, <1>3 DEF Fresh
<1>7. AllRight(current)'
      \/ (/\ Len(call) > 1 /\ Different(current)
          /\ \A k \in 1 .. Len(current) : \E j \in at .. Len(call) :
               DetectPrompt(call[j]) = current[k].type)'
  <2>1. CASE Single /\ current \in Dialogues
    BY <1>2, <1>5, <2>1, FillDialogue DEF AllRight
  <2>2. CASE /\ Len(call) > 1 /\ Different(current)
             /\ \A k \in 1 .. Len(current) :
                  \E j \in 1 .. Len(call) : AskedBy(call[j], current[k].type)
    <3>1. Different(current)'
      BY <1>4, <1>5, <2>2 DEF Different
    <3>2. ASSUME NEW k \in 1 .. Len(current')
          PROVE  \E j \in at' .. Len(call') : DetectPrompt(call'[j]) = current'[k].type
      <4>1. k \in 1 .. Len(current) /\ current'[k].type = current[k].type
        BY <1>4, <1>5
      <4>2. PICK j \in 1 .. Len(call) : AskedBy(call[j], current[k].type)
        BY <2>2, <4>1
      <4> QED
        BY <1>1, <4>1, <4>2 DEF AskedBy, DetectPrompt
    <3> QED
      BY <1>1, <2>2, <3>1, <3>2
  <2> QED
    BY <1>6, <2>1, <2>2
<1>8. (Single => Stored(call[1].type))'
  BY <1>1, <1>2, <1>4, <1>5 DEF Single, Stored
<1>9. RespondInv'
  BY <1>1, <1>5, <1>7, <1>8 DEF RespondInv
<1>10. given \in Response /\ phase \in Functions
  BY <1>1 DEF AnswersInv, BetweenInv
<1> QED
  BY <1>1, <1>9, <1>10 DEF InsertInv, AskInv, BetweenInv

\* Without the daemon nothing more is asked for.
LEMMA DaemonEndsStep ==
    ASSUME AnswersInv, DaemonEnds
    PROVE  InsertInv' /\ AskInv' /\ RespondInv' /\ BetweenInv'
<1>1. connected' = FALSE /\ UNCHANGED <<phase, newRequest, current, sent>>
  BY DEF DaemonEnds, dataVars
<1>2. CASE step = "asked"
  <2>1. step' = "pam" /\ ~ sent
    BY <1>2 DEF DaemonEnds, Return, AnswersInv, AskInv
  <2> QED
    BY <1>1, <2>1, Returned
<1>3. CASE step # "asked"
  <2>1. UNCHANGED <<step, at, call, given, wire>>
    BY <1>3 DEF DaemonEnds
  <2>2. /\ Single' = Single /\ Stored(call[1].type)' = Stored(call[1].type)
        /\ AllRight(current)' = AllRight(current) /\ Fill(current)' = Fill(current)
        /\ Fresh(current, Len(call))' = Fresh(current, Len(call))
        /\ Different(current)' = Different(current)
    BY <1>1, <2>1 DEF Single, Stored, AllRight, Fill, Fresh, Different
  <2>3. InsertInv'
    BY <1>1, <2>1, <2>2 DEF AnswersInv, InsertInv
  <2>4. AskInv'
    BY <1>1, <2>1, <2>2 DEF AnswersInv, AskInv
  <2>5. RespondInv'
    BY <1>1, <2>1, <2>2 DEF AnswersInv, RespondInv
  <2>6. BetweenInv'
    BY <1>1, <2>1, <2>2 DEF AnswersInv, BetweenInv
  <2> QED
    BY <2>3, <2>4, <2>5, <2>6
<1> QED
  BY <1>2, <1>3

\* A prompt that comes alone is answered at once; of the prompts of a longer call
\* those stay that later messages ask for.
LEMMA GetResponseStep ==
    ASSUME AnswersInv, GetResponse
    PROVE  InsertInv' /\ AskInv' /\ RespondInv' /\ BetweenInv'
<1> DEFINE t == DetectPrompt(call[at])
<1>1. /\ step = "respond" /\ at <= Len(call) /\ at' = at + 1
      /\ UNCHANGED <<call, connected>>
      /\ \/ phase' = phase /\ step' = "respond"
         \/ phase' = "crashed" /\ step' = "pam"
  BY DEF GetResponse, daemonVars, AnswersInv, BetweenInv, Functions
<1>2. /\ at \in Nat /\ at >= 1 /\ Len(call) \in Nat
      /\ current \in Seq(Prompt) /\ Len(current) \in Nat
  BY ConversationAssumption DEF AnswersInv, TypeOK
<1>3. given \in Response /\ phase \in Functions
  BY <1>1 DEF AnswersInv, BetweenInv
<1>4. /\ sent => current # <<>>
      /\ sent' => sent
      /\ sent /\ ~ sent' => current' = <<>>
  BY DEF GetResponse, AnswersInv, AnsweredInv
<1>5. Stored(t) => /\ Index(t) \in 1 .. Len(current) /\ current[Index(t)].type = t
                   /\ current' = RemoveAt(current, Index(t))
  BY <1>2, IndexStored DEF GetResponse
<1>6. Stored(t) => /\ Len(current') = Len(current) - 1
                   /\ \A k \in 1 .. Len(current') :
                         current'[k] = current[IF k < Index(t) THEN k ELSE k + 1]
  BY <1>2, <1>5, Removed
<1>7. ~ Stored(t) => current' = current
  BY DEF GetResponse
\* What is left was there before, at another place if the types differ.
<1>8. ASSUME NEW k \in 1 .. Len(current')
      PROVE  \E i \in 1 .. Len(current) :
                current'[k] = current[i] /\ (Stored(t) => i # Index(t))
  <2>1. CASE Stored(t)
    <3> DEFINE i == IF k < Index(t) THEN k ELSE k + 1
    <3>1. i \in 1 .. Len(current) /\ i # Index(t)
      BY <1>2, <1>5, <1>6, <2>1
    <3> QED
      BY <1>6, <2>1, <3>1
  <2>2. CASE ~ Stored(t)
    BY <1>7, <2>2
  <2> QED
    BY <2>1, <2>2
<1>9. AllRight(current) => AllRight(current)'
  BY <1>8 DEF AllRight
<1>10. Different(current) => Different(current)'
  <2>1. CASE Stored(t)
    <3> SUFFICES ASSUME Different(current), NEW j \in 1 .. Len(current'),
                        NEW k \in 1 .. Len(current'), current'[j].type = current'[k].type
                 PROVE  j = k
      BY DEF Different
    <3> DEFINE p(n) == IF n < Index(t) THEN n ELSE n + 1
    <3>1. p(j) \in 1 .. Len(current) /\ p(k) \in 1 .. Len(current)
      BY <1>2, <1>5, <1>6, <2>1
    <3>2. current'[j] = current[p(j)] /\ current'[k] = current[p(k)]
      BY <1>6, <2>1
    <3>3. p(j) = p(k)
      BY <3>1, <3>2 DEF Different
    <3> QED
      BY <1>2, <1>5, <1>6, <2>1, <3>3
  <2>2. CASE ~ Stored(t)
    BY <1>7, <2>2 DEF Different
  <2> QED
    BY <2>1, <2>2
<1>11. RespondInv
  BY DEF AnswersInv
<1>12. connected' /\ ~ sent' =>
           \/ current' = <<>>
           \/ /\ current' = ChangePassRequest
              /\ \A i \in 1 .. Len(call') : call'[i].style # "prompt"
  <2>1. CASE sent
    BY <1>4, <2>1
  <2>2. CASE ~ sent /\ connected /\ current = <<>>
    <3>1. ~ Stored(t)
      BY <2>2 DEF Stored
    <3> QED
      BY <1>7, <2>2, <3>1
  <2>3. CASE ~ sent /\ connected /\ current # <<>>
    <3>1. current = ChangePassRequest /\ \A i \in 1 .. Len(call) : call[i].style # "prompt"
      BY <1>1, <1>11, <2>3 DEF RespondInv
    <3>2. t = "LOGIN_USER"
      BY <1>1, <1>2, <3>1 DEF DetectPrompt
    <3>3. ~ Stored(t)
      BY <3>1, <3>2, ChangePass DEF Stored, ChangeTypes
    <3> QED
      BY <1>1, <1>7, <3>1, <3>3
  <2> QED
    BY <1>1, <2>1, <2>2, <2>3
<1>13. sent' => \/ AllRight(current)'
                \/ /\ Len(call) > 1 /\ Different(current)'
                   /\ \A k \in 1 .. Len(current') : \E j \in at' .. Len(call) :
                         DetectPrompt(call[j]) = current'[k].type
  <2> SUFFICES ASSUME sent', ~ AllRight(current)
               PROVE  /\ Len(call) > 1 /\ Different(current)'
                      /\ \A k \in 1 .. Len(current') : \E j \in at' .. Len(call) :
                            DetectPrompt(call[j]) = current'[k].type
    BY <1>9
  <2>1. /\ Len(call) > 1 /\ Different(current)
        /\ \A k \in 1 .. Len(current) : \E j \in at .. Len(call) :
              DetectPrompt(call[j]) = current[k].type
    BY <1>1, <1>4, <1>11 DEF RespondInv
  <2>2. ASSUME NEW k \in 1 .. Len(current')
        PROVE  \E j \in at' .. Len(call) : DetectPrompt(call[j]) = current'[k].type
    <3>1. PICK i \in 1 .. Len(current) :
                 current'[k] = current[i] /\ (Stored(t) => i # Index(t))
      BY <1>8
    <3>2. PICK j \in at .. Len(call) : DetectPrompt(call[j]) = current[i].type
      BY <2>1
    <3>3. current[i].type # t
      <4>1. CASE Stored(t)
        BY <1>5, <2>1, <3>1, <4>1 DEF Different
      <4>2. CASE ~ Stored(t)
        BY <4>2 DEF Stored
      <4> QED
        BY <4>1, <4>2
    <3>4. j # at
      BY <3>2, <3>3
    <3> QED
      BY <1>1, <1>2, <3>1, <3>2, <3>4
  <2> QED
    BY <1>10, <2>1, <2>2
<1>14. ASSUME Single, call[1].type \in LoginTypes PROVE given' = Right(call[1].type)
  <2>1. at = 1 /\ t = call[1].type
    BY <1>1, <1>2, <1>14 DEF Single, DetectPrompt
  <2>2. sent /\ Stored(t) /\ ~ (Len(call) > 1)
    BY <1>1, <1>11, <1>14, <2>1 DEF RespondInv, Single
  <2>3. AllRight(current)
    BY <1>1, <1>11, <2>2 DEF RespondInv
  <2>4. given' = current[Index(t)].response
    BY <2>1, <2>2 DEF GetResponse
  <2> QED
    BY <1>5, <1>14, <2>1, <2>2, <2>3, <2>4 DEF AllRight
<1>15. given' \in Response
  <2>1. Stored(t) => current[Index(t)] \in Prompt
    BY <1>2, <1>5
  <2> QED
    BY <1>3, <2>1 DEF GetResponse, Prompt, Response
<1>16. at' # 1
  BY <1>1, <1>2
<1>17. Single' = Single
  BY <1>1 DEF Single
<1> HIDE DEF t
<1>18. CASE step' = "respond"
  <2>1. RespondInv'
    BY <1>1, <1>12, <1>13, <1>14, <1>16, <1>17 DEF RespondInv
  <2> QED
    BY <1>1, <1>3, <1>15, <1>18, <2>1 DEF InsertInv, AskInv, BetweenInv, Functions
<1>19. CASE phase' = "crashed" /\ step' = "pam"
  BY <1>19, Returned DEF Functions
<1> QED
  BY <1>1, <1>18, <1>19

\* The call ends: nothing is left that could be answered wrongly.
LEMMA EndRespondStep ==
    ASSUME AnswersInv, EndRespond
    PROVE  InsertInv' /\ AskInv' /\ RespondInv' /\ BetweenInv'
<1>1. /\ step = "respond" /\ at > Len(call) /\ step' = "pam"
      /\ UNCHANGED <<phase, current, sent, connected>>
  BY DEF EndRespond, Return, dataVars, daemonVars
<1>2. at \in Nat /\ Len(call) \in Nat /\ current \in Seq(Prompt)
  BY ConversationAssumption DEF AnswersInv, TypeOK
<1>3. sent => AllRight(current)
  <2>1. \A j \in at .. Len(call) : FALSE
    BY <1>1, <1>2
  <2>2. sent => 1 \in 1 .. Len(current)
    BY <1>2 DEF AnswersInv, AnsweredInv
  <2> QED
    BY <1>1, <2>1, <2>2 DEF AnswersInv, RespondInv
<1>4. connected /\ ~ sent => current \in {<<>>, ChangePassRequest}
  BY <1>1 DEF AnswersInv, RespondInv
<1> QED
  BY <1>1, <1>3, <1>4, Returned

-----------------------------------------------------------------------------
\* PamBackend as it is made.
LEMMA InitAnswers == Init => AnswersInv
<1> SUFFICES ASSUME Init PROVE AnswersInv
  OBVIOUS
<1>1. InsertInv /\ AskInv /\ RespondInv /\ BetweenInv
  BY DEF Init, InsertInv, AskInv, RespondInv, BetweenInv
<1> QED
  BY <1>1, InitTypes DEF AnswersInv

\* Every step keeps the invariant.
LEMMA NextAnswers == AnswersInv /\ [Next]_vars => AnswersInv'
<1> SUFFICES ASSUME AnswersInv, [Next]_vars PROVE AnswersInv'
  OBVIOUS
<1>1. TypeOK' /\ AnsweredInv'
  BY NextTypes, NextAnswered DEF AnswersInv
<1>2. CASE Next
  <2>1. InsertInv' /\ AskInv' /\ RespondInv' /\ BetweenInv'
    BY <1>2, PamSteps, InsertSteps, EndInsertStep, ReceiveStep, CompleteStep,
       DaemonEndsStep, GetResponseStep, EndRespondStep DEF Next, HelperNext
  <2> QED
    BY <1>1, <2>1 DEF AnswersInv
<1>3. CASE UNCHANGED vars
  <2> USE <1>3 DEF vars, pamVars, dataVars, daemonVars
  <2>1. InsertInv'
    BY DEF AnswersInv, InsertInv, Single, Stored, Fresh
  <2>2. AskInv'
    BY DEF AnswersInv, AskInv, Single, Stored, Fresh, Fill
  <2>3. RespondInv'
    BY DEF AnswersInv, RespondInv, Single, Stored, AllRight, Different
  <2>4. BetweenInv'
    BY DEF AnswersInv, BetweenInv, AllRight
  <2> QED
    BY <1>1, <2>1, <2>2, <2>3, <2>4 DEF AnswersInv
<1> QED
  BY <1>2, <1>3

\* The answer as PAM sees it.
AnswerSeen == IF step = "pam" THEN given ELSE "none"

\* Within a call PAM sees nothing.
LEMMA Stutter ==
    ASSUME step # "pam", step' # "pam", call' = call
    PROVE  UNCHANGED <<Question, AnswerSeen>>
  BY DEF Question, AnswerSeen

\* What a question is.
LEMMA Questioned ==
    ASSUME AnswersInv, step # "pam"
    PROVE  /\ Question \in PromptTypes \union {"other"} /\ Question # "none"
           /\ Question \in LoginTypes => Single /\ call[1].type = Question
           /\ Len(call) > 1 => Question = "other"
<1>1. Len(call) \in Nat /\ (Len(call) = 1 => call[1] \in PamMessage)
  BY DEF AnswersInv, TypeOK
<1>2. Single => call[1].type \in PromptTypes
  BY <1>1 DEF Single, PamMessage
<1>3. Question = IF Single THEN call[1].type ELSE "other"
  BY DEF Question, Single
<1>4. "none" \notin PromptTypes /\ "other" \notin LoginTypes
  BY DEF PromptTypes, LoginTypes, ChangeTypes
<1>5. Len(call) > 1 => ~ Single
  BY <1>1 DEF Single
<1> QED
  BY <1>2, <1>3, <1>4, <1>5

\* PAM is told that nobody answers.
LEMMA GivesUp ==
    ASSUME AnswersInv, step # "pam", Return("error")
    PROVE  PamView!GiveUp
<1>1. step' = "pam" /\ given' = "error"
  BY DEF Return
<1> QED
  BY <1>1, Questioned DEF PamView!GiveUp, Question

\* PAM is told an answer that was meant for its question.
LEMMA Tells ==
    ASSUME AnswersInv, step # "pam", step' = "pam", given' = given,
           Question \in LoginTypes => given = Right(Question)
    PROVE  PamView!Tell
<1> DEFINE A == [q \in PromptTypes \union {"other"} |->
                  CASE q = "LOGIN_USER" -> {"name"}
                    [] q \in {"LOGIN_PASSWORD", "UNKNOWN"} -> {"password"}
                    [] OTHER -> Response]
<1>1. /\ Question \in PromptTypes \union {"other"} /\ Question # "none"
      /\ given \in Response
  BY Questioned DEF AnswersInv, BetweenInv
<1>2. given' \in A[Question]
  <2>1. A[Question] = CASE Question = "LOGIN_USER" -> {"name"}
                        [] Question \in {"LOGIN_PASSWORD", "UNKNOWN"} -> {"password"}
                        [] OTHER -> Response
    BY <1>1
  <2>2. CASE Question = "LOGIN_USER"
    BY <2>1, <2>2 DEF LoginTypes, Right
  <2>3. CASE Question \in {"LOGIN_PASSWORD", "UNKNOWN"}
    BY <2>1, <2>3 DEF LoginTypes, Right
  <2>4. CASE Question \notin {"LOGIN_USER", "LOGIN_PASSWORD", "UNKNOWN"}
    BY <1>1, <2>1, <2>4
  <2> QED
    BY <2>2, <2>3, <2>4
<1>3. Question' = "none"
  BY DEF Question
<1> QED
  BY <1>1, <1>2, <1>3 DEF PamView!Tell

\* The steps of converse, and of the others during it.
LEMMA CallRefines ==
    ASSUME AnswersInv, step # "pam", Next
    PROVE  PamView!Next \/ UNCHANGED <<Question, AnswerSeen>>
<1>1. CASE InsertKnown \/ InsertNew \/ HandleInfo \/ HandleError
  <2>1. step' = step /\ call' = call
    BY <1>1 DEF InsertKnown, InsertNew, HandleInfo, HandleError, Inserts, pamVars
  <2> QED
    BY <2>1, Stutter
<1>2. CASE ReceiveRequest \/ CompleteRequest
  <2>1. step' # "pam" /\ call' = call
    BY <1>2 DEF ReceiveRequest, CompleteRequest, pamVars
  <2> QED
    BY <2>1, Stutter
<1>3. CASE EndInsert
  <2>1. Return("error") \/ (step' \in {"asked", "respond"} /\ call' = call)
    BY <1>3 DEF EndInsert
  <2> QED
    BY <2>1, Stutter, GivesUp DEF PamView!Next
<1>4. CASE DaemonEnds
  <2>1. Return("error") \/ (step' = step /\ call' = call)
    BY <1>4 DEF DaemonEnds
  <2> QED
    BY <2>1, Stutter, GivesUp DEF PamView!Next
<1>5. CASE GetResponse
  <2>1. CASE step' # "pam"
    BY <1>5, <2>1, Stutter DEF GetResponse
  <2>2. CASE step' = "pam"
    <3>1. at # 1 /\ at <= Len(call) /\ step = "respond"
      BY <1>5, <2>2 DEF GetResponse, AnswersInv, BetweenInv, Functions
    <3>2. Len(call) > 1 /\ given' = given
      BY <1>5, <3>1, ConversationAssumption DEF GetResponse, AnswersInv, TypeOK
    <3>3. Question \notin LoginTypes
      BY <3>2, Questioned DEF LoginTypes
    <3> QED
      BY <2>2, <3>2, <3>3, Tells DEF PamView!Next
  <2> QED
    BY <2>1, <2>2
<1>6. CASE EndRespond
  <2>1. step = "respond" /\ step' = "pam" /\ given' = given /\ at > Len(call)
    BY <1>6 DEF EndRespond, Return
  <2>2. Question \in LoginTypes => given = Right(Question)
    <3>1. Single => at > 1
      BY <2>1 DEF Single
    <3> QED
      BY <2>1, <3>1, Questioned DEF AnswersInv, RespondInv
  <2> QED
    BY <2>1, <2>2, Tells DEF PamView!Next
<1>7. ~ Converse /\ ~ PamReturns
  BY DEF Converse, PamReturns
<1> QED
  BY <1>1, <1>2, <1>3, <1>4, <1>5, <1>6, <1>7 DEF Next, HelperNext

\* The steps between two calls.
LEMMA BetweenRefines ==
    ASSUME AnswersInv, step = "pam", Next
    PROVE  PamView!Next \/ UNCHANGED <<Question, AnswerSeen>>
<1>1. CASE Converse
  <2>1. step' = "insert"
    BY <1>1 DEF Converse
  <2>2. AnswersInv'
    BY NextAnswers
  <2>3. Question' \in PromptTypes \union {"other"}
    <3>0. call' \in Seq(PamMessage)
      BY <2>2 DEF AnswersInv, TypeOK
    <3>1. Len(call') = 1 => call'[1] \in PamMessage
      BY <3>0
    <3> QED
      BY <2>1, <3>1 DEF Question, PamMessage
  <2> QED
    BY <2>1, <2>3 DEF PamView!Next, PamView!Ask, Question
<1>2. CASE PamReturns \/ DaemonEnds
  <2>1. step' = "pam" /\ given' = given
    BY <1>2 DEF PamReturns, DaemonEnds
  <2> QED
    BY <2>1 DEF Question, AnswerSeen
<1>3. ~ HelperNext /\ ~ ReceiveRequest
  BY DEF HelperNext, InsertKnown, InsertNew, HandleInfo, HandleError, Inserts, EndInsert,
         CompleteRequest, GetResponse, EndRespond, ReceiveRequest
<1> QED
  BY <1>1, <1>2, <1>3 DEF Next

\* The conversation implements what PAM may expect, for any number and length of
\* calls: a question of a login gets its own answer or none (PamBackend::converse
\* with Display::slotRequestChanged).
THEOREM AnswersAlwaysRight == Spec => AnswersRight
<1>1. Init => PamView!Init
  BY DEF Init, PamView!Init, Question
<1>2. AnswersInv /\ [Next]_vars =>
        [PamView!Next]_<<Question, IF step = "pam" THEN given ELSE "none">>
  <2> SUFFICES ASSUME AnswersInv, [Next]_vars
               PROVE  PamView!Next \/ UNCHANGED <<Question, AnswerSeen>>
    BY DEF AnswerSeen
  <2>1. CASE UNCHANGED vars
    BY <2>1 DEF vars, pamVars, Question, AnswerSeen
  <2> QED
    BY <2>1, CallRefines, BetweenRefines
<1> QED
  BY <1>1, <1>2, InitAnswers, NextAnswers, PTL DEF Spec, AnswersRight, PamView!Spec
=============================================================================
