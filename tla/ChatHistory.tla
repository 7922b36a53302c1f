----------------------------- MODULE ChatHistory -----------------------------
(***************************************************************************)
(* What the chat program remembers of a conversation: the messages, their  *)
(* slots and the requests of src/AppSamples/chat/chat.c and chatjson.c.    *)
(*                                                                         *)
(* A slot is <<type, number>>.  There are as many for the user's messages  *)
(* as there are messages, but only half as many, rounded up, for the       *)
(* assistant's, whose buffers are long.  A text stands for its length in   *)
(* the JSON of a request, with its role and punctuation.                   *)
(***************************************************************************)
EXTENDS Integers, Sequences

CONSTANTS MaxMsg,       \* MAX_MSG
          TextSizes,    \* the texts
          PromptSize,   \* length of the JSON before the messages
          TailSize,     \* length of the parameters behind the messages
          RequestSize,  \* REQ_LEN, the 0 at its end included
          MaxSaid       \* bound: messages since the history was cleared

ASSUME ChatAssumption ==
  /\ MaxMsg \in Nat \ {0}
  /\ TextSizes \subseteq Nat \ {0}
  /\ PromptSize \in Nat /\ TailSize \in Nat /\ RequestSize \in Nat
  /\ MaxSaid \in Nat

\* Variant of MaxAst: half of an odd number is rounded down.
MaxAstDown == MaxMsg \div 2

MaxAst == (MaxMsg + 1) \div 2

SlotsOf(type) == {type} \X (1..(IF type = "user" THEN MaxMsg ELSE MaxAst))
AllSlots == SlotsOf("user") \union SlotsOf("assistant")

VARIABLES
  place,  \* where the program is
  rows,   \* g_types, g_umap and g_amap of the first g_msgcnt messages: their slots
  busy,   \* g_uuse and g_ause
  memory, \* g_umsg and g_amem; 0 before a slot is first written
  sent,   \* the numbers of the messages in the last request
  said    \* history: what was said since the history was cleared

chatVars == <<place, rows, busy, memory, sent, said>>

ChatInit ==
  /\ place = "menu"
  /\ rows = <<>> /\ busy = {}
  /\ memory = [s \in AllSlots |-> 0]
  /\ sent = {} /\ said = <<>>

-----------------------------------------------------------------------------
(* Messages *)

\* ch_gus and ch_gas take the first slot that is free.
LowestOf(slots) == CHOOSE s \in slots : \A t \in slots : s[2] <= t[2]

\* When there is no room for another message, the oldest is forgotten and its slot freed.
StillRows == IF Len(rows) = MaxMsg THEN Tail(rows) ELSE rows
StillBusy == IF Len(rows) = MaxMsg THEN busy \ {Head(rows)} ELSE busy

\* ch_addm: without a free slot the message is not kept.
AddMessage(type, text) ==
  LET free == SlotsOf(type) \ StillBusy
      slot == LowestOf(free)
  IN  /\ IF free = {}
         THEN rows' = StillRows /\ busy' = StillBusy /\ UNCHANGED memory
         ELSE /\ rows' = Append(StillRows, slot)
              /\ busy' = StillBusy \union {slot}
              /\ memory' = [memory EXCEPT ![slot] = text]
      /\ said' = Append(said, <<type, text>>)

\* What ch_show prints.
Shown == [i \in DOMAIN rows |-> <<rows[i][1], memory[rows[i]]>>]

-----------------------------------------------------------------------------
(* Requests *)

\* j_add leaves room for the 0 at the end.
FitsAt(position, size) == position + size < RequestSize

\* Where the JSON ends after i messages: one that does not fit is left out, and the next
\* one is tried in its place.
Position ==
  LET after[i \in 0..Len(rows)] ==
        IF i = 0 THEN PromptSize
        ELSE IF FitsAt(after[i-1], memory[rows[i]])
             THEN after[i-1] + memory[rows[i]] ELSE after[i-1]
  IN  after

\* j_genreq fails only if what surrounds the messages does not fit.
RequestFits == FitsAt(0, PromptSize) /\ FitsAt(Position[Len(rows)], TailSize)

Included == {i \in DOMAIN rows : FitsAt(Position[i-1], memory[rows[i]])}

-----------------------------------------------------------------------------
(* The program *)

\* From place to place, and nothing else; ch_show is such a step too.
Goes(from, to) ==
  /\ place = from /\ place' = to
  /\ UNCHANGED <<rows, busy, memory, sent, said>>

StartChat == Goes("menu", "chat")
QuitChat == Goes("chat", "menu")
Leave == Goes("menu", "left")

\* ch_clear frees the slots one by one.
ClearHistory ==
  /\ place = "menu"
  /\ busy' = busy \ {rows[i] : i \in DOMAIN rows}
  /\ rows' = <<>> /\ said' = <<>>
  /\ UNCHANGED <<place, memory, sent>>

\* ch_chat reads a line.
Say(text) ==
  /\ place = "chat" /\ Len(said) < MaxSaid
  /\ AddMessage("user", text)
  /\ place' = "request"
  /\ UNCHANGED sent

\* ch_api makes the request; one that is too large is not sent.
MakeRequest ==
  /\ place = "request"
  /\ IF RequestFits THEN place' = "receive" /\ sent' = Included
     ELSE place' = "chat" /\ UNCHANGED sent
  /\ UNCHANGED <<rows, busy, memory, said>>

\* ch_recv returns what came of an answer, which may be nothing.
Receive(text) ==
  /\ place = "receive"
  /\ AddMessage("assistant", text)
  /\ place' = "chat"
  /\ UNCHANGED sent

ReceiveNothing == Goes("receive", "chat")

ChatNext ==
  \/ StartChat \/ QuitChat \/ Leave \/ ClearHistory
  \/ \E text \in TextSizes : Say(text) \/ Receive(text)
  \/ MakeRequest \/ ReceiveNothing

ChatSpec == ChatInit /\ [][ChatNext]_chatVars

-----------------------------------------------------------------------------
(* Properties *)

ChatTypeOK ==
  /\ place \in {"menu", "chat", "request", "receive", "left"}
  /\ rows \in Seq(AllSlots) /\ Len(rows) <= MaxMsg
  /\ busy \subseteq AllSlots
  /\ memory \in [AllSlots -> TextSizes \union {0}]
  /\ sent \subseteq 1..MaxMsg
  /\ said \in Seq({"user", "assistant"} \X TextSizes)

\* The program remembers the last MAX_MSG messages of a conversation, in their order and
\* with their texts, although it has too few slots for as many answers: two answers
\* never follow each other (ch_addm, ch_show).
RecentShown ==
  /\ Len(rows) = IF Len(said) < MaxMsg THEN Len(said) ELSE MaxMsg
  /\ Shown = SubSeq(said, Len(said) - Len(rows) + 1, Len(said))
=============================================================================
