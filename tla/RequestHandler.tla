--------------------------- MODULE RequestHandler ----------------------------
(***************************************************************************)
(* The stream handler (proxy/server.go, TransparentHandler) up to the call *)
(* of Forward: it reads the first message, takes a pooled Context and a    *)
(* snapshot of the middleware slice, runs the chain (middleware/context.go *)
(* and pool.go) and decides by what the chain has left in the Context.     *)
(*                                                                         *)
(* Requests run concurrently with each other and with Server.Use, which    *)
(* appends to the slice the snapshots alias. A slice is a backing array    *)
(* and a length, and append writes in place while there is room.           *)
(*                                                                         *)
(* Go's call stack is kept for the chain only: stack holds the middlewares *)
(* of one request whose Handle has been called and has not returned, each  *)
(* but the last inside a call of Next.                                     *)
(***************************************************************************)
EXTENDS Integers, Sequences

CONSTANTS
  Requests,     (* RPCs.                                                   *)
  Contexts,     (* Context objects sync.Pool has or may allocate.          *)
  Backends,     (* Addresses a middleware may choose.                      *)
  Default,      (* Config.DefaultBackend.                                  *)
  MaxUse,       (* Bounds the calls of Use; middlewares are numbered.      *)
  MaxCalls,     (* Bounds the calls one request's middlewares make on the  *)
                (* Context.                                                *)
  AbortIndex,   (* abortIndex, out of reach of every index of a chain.     *)
  Nil

(* What an abort may leave in the Context, and how a request may end, or   *)
(* not have ended, without a backend or a response.                        *)
Responses == {"error", "data"}
Unforwarded == {"none", "unread", "internal"}

ASSUME HandlerAssumption ==
  /\ MaxUse \in Nat /\ MaxCalls \in Nat
  /\ AbortIndex \in Nat /\ AbortIndex > 2 * MaxUse + MaxCalls
  /\ Nil \notin Contexts \cup Backends \cup {Default} \cup Int
  /\ Nil \notin Responses
  /\ (Backends \cup {Default}) \cap (Responses \cup Unforwarded) = {}

VARIABLES
  arrays,    (* Backing arrays, in order of allocation: slot contents.     *)
  len,       (* Length of s.middlewares, whose array is the last one.      *)
  pool,      (* Free Contexts, clean or not.                               *)
  ctx,       (* Fields of each Context.                                    *)
  pc,        (* Where each request's handler is.                           *)
  mine,      (* The Context a request has acquired.                        *)
  stack,     (* Middlewares that a request is inside of.                   *)
  calls,     (* Calls on the Context so far.                               *)
  outcome,   (* How a request ended, or where it was forwarded.            *)
  history    (* What a request did: the chain it found, the middlewares    *)
             (* that ran, and what its own calls asked for last.           *)

vars == <<arrays, len, pool, ctx, pc, mine, stack, calls, outcome, history>>

(* An unused Context, and what reset leaves.                               *)
Blank == [array |-> Nil, len |-> 0, index |-> -1, response |-> Nil,
          backend |-> Nil]

Init ==
  /\ arrays = <<>> /\ len = 0
  /\ pool = Contexts
  /\ ctx = [c \in Contexts |-> Blank]
  /\ pc = [r \in Requests |-> "read"]
  /\ mine = [r \in Requests |-> Nil]
  /\ stack = [r \in Requests |-> <<>>]
  /\ calls = [r \in Requests |-> 0]
  /\ outcome = [r \in Requests |-> "none"]
  /\ history = [r \in Requests |-> [found |-> <<>>, ran |-> <<>>,
                                    response |-> Nil, backend |-> Nil,
                                    aborted |-> Nil]]

-----------------------------------------------------------------------------
(* Mutants: the new element goes to the last used slot of an array that    *)
(* has room; the new element goes to the front of the array.               *)
UseOffByOne ==
  /\ len < MaxUse
  /\ len' = len + 1
  /\ LET last == Len(arrays)
         full == last = 0 \/ len = Len(arrays[last])
         cap  == IF len = 0 THEN 1 ELSE 2 * len
     IN  arrays' =
           IF full
           THEN Append(arrays, [i \in 1..cap |->
                                  IF i <= len THEN arrays[last][i]
                                  ELSE IF i = len + 1 THEN len + 1 ELSE Nil])
           ELSE [arrays EXCEPT ![last][len] = len + 1]
  /\ UNCHANGED <<pool, ctx, pc, mine, stack, calls, outcome, history>>

UsePrepend ==
  /\ len < MaxUse
  /\ len' = len + 1
  /\ LET last == Len(arrays)
         full == last = 0 \/ len = Len(arrays[last])
         cap  == IF len = 0 THEN 1 ELSE 2 * len
         new  == [i \in 1..(IF full THEN cap ELSE Len(arrays[last])) |->
                    IF i = 1 THEN len + 1
                    ELSE IF i <= len + 1 THEN arrays[last][i - 1] ELSE Nil]
     IN  arrays' = IF full THEN Append(arrays, new)
                   ELSE [arrays EXCEPT ![last] = new]
  /\ UNCHANGED <<pool, ctx, pc, mine, stack, calls, outcome, history>>

(* Server.Use: append. A full array is copied to one of twice the size.    *)
Use ==
  /\ len < MaxUse
  /\ len' = len + 1
  /\ LET last == Len(arrays)
         full == last = 0 \/ len = Len(arrays[last])
         cap  == IF len = 0 THEN 1 ELSE 2 * len
     IN  arrays' =
           IF full
           THEN Append(arrays, [i \in 1..cap |->
                                  IF i <= len THEN arrays[last][i]
                                  ELSE IF i = len + 1 THEN len + 1 ELSE Nil])
           ELSE [arrays EXCEPT ![last][len + 1] = len + 1]
  /\ UNCHANGED <<pool, ctx, pc, mine, stack, calls, outcome, history>>

-----------------------------------------------------------------------------
(* The handler.                                                            *)

(* The first RecvMsg yields a message or io.EOF ...                        *)
ReadFirst(r) ==
  /\ pc[r] = "read"
  /\ pc' = [pc EXCEPT ![r] = "acquire"]
  /\ UNCHANGED <<arrays, len, pool, ctx, mine, stack, calls, outcome, history>>

(* ... or an error, as a bad method name would before it, and the request  *)
(* ends before there is a Context. The hook only chooses the error.        *)
ReadFirstFails(r) ==
  /\ pc[r] = "read"
  /\ pc' = [pc EXCEPT ![r] = "done"]
  /\ outcome' = [outcome EXCEPT ![r] = "unread"]
  /\ UNCHANGED <<arrays, len, pool, ctx, mine, stack, calls, history>>

(* snapshotMiddlewares and AcquireContext, which sets three fields and     *)
(* relies on reset for the others.                                         *)
AcquireContext(r, c) ==
  /\ pc[r] = "acquire" /\ c \in pool
  /\ pool' = pool \ {c}
  /\ mine' = [mine EXCEPT ![r] = c]
  /\ ctx' = [ctx EXCEPT ![c] = [@ EXCEPT !.array = Len(arrays), !.len = len,
                                         !.index = -1]]
  /\ pc' = [pc EXCEPT ![r] = "start"]
  /\ history' = [history EXCEPT ![r].found =
                   IF len = 0 THEN <<>> ELSE SubSeq(arrays[Len(arrays)], 1, len)]
  /\ UNCHANGED <<arrays, len, stack, calls, outcome>>

(* One round of Next's loop after its index++ has made the index i: the    *)
(* middleware there is called above the frames of below, or Next returns   *)
(* to the last of them.                                                    *)
Round(r, i, below) ==
  LET c == mine[r]
      m == arrays[ctx[c].array][i + 1]
  IN  /\ ctx' = [ctx EXCEPT ![c].index = i]
      /\ IF i < ctx[c].len
         THEN /\ stack' = [stack EXCEPT ![r] = Append(below, m)]
              /\ history' = [history EXCEPT ![r].ran = Append(@, m)]
         ELSE /\ stack' = [stack EXCEPT ![r] = below]
              /\ UNCHANGED history

(* The handler's own call of Next.                                         *)
StartChain(r) ==
  /\ pc[r] = "start"
  /\ pc' = [pc EXCEPT ![r] = "chain"]
  /\ Round(r, ctx[mine[r]].index + 1, <<>>)
  /\ UNCHANGED <<arrays, len, pool, mine, calls, outcome>>

-----------------------------------------------------------------------------
(* What the middleware on top of the stack may do.                         *)

Running(r) == pc[r] = "chain" /\ stack[r] # <<>>

Calling(r) ==
  /\ Running(r) /\ calls[r] < MaxCalls
  /\ calls' = [calls EXCEPT ![r] = @ + 1]
  /\ UNCHANGED <<arrays, len, pool, pc, mine, outcome>>

CallNext(r) ==
  /\ Calling(r)
  /\ Round(r, ctx[mine[r]].index + 1, stack[r])

(* Handle returns into the loop that called it.                            *)
HandleReturns(r) ==
  /\ Running(r)
  /\ Round(r, ctx[mine[r]].index + 1, SubSeq(stack[r], 1, Len(stack[r]) - 1))
  /\ UNCHANGED <<arrays, len, pool, pc, mine, calls, outcome>>

(* Mutant: the abort moves the index to the end of the chain only.         *)
AbortToEnd(r, response) ==
  /\ Calling(r)
  /\ ctx' = [ctx EXCEPT ![mine[r]].index = ctx[mine[r]].len,
                        ![mine[r]].response = IF response = Nil THEN @
                                              ELSE response]
  /\ history' = [history EXCEPT
                   ![r].response = IF response = Nil THEN @ ELSE response,
                   ![r].aborted = IF @ = Nil THEN Len(history[r].ran) ELSE @]
  /\ UNCHANGED stack

(* Abort alone leaves the response, AbortWithError sets one with an error  *)
(* code (never OK), and SendResponse one with data.                        *)
Abort(r, response) ==
  /\ Calling(r)
  /\ LET c == mine[r]
         h == history[r]
         Set(old) == IF response = Nil THEN old ELSE response
         when == IF h.aborted = Nil THEN Len(h.ran) ELSE h.aborted
     IN  /\ ctx' = [ctx EXCEPT ![c] = [@ EXCEPT !.index = AbortIndex,
                                               !.response = Set(ctx[c].response)]]
         /\ history' = [history EXCEPT ![r] = [@ EXCEPT
                          !.response = Set(h.response), !.aborted = when]]
  /\ UNCHANGED stack

SetBackend(r, b) ==
  /\ Calling(r)
  /\ ctx' = [ctx EXCEPT ![mine[r]].backend = b]
  /\ history' = [history EXCEPT ![r].backend = b]
  /\ UNCHANGED stack

-----------------------------------------------------------------------------
(* The end of the request.                                                 *)

IsAborted(c) == ctx[c].index >= AbortIndex

(* Mutant: reset forgets the fields that the chain's users write.          *)
resetPartly(c) ==
  ctx' = [ctx EXCEPT ![c].array = Nil, ![c].len = 0, ![c].index = -1]

reset(c) == ctx' = [ctx EXCEPT ![c] = Blank]

(* The handler returns: the deferred ReleaseContext.                       *)
ReleaseContext(r) ==
  /\ reset(mine[r])
  /\ pool' = pool \cup {mine[r]}
  /\ mine' = [mine EXCEPT ![r] = Nil]
  /\ pc' = [pc EXCEPT ![r] = "done"]
  /\ UNCHANGED <<arrays, len, stack, calls, history>>

ChainDone(r) == pc[r] = "chain" /\ stack[r] = <<>>

(* handleAborted: no response is an internal error, data is sent with an   *)
(* OK status unless the write fails, and an error code is the status.      *)
handleAborted(r) ==
  /\ ChainDone(r) /\ IsAborted(mine[r])
  /\ LET response == ctx[mine[r]].response
     IN  outcome' = [outcome EXCEPT ![r] = IF response = Nil THEN "internal"
                                           ELSE response]
  /\ ReleaseContext(r)

SendResponseFails(r) ==
  /\ ChainDone(r) /\ IsAborted(mine[r]) /\ ctx[mine[r]].response = "data"
  /\ outcome' = [outcome EXCEPT ![r] = "internal"]
  /\ ReleaseContext(r)

(* The call of Forward; the Context stays with the request during it.      *)
CallForward(r) ==
  /\ ChainDone(r) /\ ~IsAborted(mine[r])
  /\ pc' = [pc EXCEPT ![r] = "forward"]
  /\ LET backend == ctx[mine[r]].backend
     IN  outcome' = [outcome EXCEPT ![r] = IF backend = Nil THEN Default
                                           ELSE backend]
  /\ UNCHANGED <<arrays, len, pool, ctx, mine, stack, calls, history>>

ForwardReturns(r) ==
  /\ pc[r] = "forward"
  /\ ReleaseContext(r)
  /\ UNCHANGED outcome

-----------------------------------------------------------------------------
RequestStep(r) ==
  \/ ReadFirst(r) \/ ReadFirstFails(r)
  \/ \E c \in Contexts : AcquireContext(r, c)
  \/ StartChain(r) \/ CallNext(r) \/ HandleReturns(r)
  \/ \E response \in Responses \cup {Nil} : Abort(r, response)
  \/ \E b \in Backends : SetBackend(r, b)
  \/ handleAborted(r) \/ SendResponseFails(r) \/ CallForward(r)
  \/ ForwardReturns(r)

Next == Use \/ \E r \in Requests : RequestStep(r)

Spec == Init /\ [][Next]_vars

-----------------------------------------------------------------------------
(* Properties.                                                             *)

(* The middlewares of a request run in the order of the chain it found,    *)
(* each at most once and none left out between two, however they call      *)
(* Next, and whatever Use appends meanwhile to the array they are read     *)
(* from.                                                                   *)
ChainInOrder ==
  \A r \in Requests :
    history[r].ran = SubSeq(history[r].found, 1, Len(history[r].ran))

Forwarded(r) == outcome[r] \in Backends \cup {Default}

(* A request is forwarded after its whole chain, so a middleware that      *)
(* checks something cannot be stepped over; one that was aborted, before   *)
(* or after the middlewares behind it ran, is not forwarded, and no        *)
(* middleware starts after the abort.                                      *)
AbortHolds ==
  \A r \in Requests :
    /\ Forwarded(r) => history[r].ran = history[r].found
    /\ history[r].aborted # Nil => /\ ~Forwarded(r)
                                   /\ Len(history[r].ran) = history[r].aborted

(* What becomes of a request depends on its own middlewares only, not on   *)
(* what an earlier user of its pooled Context left there.                  *)
OwnOutcome ==
  \A r \in Requests :
    /\ Forwarded(r) =>
         outcome[r] = IF history[r].backend = Nil THEN Default
                      ELSE history[r].backend
    /\ outcome[r] \in Responses => outcome[r] = history[r].response
=============================================================================
