------------------------------ MODULE Admission ------------------------------
(***************************************************************************)
(* What happens to a request's lengths before it reaches the waiting       *)
(* queue: max_new_tokens is clipped to what the context and the empty pool *)
(* hold, then the prompt is validated or truncated.                        *)
(***************************************************************************)
EXTENDS Integers

CONSTANTS
  TokenCapacity,      \* max_total_num_tokens
  PageSize,           \* tokens per page
  ContextLen,         \* model_config.context_len
  AllowAutoTruncate   \* --allow-auto-truncate

ASSUME CapacityAssumption ==
  /\ TokenCapacity \in Nat
  /\ PageSize \in Nat \ {0}
  /\ ContextLen \in Nat
  /\ AllowAutoTruncate \in BOOLEAN
  /\ TokenCapacity % PageSize = 0
  /\ ContextLen > 7 /\ TokenCapacity > PageSize + 6

Least(a, b) == IF a =< b THEN a ELSE b
Greatest(a, b) == IF a >= b THEN a ELSE b

CeilPaged(n) == ((n + PageSize - 1) \div PageSize) * PageSize
FloorPaged(n) == (n \div PageSize) * PageSize

\* get_worker_info
MaxReqLen == Least(ContextLen - 1, TokenCapacity - 1)
MaxReqInputLen == MaxReqLen - 5

MaxNewTokensForMemory(input, new) ==
  Greatest(0, Least(new, TokenCapacity - CeilPaged(input) - PageSize - 1))

InitReqMaxNewTokens(input, want) ==
  MaxNewTokensForMemory(input, Greatest(0, Least(want, MaxReqLen - input - 1)))

\* validate_input_length
TooLong(input) == input >= MaxReqInputLen

\* handle_generate_request: max_new_tokens is fixed before the prompt is cut;
\* a refused request is queued with a one-token prompt that ends at once.
HandleGenerateRequest(input, want) ==
  [len       |-> IF ~TooLong(input) THEN input
                 ELSE IF AllowAutoTruncate THEN MaxReqInputLen ELSE 1,
   max_new   |-> InitReqMaxNewTokens(input, want),
   to_finish |-> TooLong(input) /\ ~AllowAutoTruncate]

\* The first gate of add_one_req, for a pool in which nothing is held.
FitsEmptyPool(input, new) == input + new + PageSize < TokenCapacity
=============================================================================
