----------------------------- MODULE RuntimeEnv -----------------------------
(***************************************************************************)
(* The host side of the emulator (RuntimeEnvironment and RtEnvRecorder in  *)
(* src/src/run/runtime_env.rs): the inbox the machine reads, the logs and  *)
(* sends it writes, and the record a replay starts from.  An environment   *)
(* is a record with the fields of RuntimeEnvironment.  An incoming message *)
(* is the tuple of eight values the AVM receives; what its body says is    *)
(* left to the models of ArbOS, so a body is a short sequence of bytes.    *)
(***************************************************************************)
EXTENDS Mavm

CONSTANTS ChainId, GasPrice

RtEnvRecorder_new == [inbox |-> <<>>, logs |-> <<>>, sends |-> <<>>]

\* Mutant: messages are not recorded.
insert_l1_message_unrecorded(env, msg_type, sender_addr, msg) ==
  LET l1_msg == Tup(<<Num(msg_type), Num(env.current_block_num), Num(env.current_timestamp),
                      Num(sender_addr), Num(env.next_inbox_seq_num), Num(GasPrice),
                      Num(Len(msg)), Buf(Buffer_from_bytes(msg))>>)
  IN [env |-> [env EXCEPT !.next_inbox_seq_num = @ + 1,
                          !.l1_inbox = Append(@, l1_msg)],
      msg_id |-> Keccak256(<<ChainId, env.next_inbox_seq_num>>)]

\* The environment with the message in its inbox, and the id of the message.
insert_l1_message(env, msg_type, sender_addr, msg) ==
  LET l1_msg == Tup(<<Num(msg_type), Num(env.current_block_num), Num(env.current_timestamp),
                      Num(sender_addr), Num(env.next_inbox_seq_num), Num(GasPrice),
                      Num(Len(msg)), Buf(Buffer_from_bytes(msg))>>)
  IN [env |-> [env EXCEPT !.next_inbox_seq_num = @ + 1,
                          !.l1_inbox = Append(@, l1_msg),
                          !.recorder.inbox = Append(@, l1_msg)],
      msg_id |-> Keccak256(<<ChainId, env.next_inbox_seq_num>>)]

\* Starts with the message that sets the parameters of the chain, type 4.
new_with_blocknum_timestamp(blocknum, timestamp) ==
  insert_l1_message(
    [l1_inbox |-> <<>>, current_block_num |-> blocknum, current_timestamp |-> timestamp,
     logs |-> <<>>, sends |-> <<>>, next_inbox_seq_num |-> 0, caller_seq_nums |-> <<>>,
     recorder |-> RtEnvRecorder_new], 4, 0, <<>>).env

\* A transaction signed by its sender is known by a hash of what it says,
\* other messages by their number in the inbox.  A hash is the term it is of.
L2Id(kind, env, sender_addr, msg) ==
  IF msg[1] = 0 THEN <<kind, sender_addr, msg>>
  ELSE <<"default", env.next_inbox_seq_num, <<>>>>

insert_l2_message(env, sender_addr, msg, is_buddy_deploy) ==
  [env |-> insert_l1_message(env, IF is_buddy_deploy THEN 5 ELSE 3, sender_addr, msg).env,
   id |-> L2Id("keccak", env, sender_addr, IF is_buddy_deploy THEN <<1>> ELSE msg)]

\* The heartbeat is a message of one byte.  Blocks are 13 seconds apart.
_advance_time(env, delta_blocks, send_heartbeat_message) ==
  LET later == [env EXCEPT !.current_block_num = add(@, delta_blocks),
                           !.current_timestamp = add(@, mul(13, delta_blocks))]
  IN IF send_heartbeat_message THEN insert_l2_message(later, 0, <<6>>, FALSE).env ELSE later

insert_full_inbox_contents(env, contents) == [env EXCEPT !.l1_inbox = contents]

\* The environment without the head of its inbox, which is not empty.
get_from_inbox(env) == [env EXCEPT !.l1_inbox = Tail(@)]

peek_at_inbox_head(env) == Head(env.l1_inbox)

push_log(env, log_item) ==
  [env EXCEPT !.logs = Append(@, log_item), !.recorder.logs = Append(@, log_item)]

push_send(env, size, buf) ==
  LET contents == as_bytes(buf, size)
  IN [env EXCEPT !.sends = Append(@, contents), !.recorder.sends = Append(@, contents)]

=============================================================================
