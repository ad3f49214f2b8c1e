------------------------------- MODULE Fwctl --------------------------------
(***************************************************************************)
(* The firmware interface (fwctl.c): after an identification the firmware  *)
(* writes a request word by word to a port and reads the response the same *)
(* way.  Sizes are in bytes, a word has 4; req_size is unsigned.           *)
(***************************************************************************)
EXTENDS Integers, Sequences

CONSTANTS
  FGET_STRSZ,     \* the longest name (80 in the code)
  ReqSizes,       \* sizes the firmware announces, with the header of 12; it pads
                  \* its names to words
  Ops,            \* operations the firmware asks for
  Oid, CtlLen,    \* name, in words, and length of the only node, hw.ncpu
  NameWords,      \* words a name is made of
  Modulus         \* of req_size (2^32 in the code)

OP_GET == 3
OP_GET_LEN == 4
SigLen == 4       \* of "BHYV"
SizeT == 8        \* sizeof(size_t)

ASSUME FwctlAssumption ==
  /\ FGET_STRSZ \in Nat /\ CtlLen \in Nat /\ Modulus \in Nat \ {0}
  /\ \A n \in ReqSizes : n \in 12 .. Modulus - 1 /\ n % 4 = 0

VARIABLE fw       \* be_state, ident_idx, rinfo, fget_str, and what the firmware
                  \* has read of a response: its announced length and its words

fwctlVars == fw

NoReq == [count |-> 0, size |-> 0, type |-> 0, op |-> "none", error |-> "ok",
          rcount |-> 0, rsize |-> 0, roff |-> 0]

fwctl_init ==
  fw = [state |-> "IDENT_WAIT", ident |-> 0, rinfo |-> NoReq, errop |-> "ok", str |-> <<>>,
        announced |-> 0, words |-> 0]

ctl_locate(str) == Len(str) <= Len(Oid) /\ SubSeq(Oid, 1, Len(str)) = str

fget_result(str, val) ==
  IF ~ ctl_locate(str) THEN [error |-> "ENOENT", size |-> 0]
  ELSE [error |-> "ok", size |-> IF val THEN SizeT + CtlLen ELSE SizeT]

\* op_result of the request's operation.
Result(f) ==
  CASE f.rinfo.op = "error" -> [error |-> f.errop, size |-> 0]
    [] f.rinfo.op = "get"   -> fget_result(f.str, TRUE)
    [] f.rinfo.op = "len"   -> fget_result(f.str, FALSE)

fwctl_request_done(f) ==
  LET r == Result(f)
  IN [f EXCEPT !.state = "RESP", !.rinfo.error = r.error, !.rinfo.rsize = r.size, !.rinfo.roff = 0,
               !.announced = 0, !.words = 0]

\* Faulty variant: a name of any length is accepted.
fget_start_Any(size) == "ok"

fget_start(size) == IF size > FGET_STRSZ THEN "E2BIG" ELSE "ok"

\* The operation is chosen, and replaced by the one that reports an error when
\* it does not exist or refuses the size.
fwctl_request_start(f) ==
  LET size == f.rinfo.size - 12
      known == f.rinfo.type \in {OP_GET, OP_GET_LEN}
      err  == IF known THEN fget_start(size) ELSE "ENOENT"
      g    == [f EXCEPT !.rinfo.size = size,
                        !.rinfo.op = IF err # "ok" THEN "error" ELSE IF f.rinfo.type = OP_GET THEN "get" ELSE "len",
                        !.errop = IF err # "ok" THEN err ELSE @,
                        !.str = IF known /\ err = "ok" THEN <<>> ELSE @]
  IN IF size = 0 THEN fwctl_request_done(g) ELSE g

fwctl_request_data(f, word) ==
  LET g == [f EXCEPT !.rinfo.size = (@ - 4) % Modulus,
                     !.str = IF f.rinfo.op = "error" THEN @ ELSE Append(@, word)]
  IN IF g.rinfo.size < 4 THEN fwctl_request_done(g) ELSE g

\* A word of a request, by its position.
fwctl_request ==
  LET r == fw.rinfo
  IN \/ /\ r.count = 0
        /\ \E n \in ReqSizes : fw' = [fw EXCEPT !.rinfo = [r EXCEPT !.size = n, !.count = 1]]
     \/ /\ r.count = 1
        /\ \E t \in Ops : fw' = [fw EXCEPT !.rinfo = [r EXCEPT !.type = t, !.count = 2]]
     \/ r.count = 2 /\ fw' = fwctl_request_start([fw EXCEPT !.rinfo = [r EXCEPT !.count = 3]])
     \/ r.count = 3 /\ \E w \in NameWords : fw' = fwctl_request_data(fw, w)

fwctl_outl == fw.state = "REQ" /\ fwctl_request

fwctl_outw == fw.state = "IDENT_WAIT" /\ fw' = [fw EXCEPT !.state = "IDENT_SEND", !.ident = 0]

fwctl_inb ==
  /\ fw.state = "IDENT_SEND"
  /\ fw' = [fw EXCEPT !.ident = @ + 1, !.state = IF fw.ident + 1 >= SigLen THEN "REQ" ELSE @]

\* Four words of header, the first with the length, then the data.
fwctl_response(f) ==
  LET r == f.rinfo
      n == IF r.rcount <= 3 THEN [r EXCEPT !.rcount = @ + 1] ELSE [r EXCEPT !.roff = @ + 4]
      g == [f EXCEPT !.rinfo = n, !.words = @ + 1,
                     !.announced = IF r.rcount = 0 THEN 16 + ((r.rsize + 3) \div 4) * 4 ELSE @]
  IN IF n.rcount > 3 /\ n.rsize - n.roff <= 0 THEN [g EXCEPT !.state = "REQ", !.rinfo = NoReq] ELSE g

fwctl_inl == fw.state = "RESP" /\ fw' = fwctl_response(fw)

FwctlNext == fwctl_outw \/ fwctl_inb \/ fwctl_outl \/ fwctl_inl

FwctlSpec == fwctl_init /\ [][FwctlNext]_fw

-----------------------------------------------------------------------------
\* Requests and responses stay in step: a response ends with exactly the word
\* its announced length says, also for errors and data that is not a multiple
\* of a word, so the next word written starts a new request; and a name never
\* outgrows fget_str.
FwctlInStep ==
  /\ fw.announced # 0 =>
       IF fw.state = "RESP" THEN fw.words * 4 < fw.announced ELSE fw.words * 4 = fw.announced
  /\ Len(fw.str) * 4 <= FGET_STRSZ
=============================================================================
