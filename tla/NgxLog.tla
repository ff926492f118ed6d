------------------------------- MODULE NgxLog -------------------------------
(***************************************************************************)
(* Error reporting: ngx_strerror (os/unix/ngx_errno.c, the                  *)
(* strerrordesc_np build), ngx_log_errno, ngx_log_stderr,                   *)
(* ngx_log_error_core and ngx_log_init (core/ngx_log.c), over the           *)
(* formatter of NgxString.  Every call is one step; the state is the call   *)
(* and what it leaves behind: `out` the bytes written into its buffer of    *)
(* call.room bytes, `written` what it passed to write(2) on stderr, `fd`    *)
(* what ngx_log_init leaves in ngx_log_file.fd: stderr or the opened file. *)
(***************************************************************************)
EXTENDS NgxString

CONSTANTS
  NGX_MAX_ERROR_STR,  \* size of the errstr buffers
  ErrDesc,            \* strerrordesc_np: errno -> message, on its domain
  CachedTime,         \* ngx_cached_err_log_time
  LogPid, LogTid,     \* ngx_log_pid, ngx_log_tid
  NgxPrefix,          \* NGX_PREFIX, or Null when not configured
  NgxErrorLogPath,    \* NGX_ERROR_LOG_PATH
  Null,               \* a NULL pointer argument
  \* Inputs of the calls:
  Msgs,               \* a tuple of <<fmt, args>>, named by index below
  CpyCalls,           \* <<src, n>> for ngx_cpystrn
  FmtCalls,           \* <<room, msg>> for ngx_slprintf
  StderrCalls,        \* <<err, msg>> for ngx_log_stderr
  CoreCalls,          \* <<level, err, connection, msg>>
  LastLowBytes,       \* low bytes errstr + NGX_MAX_ERROR_STR can have
  PrefixArgs,           \* the prefix argument of ngx_log_init (or Null)
  ErrorLogArgs,          \* the error_log argument of ngx_log_init (or Null)
  OpenErrs,           \* errno of a failing open(2)
  NumFormats,         \* single-number formats and what they mean:
                      \* [fmt, base, upper, width, zero, msec]
  FloatFormats        \* %f formats: [fmt, fw (digits after '.'), width, zero]

VARIABLES call, out, written, fd

vars == <<call, out, written, fd>>

Slash == Ord("/")

UnknownError == Str(<<"U","n","k","n","o","w","n"," ","e","r","r","o","r">>)

\* err_levels[level], level 0 being ngx_null_string.
err_levels == <<<<>>, Str(<<"e","m","e","r","g">>), Str(<<"a","l","e","r","t">>),
                Str(<<"c","r","i","t">>), Str(<<"e","r","r","o","r">>),
                Str(<<"w","a","r","n">>), Str(<<"n","o","t","i","c","e">>),
                Str(<<"i","n","f","o">>), Str(<<"d","e","b","u","g">>)>>

\* ngx_strerror: the message, or "Unknown error", cut to size bytes.
ngx_strerror(err, size) ==
  LET msg == IF err \in DOMAIN ErrDesc THEN ErrDesc[err] ELSE UnknownError
  IN  SubSeq(msg, 1, MinOf(size, Len(msg)))

(* Each step below is one statement `buf = f(buf, last, ...)` of the code, *)
(* on the bytes b written so far into a buffer of `last` bytes.            *)

\* p = ngx_slprintf(p, last, fmt, ...) and p = ngx_vslprintf(p, last, ...).
Printf(b, last, fmt, args) == b \o ngx_slprintf(last - Len(b), fmt, args)

\* Mutant: no bytes taken back for the report.
ErrnoReserveNone(b, last) == b

\* With fewer than 50 bytes left, buf = last - 50 and "..." written there.
ErrnoReserve(b, last) ==
  IF Len(b) > last - 50 THEN SubSeq(b, 1, last - 50) \o Str(<<".",".",".">>) ELSE b

\* buf = ngx_strerror(err, buf, last - buf).
Strerror(b, last, err) == b \o ngx_strerror(err, last - Len(b))

\* if (buf < last) *buf++ = ')'.
CloseParen(b, last) == IF Len(b) < last THEN Append(b, Ord(")")) ELSE b

(* ngx_log_errno(buf, last, err): room for the report, then " (err: ",     *)
(* the message, and ')' if a byte remains.                                 *)
ngx_log_errno(b, last, err) ==
  CloseParen(Strerror(Printf(ErrnoReserve(b, last), last,
                             Str(<<" ","(","%","d",":"," ">>), <<err>>), last, err), last)

\* if (err) p = ngx_log_errno(p, last, err).
WithErrno(b, last, err) == IF err # 0 THEN ngx_log_errno(b, last, err) ELSE b

\* Mutant: the clamp tests p > last, leaving no byte for the LF.
ClampPastLast(b, last) == IF Len(b) > last THEN SubSeq(b, 1, last) ELSE b

\* if (p > last - NGX_LINEFEED_SIZE) p = last - NGX_LINEFEED_SIZE.
ClampForLF(b, last) == IF Len(b) > last - 1 THEN SubSeq(b, 1, last - 1) ELSE b

(* ngx_log_stderr: "nginx: ", the message, the errno report, the last     *)
(* byte given up for the LF when the buffer is full; returns errstr..p.    *)
ngx_log_stderr(err, fmt, args) ==
  Append(ClampForLF(WithErrno(Printf(Str(<<"n","g","i","n","x",":"," ">>),
                                     NGX_MAX_ERROR_STR, fmt, args),
                              NGX_MAX_ERROR_STR, err), NGX_MAX_ERROR_STR), LF)

\* if (log->connection) p = ngx_slprintf(p, last, "*%uA", log->connection).
WithConnection(b, last, conn) ==
  IF conn # 0 THEN Printf(b, last, Str(<<"*","%","u","A">>), <<conn>>) ELSE b

(* ngx_log_errno(p, last, err) in ngx_log_error_core, whose `last` is the  *)
(* low byte lb of errstr + NGX_MAX_ERROR_STR: an address below every byte  *)
(* of errstr, which lies on the stack far above the first page.  With      *)
(* lb >= 50, last - 50 is below buf: buf = last - 50 and "..." is written   *)
(* there, outside errstr.  With lb < 50, last - 50 wraps above buf: no     *)
(* "...", " (err: " is not written (buf >= last), ngx_strerror gets the     *)
(* size (size_t) (last - buf), which wraps to more than any message, and   *)
(* ')' is not written.  The bytes left in errstr, and those written        *)
(* outside it.                                                             *)
ErrnoBelowErrstr(b, lb, err) ==
  IF lb >= 50
  THEN [line |-> b, stray |-> Str(<<".",".",".">>)]
  ELSE [line |-> b \o ngx_strerror(err, Wide - 1), stray |-> <<>>]

(* ngx_log_error_core.  `last` is declared u_char (line 34), so line 37    *)
(* keeps the low byte lb of errstr + NGX_MAX_ERROR_STR, and every call     *)
(* below gets an end pointer lying before errstr: each ngx_slprintf and    *)
(* ngx_vslprintf (the loop while buf < last) writes nothing, after the    *)
(* time ngx_cpymem copied.  Its line, not written anywhere yet, and the    *)
(* bytes written outside errstr.                                           *)
ngx_log_error_core(level, err, conn, fmt, args, lb) ==
  LET last == 0
      p    == Printf(WithConnection(
                       Printf(Printf(CachedTime, last, Str(<<" ","[","%","V","]"," ">>),
                                     <<err_levels[level + 1]>>),
                              last, Str(<<"%","P","#","%","P",":"," ">>), <<LogPid, LogTid>>),
                       last, conn),
                     last, fmt, args)
  IN  IF err # 0 THEN ErrnoBelowErrstr(p, lb, err) ELSE [line |-> p, stray |-> <<>>]

ngx_path_separator(c) == c = Slash

\* Mutant: malloc(plen + nlen + 1), no byte counted for the separator.
LogNameShortAlloc(prefix, elog) ==
  LET nlen == Len(elog)
      pfx  == IF prefix # Null THEN prefix ELSE NgxPrefix
      plen == IF elog[1] # Slash /\ pfx # Null THEN Len(pfx) ELSE 0
      sep  == IF plen > 0 /\ ~ngx_path_separator(pfx[plen])
              THEN <<Slash>> ELSE <<>>
  IN  IF plen = 0 THEN [name |-> elog \o <<NUL>>, size |-> nlen + 1, alloc |-> FALSE]
      ELSE [name |-> pfx \o sep \o ngx_cpystrn(elog, nlen + 1),
            size |-> plen + nlen + 1, alloc |-> TRUE]

(* The file name ngx_log_init opens, with its terminating NUL, and the    *)
(* size of the buffer it lies in: a relative error_log gets the prefix    *)
(* (the argument, else NGX_PREFIX) and a '/' if the prefix lacks one,     *)
(* copied into malloc(plen + nlen + 2).                                    *)
LogName(prefix, elog) ==
  LET nlen == Len(elog)
      pfx  == IF prefix # Null THEN prefix ELSE NgxPrefix
      plen == IF elog[1] # Slash /\ pfx # Null THEN Len(pfx) ELSE 0
      sep  == IF plen > 0 /\ ~ngx_path_separator(pfx[plen])
              THEN <<Slash>> ELSE <<>>
  IN  IF plen = 0 THEN [name |-> elog \o <<NUL>>, size |-> nlen + 1, alloc |-> FALSE]
      ELSE [name |-> pfx \o sep \o ngx_cpystrn(elog, nlen + 1),
            size |-> plen + nlen + 2, alloc |-> TRUE]

\* "[alert] could not open error log file: " ngx_open_file_n " \"%s\" failed"
OpenFailed ==
  Str(<<"[","a","l","e","r","t","]"," ","c","o","u","l","d"," ","n","o","t"," ",
        "o","p","e","n"," ","e","r","r","o","r"," ","l","o","g"," ","f","i","l","e",
        ":"," ","o","p","e","n","(",")"," ","DQ","%","s","DQ"," ",
        "f","a","i","l","e","d">>)

\* The C string a NUL-terminated name stands for.
CString(s) == SubSeq(s, 1, Len(s) - 1)

-----------------------------------------------------------------------------
NoCall == [fn |-> "none", room |-> 0, err |-> 0, in |-> <<>>, stray |-> <<>>]

Init ==
  /\ call = NoCall
  /\ out = <<>>
  /\ written = <<>>
  /\ fd = [to |-> "unset", name |-> <<>>]

Cpystrn ==
  \E c \in CpyCalls :
    /\ call' = [fn |-> "cpystrn", room |-> c[2], err |-> 0, in |-> c, stray |-> <<>>]
    /\ out' = ngx_cpystrn(c[1], c[2])
    /\ written' = <<>>
    /\ UNCHANGED fd

Slprintf ==
  \E c \in FmtCalls :
    /\ call' = [fn |-> "slprintf", room |-> c[1], err |-> 0, in |-> c, stray |-> <<>>]
    /\ out' = ngx_slprintf(c[1], Msgs[c[2]][1], Msgs[c[2]][2])
    /\ written' = <<>>
    /\ UNCHANGED fd

LogStderr ==
  \E c \in StderrCalls :
    /\ call' = [fn |-> "stderr", room |-> NGX_MAX_ERROR_STR, err |-> c[1], in |-> c,
                stray |-> <<>>]
    /\ out' = ngx_log_stderr(c[1], Msgs[c[2]][1], Msgs[c[2]][2])
    /\ written' = out'
    /\ UNCHANGED fd

LogErrorCore ==
  \E c \in CoreCalls, lb \in LastLowBytes :
    LET r == ngx_log_error_core(c[1], c[2], c[3], Msgs[c[4]][1], Msgs[c[4]][2], lb)
    IN  /\ call' = [fn |-> "core", room |-> NGX_MAX_ERROR_STR, err |-> c[2], in |-> c,
                    stray |-> r.stray]
        /\ out' = r.line
        /\ written' = <<>>
        /\ UNCHANGED fd

\* An empty name keeps stderr; a failed malloc returns NULL; a failed open
\* reports on stderr and falls back to it.
LogInit ==
  \E prefix \in PrefixArgs, arg \in ErrorLogArgs :
    LET elog == IF arg = Null THEN NgxErrorLogPath ELSE arg
        ln   == LogName(prefix, elog)
    IN  \/ /\ elog = <<>>
           /\ call' = [fn |-> "init", room |-> 0, err |-> 0, in |-> <<prefix, elog>>,
                      stray |-> <<>>]
           /\ out' = <<>> /\ fd' = [to |-> "stderr", name |-> <<>>]
           /\ written' = <<>>
        \/ /\ elog # <<>> /\ ln.alloc
           /\ call' = [fn |-> "init", room |-> ln.size, err |-> 0,
                      in |-> <<prefix, elog>>, stray |-> <<>>]
           /\ out' = <<>> /\ written' = <<>> /\ UNCHANGED fd
        \/ /\ elog # <<>>
           /\ call' = [fn |-> "init", room |-> ln.size, err |-> 0,
                      in |-> <<prefix, elog>>, stray |-> <<>>]
           /\ out' = ln.name
           /\ \/ fd' = [to |-> "file", name |-> CString(ln.name)] /\ written' = <<>>
              \/ \E e \in OpenErrs :
                   /\ written' = ngx_log_stderr(e, OpenFailed, <<CString(ln.name)>>)
                   /\ fd' = [to |-> "stderr", name |-> <<>>]

Next == Cpystrn \/ Slprintf \/ LogStderr \/ LogErrorCore \/ LogInit

Spec == Init /\ [][Next]_vars

-----------------------------------------------------------------------------
(* Reference renderings, positional rather than by repeated division.     *)
RefDigits(x, b) ==
  LET k == CHOOSE k \in 1..(W + 1) : x < b ^ k /\ (k = 1 \/ x >= b ^ (k - 1))
  IN  [i \in 1..k |-> (x \div b ^ (k - i)) % b]

\* What a number format means for value v: sign, padding to width, digits.
RefNumber(v, nf) ==
  LET ds  == RefDigits(IF v < 0 THEN -v ELSE v, nf.base)
      tbl == IF nf.upper THEN HEX ELSE hex
  IN  (IF v < 0 THEN <<Ord("-")>> ELSE <<>>)
        \o [i \in 1..(nf.width - Len(ds)) |-> nf.zero]
        \o [i \in DOMAIN ds |-> tbl[ds[i] + 1]]

\* What a %f format means for v thousandths: rounded half up to fw digits,
\* or the integer part when there are none.
RefFloat(v, ff) ==
  LET a  == IF v < 0 THEN -v ELSE v
      r  == IF ff.fw = 0 THEN a \div 1000 ELSE (a * 10 ^ ff.fw + 500) \div 1000
      ip == RefNumber(r \div 10 ^ ff.fw, [base |-> 10, upper |-> FALSE,
                                          width |-> ff.width, zero |-> ff.zero])
      fp == RefNumber(r % 10 ^ ff.fw, [base |-> 10, upper |-> FALSE,
                                       width |-> ff.fw, zero |-> Ord("0")])
  IN  (IF v < 0 THEN <<Ord("-")>> ELSE <<>>) \o ip
        \o (IF ff.fw = 0 THEN <<>> ELSE <<Ord(".")>> \o fp)

\* The message strerror describes err by.
Message(err) == IF err \in DOMAIN ErrDesc THEN ErrDesc[err] ELSE UnknownError

(* No call writes past the end of its buffer: ngx_cpystrn within n,       *)
(* ngx_slprintf within last, the stderr line within NGX_MAX_ERROR_STR      *)
(* whatever the message and errno report, the name ngx_log_init builds     *)
(* within its malloc'ed plen + nlen + 2 bytes.  (ngx_log_error_core is     *)
(* CoreWritesWithinErrstr below.)                                          *)
WritesWithinBuffer == call.fn # "core" => Len(out) <= call.room

(* ngx_log_error_core writes only into its errstr[NGX_MAX_ERROR_STR]: the  *)
(* u_char `last` of lines 34 and 37 must not send the errno report of     *)
(* ngx_log_errno to an address outside it.                                 *)
CoreWritesWithinErrstr ==
  call.fn = "core" => call.stray = <<>> /\ Len(out) <= call.room

(* A number format prints its argument: with room to spare exactly the    *)
(* sign, the padding up to the width and the digits of the value (an       *)
(* ngx_msec_t of -1 as "-1"), and when cut short a prefix of that.         *)
NumbersRoundTrip ==
  \A nf \in NumFormats :
    call.fn = "slprintf" /\ Msgs[call.in[2]][1] = nf.fmt =>
      LET a   == Msgs[call.in[2]][2][1]
          ref == RefNumber(IF nf.msec /\ a = Wide - 1 THEN -1 ELSE a, nf)
      IN  IsPrefix(out, ref) /\ (Len(out) < call.room => out = ref)

(* %f prints the value rounded to its fraction width, a fraction that    *)
(* rounds up to 1 carried into the integer part; cut short, a prefix.     *)
FloatsRounded ==
  \A ff \in FloatFormats :
    call.fn = "slprintf" /\ Msgs[call.in[2]][1] = ff.fmt =>
      LET ref == RefFloat(Msgs[call.in[2]][2][1], ff)
      IN  IsPrefix(out, ref) /\ (Len(out) < call.room => out = ref)

(* A stderr line with an errno ends, before its LF, with the report       *)
(* " (err: message)", however long the message before it: ngx_log_errno  *)
(* takes back the last 50 bytes for it and ngx_log_stderr then gives up   *)
(* one for the LF.  Only a full buffer may cut the message or the ')'.     *)
ErrnoKept ==
  call.fn = "stderr" /\ call.err # 0 =>
    LET line == Front(out)
        rep  == Str(<<" ","(">>) \o RefNumber(call.err, [base |-> 10, upper |-> FALSE,
                                    width |-> 0, zero |-> Ord(" ")]) \o Str(<<":"," ">>)
        full == Message(call.err) \o <<Ord(")")>>
    IN  \/ IsSuffix(rep \o full, line)
        \/ /\ Len(out) = call.room
           /\ \E j \in 0..Len(full) - 1 : IsSuffix(rep \o SubSeq(full, 1, j), line)

=============================================================================
