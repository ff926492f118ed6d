------------------------------ MODULE MCNgxLog ------------------------------
(* The formatter and the error log with the sizes of this build: 16-bit  *)
(* integers standing for int64_t, NGX_MAX_ERROR_STR of 120, and the       *)
(* messages the repository logs plus formats reaching every branch.       *)
EXTENDS NgxLog, TLC

CONSTANTS NullPtr

MC_W == 16
MC_IntTLen == 20
MC_PtrHexWidth == 16
MC_NGX_MAX_ERROR_STR == 120

\* A string argument of n bytes.
Long(n) == [k \in 1..n |-> Ord("x")]

\* strerrordesc_np of glibc for the errnos used below (999 has none).
MC_ErrDesc ==
  (2 :> Str(<<"N","o"," ","s","u","c","h"," ","f","i","l","e"," ","o","r"," ","d","i","r","e","c","t","o","r","y">>)) @@
  (12 :> Str(<<"C","a","n","n","o","t"," ","a","l","l","o","c","a","t","e"," ","m","e","m","o","r","y">>)) @@
  (13 :> Str(<<"P","e","r","m","i","s","s","i","o","n"," ","d","e","n","i","e","d">>)) @@
  (132 :> Str(<<"O","p","e","r","a","t","i","o","n"," ","n","o","t"," ","p","o","s","s","i","b","l","e"," ","d","u","e"," ","t","o"," ","R","F","-","k","i","l","l">>))

MC_CachedTime == Str(<<"2","0","2","4","/","0","1","/","0","1"," ","0","0",":","0","0",":","0","0">>)
MC_NgxPrefix == Str(<<"/","u","s","r","/","l","o","c","a","l","/","n","g","i","n","x","/">>)
MC_NgxErrorLogPath == Str(<<"l","o","g","s","/","e","r","r","o","r",".","l","o","g">>)

MC_Msgs == <<
  <<Str(<<"m","a","l","l","o","c","e","d","(","%","u","z",")"," ","f","a","i","l","e","d">>), <<64>>>>,   \* ngx_alloc.c:10
  <<Str(<<"p","o","s","i","x","_","m","e","m","a","l","i","g","n","(","%","u","z",","," ","%","u","z",")"," ","f","a","i","l","e","d">>), <<16, 4096>>>>,   \* ngx_alloc.c:93
  <<Str(<<"m","u","n","m","a","p","(","%","p",","," ","%","u","z",")"," ","f","a","i","l","e","d">>), <<4096, 64>>>>,   \* ngx_shmem.c:21
  <<Str(<<"s","e","m","_","w","a","i","t","(",")"," ","f","a","i","l","e","d"," ","w","h","i","l","e"," ","w","a","i","t","i","n","g"," ","o","n"," ","s","h","m","t","x">>), <<>>>>,   \* ngx_shmtx.c:172
  <<Str(<<"m","a","l","l","o","c","(","%","u","z",")"," ","f","a","i","l","e","d"," ","(","%","d",":"," ","%","s",")">>), <<64, 12, Str(<<"C","a","n","n","o","t"," ","a","l","l","o","c","a","t","e"," ","m","e","m","o","r","y">>)>>>>,   \* ngx_errno.c:339
  <<Str(<<"%","s">>), <<Long(63)>>>>,   \* ends at last - 50
  <<Str(<<"%","s">>), <<Long(64)>>>>,   \* one past last - 50
  <<Str(<<"%","s">>), <<Long(117)>>>>,   \* fills the buffer
  <<Str(<<"%",".","2","f">>), <<-1999>>>>,   \* -1.999
  <<Str(<<"%","3",".","1","f">>), <<1234>>>>,   \* 1.234
  <<Str(<<"%","f">>), <<2500>>>>,   \* 2.5
  <<Str(<<"%",".","1","f">>), <<950>>>>,   \* 0.95
  <<Str(<<"%",".","3","f">>), <<1005>>>>,   \* 1.005
  <<Str(<<"%","x","s","|","%","*","s">>), <<Str(<<"A","B">>), 2, Str(<<"x","y","z">>)>>>>,
  <<Str(<<"%","V",":","%","X","v">>), <<Str(<<"n","g","i","n","x">>), Str(<<"o","k">>)>>>>,
  <<Str(<<"%","c","%","Z","%","N","%","%","%","q">>), <<321>>>>,
  <<Str(<<"%","P","#","%","T"," ","%","r"," ","%","m","A"," ","%","u","D"," ","%","u","l">>), <<1, 2, 3, 7, 8, 9>>>>,
  <<Str(<<"%","d">>), <<-1>>>>,
  <<Str(<<"%","d">>), <<0>>>>,
  <<Str(<<"%","d">>), <<32767>>>>,
  <<Str(<<"%","L">>), <<-32768>>>>,
  <<Str(<<"%","u","d">>), <<65535>>>>,
  <<Str(<<"%","0","5","d">>), <<-42>>>>,
  <<Str(<<"%","0","5","d">>), <<42>>>>,
  <<Str(<<"%","x","i">>), <<0>>>>,
  <<Str(<<"%","x","i">>), <<255>>>>,
  <<Str(<<"%","0","8","X","l">>), <<48879>>>>,
  <<Str(<<"%","M">>), <<65535>>>>,
  <<Str(<<"%","M">>), <<1000>>>>,
  <<Str(<<"%","m","i">>), <<-5>>>>,
  <<Str(<<"%","O">>), <<100>>>>,
  <<Str(<<"%","p">>), <<4096>>>>,
  <<Str(<<"%","u","z">>), <<10>>>>
  >>

MC_CpyCalls == {Str(<<"a","b","c">>), <<>>} \X (0..4)
MC_FmtCalls == {1, 3, 6, 40} \X DOMAIN MC_Msgs
MC_StderrCalls == {0, 2, 132, 999} \X {1, 4, 5, 6, 7, 8}
\* errstr is 16-byte aligned on the stack and NGX_MAX_ERROR_STR is 2048, so
\* the low byte of errstr + NGX_MAX_ERROR_STR is a multiple of 16: one
\* below 50 and one above.
MC_LastLowBytes == {16, 64}

MC_CoreCalls == {1, 2} \X {0, 13} \X {0, 5} \X {1, 3, 7}
MC_PrefixArgs == {NullPtr, <<>>, Str(<<"/","s","r","v">>), Str(<<"/","s","r","v","/">>)}
MC_ErrorLogArgs == {NullPtr, <<>>, Str(<<"e",".","l","o","g">>), Str(<<"/","v","a","r","/","e",".","l","o","g">>)}
MC_OpenErrs == {13}

MC_NumFormats ==
  { [fmt |-> Str(<<"%","d">>), base |-> 10, upper |-> FALSE, width |-> 0, zero |-> Ord(" "), msec |-> FALSE],
    [fmt |-> Str(<<"%","L">>), base |-> 10, upper |-> FALSE, width |-> 0, zero |-> Ord(" "), msec |-> FALSE],
    [fmt |-> Str(<<"%","u","d">>), base |-> 10, upper |-> FALSE, width |-> 0, zero |-> Ord(" "), msec |-> FALSE],
    [fmt |-> Str(<<"%","0","5","d">>), base |-> 10, upper |-> FALSE, width |-> 5, zero |-> Ord("0"), msec |-> FALSE],
    [fmt |-> Str(<<"%","x","i">>), base |-> 16, upper |-> FALSE, width |-> 0, zero |-> Ord(" "), msec |-> FALSE],
    [fmt |-> Str(<<"%","0","8","X","l">>), base |-> 16, upper |-> TRUE, width |-> 8, zero |-> Ord("0"), msec |-> FALSE],
    [fmt |-> Str(<<"%","M">>), base |-> 10, upper |-> FALSE, width |-> 0, zero |-> Ord(" "), msec |-> TRUE],
    [fmt |-> Str(<<"%","m","i">>), base |-> 10, upper |-> FALSE, width |-> 20, zero |-> Ord(" "), msec |-> FALSE],
    [fmt |-> Str(<<"%","O">>), base |-> 10, upper |-> FALSE, width |-> 0, zero |-> Ord(" "), msec |-> FALSE],
    [fmt |-> Str(<<"%","p">>), base |-> 16, upper |-> TRUE, width |-> 16, zero |-> Ord("0"), msec |-> FALSE],
    [fmt |-> Str(<<"%","u","z">>), base |-> 10, upper |-> FALSE, width |-> 0, zero |-> Ord(" "), msec |-> FALSE] }

MC_FloatFormats ==
  { [fmt |-> Str(<<"%",".","2","f">>), fw |-> 2, width |-> 0, zero |-> Ord(" ")],
    [fmt |-> Str(<<"%","3",".","1","f">>), fw |-> 1, width |-> 3, zero |-> Ord(" ")],
    [fmt |-> Str(<<"%","f">>), fw |-> 0, width |-> 0, zero |-> Ord(" ")],
    [fmt |-> Str(<<"%",".","1","f">>), fw |-> 1, width |-> 0, zero |-> Ord(" ")],
    [fmt |-> Str(<<"%",".","3","f">>), fw |-> 3, width |-> 0, zero |-> Ord(" ")] }

=============================================================================
