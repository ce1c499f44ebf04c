---------------------------- MODULE MCRequestHandlers ----------------------------
(* Groups of 2 bits in an accumulator of 7: the fourth group has one bit that   *)
(* fits.  Codecs 9 and 6 take two groups.                                       *)
EXTENDS RequestHandlers
MCCids == {<<1>>, <<2>>}
MCPayloads == {<<>>, <<1>>, <<5, 2, 1>>, <<5, 2, 2>>, <<6, 1, 1>>, <<6, 1, 3>>, <<6, 1>>, <<5, 4>>, <<3, 1>>,
    <<5, 6, 0, 1>>, <<5, 6, 4, 0, 1>>, <<5, 6, 4, 2, 1>>, <<7, 7, 7, 3, 1>>, <<4, 4, 4, 4, 0, 1>>}
================================================================================
