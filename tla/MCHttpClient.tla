---------------------------- MODULE MCHttpClient ----------------------------
(* Small instances of HttpClient. *)
EXTENDS HttpClient

Plain(framing, body) ==
  [method |-> "GET", post |-> 0, framing |-> framing, body |-> body,
   feeds |-> {}, etag |-> FALSE, trailer |-> FALSE]
Tagged  == [Plain("length", <<2>>) EXCEPT !.etag = TRUE]
OfTwo   == Plain("length", <<2>>)
UntilClosed == Plain("close", <<2>>)
HeadOnly == [Tagged EXCEPT !.method = "HEAD"]
Posted  == [OfTwo EXCEPT !.method = "POST", !.post = 2]
OfThree(feeds) == [Plain("chunked", <<3>>) EXCEPT !.feeds = feeds]
InTwoChunks == [OfThree({2}) EXCEPT !.body = <<3, 1>>, !.trailer = TRUE]
InOneChunk == Plain("chunked", <<1>>)
Encoded == Plain("encoded", <<1>>)
Empty   == Plain("length", <<>>)

(* Every kind of response after one with an ETag, or after a POST. A         *)
(* response in chunks comes last: see MCHttpClient_late_end.                 *)
InAllOrders ==
  {<<Tagged, OfTwo>>, <<Tagged, InTwoChunks>>, <<Posted, UntilClosed>>,
   <<Tagged, Encoded>>, <<Posted, HeadOnly>>}
OneChunk    == {<<InOneChunk>>}
EndsWithFeed == {<<OfThree({3})>>}
AfterChunks == {<<InOneChunk, OfTwo>>}
OneEmpty    == {<<Empty>>}
TwoChunks   == {<<InTwoChunks>>}
OneThenTwo  == {<<Plain("chunked", <<1, 2>>)>>}

Buffers == {1, 3}
OfTwoUnits == {2}
Width   == 2^6
=============================================================================
