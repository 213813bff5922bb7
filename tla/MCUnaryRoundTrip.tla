-------------------------- MODULE MCUnaryRoundTrip --------------------------
(* UnaryRoundTrip on small instances. *)
EXTENDS UnaryRoundTrip

CONSTANTS f1, f2, f3

MCGlobal  == <<f1>>
MCClass   == <<f2>>
MCMethod  == <<f3>>
MCMethods == [type : {"Unary", "ClientStreaming", "ServerStreaming", "DuplexStreaming"},
              boxed : BOOLEAN, stackTrace : BOOLEAN]
=============================================================================
