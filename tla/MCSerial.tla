------------------------------ MODULE MCSerial -------------------------------
(* The host types "cat ", "send ", a file name and spaces; a line holds       *)
(* three of them, the log seven characters, the UART two bytes.              *)
EXTENDS Serial

MCFiles == [n \in {<<"teste.txt">>} |-> <<"Conteudo", CR, LF>>]
=============================================================================
