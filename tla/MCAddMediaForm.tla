--------------------------- MODULE MCAddMediaForm ---------------------------
EXTENDS AddMediaForm

(* The fields whose rules depend on the format, one with two rules, and    *)
(* the one the servlet parses in any case; or the two that ask the server. *)
SomeForms == {{"inputFormato", "inputPath", "inputIPMC", "inputPuertoVideo",
               "inputPuertoAudio"},
              {"inputNombre", "inputCorreo"}}
AllFormats == {"H264_Video_Audio", "H264_Video", "H264_Encoding_Video_Audio",
               "H264_Encoding_Video", "H263_Video_Audio", "H263_Video",
               "H263_Encoding_Video_WebCam", "H263_Encoding_Video_Screen"}
SomeTexts ==
  [inputPath        |-> {"", "texto"},
   inputIPMC        |-> {"", "en 224.0.0.1", "texto"},
   inputPuertoVideo |-> {"5000", "5000000000"},
   inputPuertoAudio |-> {"", "5000", "5000 x"},
   inputNombre      |-> {"", "libre", "usado"},
   inputCorreo      |-> {"", "libre", "usado"}]
=============================================================================
