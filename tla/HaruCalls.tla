------------------------------ MODULE HaruCalls ------------------------------
(***************************************************************************)
(* The functions of haru/pdf.c that read their arguments one after the     *)
(* other, call one function of the library and hand back what it gives:    *)
(* 189 of the 199 in its table.  HaruDocs runs them, and has the others.   *)
(*                                                                         *)
(* A function is the kinds of its arguments, in order, and the kind of its *)
(* result.  The kind of a handle is the name of its table.                 *)
(***************************************************************************)

HandleKinds ==
  {"data", "page", "image", "font", "outline", "encoder", "destination",
   "annotation", "extgstate"}

(* The other arguments: a string, a number, one of eight or fourteen       *)
(* characters taken for a date, an array of exactly four elements, and one *)
(* of any length whose elements go into four places.  ATS and ATN are read *)
(* like S and N, and the library gets their address in place of the value. *)

S == "string"
N == "number"
DATE == "date"
RECT == "rect"
DASH == "dash"
ATS == "at string"
ATN == "at number"
ANY == "not read"

(* The other results: a status that is 0 or -1, -1 for a library that says *)
(* no, a number as it is, one of which 0 is an error, a text of which none *)
(* is an error, a structure formatted as a text, and one whose bytes are   *)
(* taken for a text.  DONE is a function of the library without a result.  *)

STATUS == "status"
TRUTH == "truth"
NUMBER == "any number"
NONZERO == "number not 0"
TEXT == "text"
FORMATTED == "formatted"
BYTES == "bytes"
DONE == "done"

Takes(args, gives, names) ==
  {[fn |-> name, args |-> args, gives |-> gives] : name \in names}

-----------------------------------------------------------------------------
(* The functions, in the order of the source.  SetPageLayout and EndPath   *)
(* call the function of the library for SetPagesConfiguration and Clip,    *)
(* LoadU3DFromFile keeps what it loads with the images, and                *)
(* Page_GetCurrentFont takes its page from the second argument.            *)

VersionCalls == Takes(<<>>, TEXT, {"GetVersion"})

HasDocumentCalls == Takes(<<"data">>, TRUTH, {"HasDoc"})

DocumentOutputCalls ==
  Takes(<<"data", ATS, ATN>>, STATUS, {"GetContents"})
  \cup Takes(<<"data", S>>, STATUS, {"SaveToFile"})
  \cup Takes(<<"data">>, NUMBER, {"GetError", "GetErrorDetail"})
  \cup Takes(<<"data">>, DONE, {"ResetError"})
  \cup Takes(<<ATN>>, TRUTH, {"CheckError"})

PagesConfigurationCalls ==
  Takes(<<"data", N>>, STATUS, {"SetPagesConfiguration"})

DocumentModesCalls ==
  Takes(<<"data">>, NONZERO,
       {"GetPageLayout", "GetPageMode", "GetViewerPreference"})
  \cup Takes(<<"data", N>>, STATUS, {"SetPageLayout", "SetPageMode"})

ViewerAndOpenActionCalls ==
  Takes(<<"data", N>>, STATUS, {"SetViewerPreference"})
  \cup Takes(<<"data", "destination">>, STATUS, {"SetOpenAction"})

PagesAndSizesCalls ==
  Takes(<<"data">>, "page", {"AddPage"})
  \cup Takes(<<"data", "page">>, "page", {"InsertPage"})
  \cup Takes(<<"page", N>>, STATUS, {"Page_SetWidth", "Page_SetHeight"})

PageGeometryCalls ==
  Takes(<<"page", N, N>>, STATUS, {"Page_SetSize"})
  \cup Takes(<<"page", N>>, STATUS, {"Page_SetRotate", "Page_SetZoom"})
  \cup Takes(<<"data", S, S>>, "font", {"GetFont"})

FontFilesCalls ==
  Takes(<<"data", S, S>>, TEXT, {"LoadType1FontFromFile"})
  \cup Takes(<<"data", S, N>>, BYTES, {"GetTTFontDefFromFile"})
  \cup Takes(<<"data", S, N>>, TEXT, {"LoadTTFontFromFile"})

PageLabelsAndFontsCalls ==
  Takes(<<"data", N, N, N, S>>, STATUS, {"AddPageLabel"})
  \cup Takes(<<"data">>, STATUS,
       {"UseJPFonts", "UseKRFonts", "UseCNSFonts", "UseCNTFonts"})

OutlinesCalls ==
  Takes(<<"outline", N>>, STATUS, {"Outline_SetOpened"})
  \cup Takes(<<"outline", "destination">>, STATUS, {"Outline_SetDestination"})

DestinationsToHeightCalls ==
  Takes(<<"destination", N, N, N>>, STATUS, {"Destination_SetXYZ"})
  \cup Takes(<<"destination">>, STATUS, {"Destination_SetFit"})
  \cup Takes(<<"destination", N>>, STATUS,
       {"Destination_SetFitH", "Destination_SetFitV"})

DestinationsToBoxCalls ==
  Takes(<<"destination", N, N, N, N>>, STATUS, {"Destination_SetFitR"})
  \cup Takes(<<"destination">>, STATUS, {"Destination_SetFitB"})
  \cup Takes(<<"destination", N>>, STATUS,
       {"Destination_SetFitBH", "Destination_SetFitBV"})

EncodersCalls ==
  Takes(<<"data", S>>, "encoder", {"GetEncoder"})
  \cup Takes(<<"data">>, "encoder", {"GetCurrentEncoder"})
  \cup Takes(<<"data", S>>, STATUS, {"SetCurrentEncoder"})
  \cup Takes(<<"encoder">>, NONZERO, {"Encoder_GetType"})
  \cup Takes(<<"encoder", S, N>>, NONZERO, {"Encoder_GetByteType"})

EncodingsCalls ==
  Takes(<<"encoder", N>>, NONZERO, {"Encoder_GetUnicode"})
  \cup Takes(<<"encoder">>, NONZERO, {"Encoder_GetWritingMode"})
  \cup Takes(<<"data">>, STATUS,
       {"UseJPEncodings", "UseKREncodings", "UseCNSEncodings",
        "UseCNTEncodings"})

Annotations3DCalls ==
  Takes(<<"page", RECT, ATN>>, "annotation", {"Page_Create3DAnnot"})
  \cup Takes(<<"page", RECT, ATN, ATN, ATN, "image">>, "annotation",
       {"Page_Create3DAnnot"})

LinkAnnotationsCalls ==
  Takes(<<"page", RECT, "destination">>, "annotation",
       {"Page_CreateLinkAnnot"})
  \cup Takes(<<"page", RECT, S>>, "annotation", {"Page_CreateURILinkAnnot"})

AnnotationStylesCalls ==
  Takes(<<"annotation", N>>, STATUS,
       {"LinkAnnot_SetHighlightMode", "TextAnnot_SetIcon",
        "TextAnnot_SetOpened"})
  \cup Takes(<<"annotation", N, N, N>>, STATUS, {"LinkAnnot_SetBorderStyle"})

ImageFilesCalls ==
  Takes(<<"data", S, N>>, "image", {"LoadPngImageFromMem"})
  \cup Takes(<<"data", S>>, "image",
       {"LoadPngImageFromFile", "LoadJpegImageFromFile", "LoadU3DFromFile"})

RawImagesCalls ==
  Takes(<<"data", S, N, N, N, N>>, "image", {"LoadRawImageFromMem"})
  \cup Takes(<<"data", S, N, N, N>>, "image", {"LoadRawImageFromFile"})
  \cup Takes(<<"image", "image">>, STATUS, {"Image_AddSMask"})

ImageSizesCalls ==
  Takes(<<"image">>, FORMATTED, {"Image_GetSize"})
  \cup Takes(<<"image", ATN>>, STATUS, {"Image_GetSize2"})
  \cup Takes(<<"image">>, NONZERO,
       {"Image_GetWidth", "Image_GetHeight", "Image_GetBitsPerComponent"})

ImageMasksCalls ==
  Takes(<<"image">>, TEXT, {"Image_GetColorSpace"})
  \cup Takes(<<"image", N, N, N, N, N, N>>, STATUS, {"Image_SetColorMask"})
  \cup Takes(<<"image", "image">>, STATUS, {"Image_SetMaskImage"})
  \cup Takes(<<"data", N, S>>, STATUS, {"SetInfoAttr"})

InfoAndPasswordCalls ==
  Takes(<<"data", N>>, TEXT, {"GetInfoAttr"})
  \cup Takes(<<"data", N, DATE>>, STATUS, {"SetInfoDateAttr"})
  \cup Takes(<<"data", S, S>>, STATUS, {"SetPassword"})

SecurityAndFontNamesCalls ==
  Takes(<<"data", N>>, STATUS, {"SetPermission", "SetCompressionMode"})
  \cup Takes(<<"data", N, N>>, STATUS, {"SetEncryptionMode"})
  \cup Takes(<<"font">>, TEXT, {"Font_GetFontName", "Font_GetEncodingName"})

FontMetricsCalls ==
  Takes(<<"font", N>>, NONZERO, {"Font_GetUnicodeWidth"})
  \cup Takes(<<"font">>, FORMATTED, {"Font_GetBBox"})
  \cup Takes(<<"font">>, NONZERO,
       {"Font_GetAscent", "Font_GetDescent", "Font_GetXHeight"})

FontWidthsCalls ==
  Takes(<<"font">>, NONZERO, {"Font_GetCapHeight"})
  \cup Takes(<<"font", ATS, N>>, BYTES, {"Font_TextWidth"})
  \cup Takes(<<"font", ATS, N, N, N, N, N, N, ATN>>, NONZERO,
       {"Font_MeasureText"})

ExtGStatesCalls ==
  Takes(<<"data">>, "extgstate", {"CreateExtGState"})
  \cup Takes(<<"extgstate", N>>, STATUS,
       {"ExtGState_SetAlphaStroke", "ExtGState_SetAlphaFill",
        "ExtGState_SetBlendMode"})
  \cup Takes(<<"page", "extgstate">>, STATUS, {"Page_SetExtGState"})

PageTextCalls ==
  Takes(<<"page", S>>, NONZERO, {"Page_TextWidth"})
  \cup Takes(<<"page", ATS, N, N, ATN>>, NONZERO, {"Page_MeasureText"})
  \cup Takes(<<"page">>, NONZERO, {"Page_GetWidth", "Page_GetHeight"})

PagePositionCalls ==
  Takes(<<"page">>, NONZERO, {"Page_GetGMode"})
  \cup Takes(<<"page">>, FORMATTED,
       {"Page_GetCurrentPos", "Page_GetCurrentTextPos"})
  \cup Takes(<<"page", ATN>>, STATUS, {"Page_GetCurrentPos2"})

PageFontAndMatrixCalls ==
  Takes(<<"page", ATN>>, STATUS, {"Page_GetCurrentTextPos2"})
  \cup Takes(<<ANY, "page">>, "font", {"Page_GetCurrentFont"})
  \cup Takes(<<"page">>, NONZERO,
       {"Page_GetCurrentFontSize", "Page_GetLineWidth"})
  \cup Takes(<<"page">>, FORMATTED, {"Page_GetTransMatrix"})

PageLineStyleCalls ==
  Takes(<<"page">>, NONZERO,
       {"Page_GetLineCap", "Page_GetLineJoin", "Page_GetMiterLimit",
        "Page_GetFlat", "Page_GetCharSpace"})
  \cup Takes(<<"page">>, BYTES, {"Page_GetDash"})

PageTextStateCalls ==
  Takes(<<"page">>, NONZERO,
       {"Page_GetWordSpace", "Page_GetHorizontalScalling",
        "Page_GetTextLeading", "Page_GetTextRenderingMode",
        "Page_GetTextRaise"})

PageColorsCalls ==
  Takes(<<"page">>, NONZERO, {"Page_GetTextRise"})
  \cup Takes(<<"page">>, FORMATTED,
       {"Page_GetRGBFill", "Page_GetRGBStroke", "Page_GetCMYKFill",
        "Page_GetCMYKStroke"})

PageColorSpacesCalls ==
  Takes(<<"page">>, NONZERO,
       {"Page_GetGrayFill", "Page_GetGrayStroke",
        "Page_GetStrokingColorSpace", "Page_GetFillingColorSpace",
        "Page_GetGStateDepth"})
  \cup Takes(<<"page">>, BYTES, {"Page_GetTextMatrix"})

LineStyleCalls ==
  Takes(<<"page", N>>, STATUS,
       {"Page_SetLineWidth", "Page_SetLineCap", "Page_SetLineJoin",
        "Page_SetMiterLimit"})

DashAndStateCalls ==
  Takes(<<"page", DASH, N, N>>, STATUS, {"Page_SetDash"})
  \cup Takes(<<"page">>, STATUS, {"Page_GSave", "Page_GRestore"})

MoveAndLineCalls ==
  Takes(<<"page", N, N, N, N, N, N>>, STATUS, {"Page_Concat"})
  \cup Takes(<<"page", N, N>>, STATUS, {"Page_MoveTo", "Page_LineTo"})

CurvesCalls ==
  Takes(<<"page", N, N, N, N, N, N>>, STATUS, {"Page_CurveTo"})
  \cup Takes(<<"page", N, N, N, N>>, STATUS,
       {"Page_CurveTo2", "Page_CurveTo3"})

PathPaintingCalls ==
  Takes(<<"page">>, STATUS,
       {"Page_ClosePath", "Page_Stroke", "Page_ClosePathStroke",
        "Page_Fill"})
  \cup Takes(<<"page", N, N, N, N>>, STATUS, {"Page_Rectangle"})

PathFillingCalls ==
  Takes(<<"page">>, STATUS,
       {"Page_Eofill", "Page_FillStroke", "Page_EofillStroke",
        "Page_ClosePathFillStroke", "Page_ClosePathEofillStroke",
        "Page_EndPath"})

ClippingAndTextCalls ==
  Takes(<<"page">>, STATUS,
       {"Page_Clip", "Page_Eoclip", "Page_BeginText", "Page_EndText"})
  \cup Takes(<<"page", N>>, STATUS, {"Page_SetCharSpace", "Page_SetWordSpace"})

TextSpacingCalls ==
  Takes(<<"page", N>>, STATUS,
       {"Page_SetHorizontalScalling", "Page_SetTextLeading",
        "Page_SetTextRenderingMode", "Page_SetTextRise"})
  \cup Takes(<<"page", "font", N>>, STATUS, {"Page_SetFontAndSize"})

TextPositionCalls ==
  Takes(<<"page", N>>, STATUS, {"Page_SetTextRaise"})
  \cup Takes(<<"page", N, N>>, STATUS,
       {"Page_MoveTextPos", "Page_MoveTextPos2"})
  \cup Takes(<<"page", N, N, N, N, N, N>>, STATUS, {"Page_SetTextMatrix"})

ShowTextCalls ==
  Takes(<<"page">>, STATUS, {"Page_MoveToNextLine"})
  \cup Takes(<<"page", S>>, STATUS, {"Page_ShowText", "Page_ShowTextNextLine"})
  \cup Takes(<<"page", N, N, S>>, STATUS, {"Page_ShowTextNextLineEx"})
  \cup Takes(<<"page", N>>, STATUS, {"Page_SetGrayFill"})

RGBColorsCalls ==
  Takes(<<"page", N>>, STATUS, {"Page_SetGrayStroke"})
  \cup Takes(<<"page", N, N, N>>, STATUS,
       {"Page_SetRGBFill", "Page_SetRGBStroke"})

CMYKColorsCalls ==
  Takes(<<"page", N, N, N, N>>, STATUS,
       {"Page_SetCMYKFill", "Page_SetCMYKStroke"})
  \cup Takes(<<"page", "image">>, STATUS, {"Page_ExecuteXObject"})

ImagesCalls ==
  Takes(<<"page", "image", N, N, N, N>>, STATUS, {"Page_DrawImage"})
  \cup Takes(<<"page", N, N, N>>, STATUS, {"Page_Circle"})
  \cup Takes(<<"page", N, N, N, N>>, STATUS, {"Page_Ellipse"})

ArcAndTextCalls ==
  Takes(<<"page", N, N, N, N, N>>, STATUS, {"Page_Arc"})
  \cup Takes(<<"page", N, N, S>>, STATUS, {"Page_TextOut"})

TextBoxAndSlidesCalls ==
  Takes(<<"page", N, N, N, N, S, N, ATS>>, STATUS, {"Page_TextRect"})
  \cup Takes(<<"page", N, N, N>>, STATUS, {"Page_SetSlideShow"})

Functions ==
  UNION
    {VersionCalls, HasDocumentCalls, DocumentOutputCalls,
     PagesConfigurationCalls, DocumentModesCalls,
     ViewerAndOpenActionCalls, PagesAndSizesCalls, PageGeometryCalls,
     FontFilesCalls, PageLabelsAndFontsCalls, OutlinesCalls,
     DestinationsToHeightCalls, DestinationsToBoxCalls, EncodersCalls,
     EncodingsCalls, Annotations3DCalls, LinkAnnotationsCalls,
     AnnotationStylesCalls, ImageFilesCalls, RawImagesCalls,
     ImageSizesCalls, ImageMasksCalls, InfoAndPasswordCalls,
     SecurityAndFontNamesCalls, FontMetricsCalls, FontWidthsCalls,
     ExtGStatesCalls, PageTextCalls, PagePositionCalls,
     PageFontAndMatrixCalls, PageLineStyleCalls, PageTextStateCalls,
     PageColorsCalls, PageColorSpacesCalls, LineStyleCalls,
     DashAndStateCalls, MoveAndLineCalls, CurvesCalls,
     PathPaintingCalls, PathFillingCalls, ClippingAndTextCalls,
     TextSpacingCalls, TextPositionCalls, ShowTextCalls, RGBColorsCalls,
     CMYKColorsCalls, ImagesCalls, ArcAndTextCalls,
     TextBoxAndSlidesCalls}

=============================================================================
