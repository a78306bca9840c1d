--------------------------- MODULE ImageFiletypes ---------------------------
(***************************************************************************)
(* The upload type check: the tables of                                    *)
(* src/internal/svc/imagesvc/image_filetypes.go and                        *)
(* BlobImageService.CheckUploadConstraints.  A []byte is a record of its   *)
(* bytes, naturals below 256, and whether the slice is nil.  A             *)
(* filename is represented by its extension as filepath.Ext returns it.    *)
(***************************************************************************)
EXTENDS Naturals, SequencesExt

CONSTANT MaxSize   \* mediaSvc.MaxSize(): the largest body accepted

\* A []byte holding the bytes b, and the nil slice.
Slice(b) == [nil |-> FALSE, bytes |-> b]
Nil == [nil |-> TRUE, bytes |-> <<>>]

MIMETypeJPEG == "image/jpeg"
MIMETypePNG  == "image/png"
MIMETypeTIFF == "image/tiff"

imageExtTypes ==
    (".jpg" :> MIMETypeJPEG) @@ (".jpeg" :> MIMETypeJPEG) @@ (".png" :> MIMETypePNG)
      @@ (".tiff" :> MIMETypeTIFF) @@ (".tif" :> MIMETypeTIFF)

imageExtHeaders ==
    (MIMETypeJPEG :> {<<255, 216>>})
      @@ (MIMETypePNG :> {<<137, 80, 78, 71, 13, 10, 26, 10>>})
      @@ (MIMETypeTIFF :> {<<73, 73, 42, 0>>, <<77, 77, 0, 42>>})

\* The types imageDecoders and imageEncoders have an entry for:
\* getDecoderByType succeeds on them only.
Decodable == {MIMETypeJPEG, MIMETypeTIFF, MIMETypePNG}

\* strings.ToLower on the extension spellings the model uses.
ToLower(ext) ==
    LET upper == (".JPG" :> ".jpg") @@ (".JPEG" :> ".jpeg") @@ (".PNG" :> ".png")
                   @@ (".TIF" :> ".tif") @@ (".GIF" :> ".gif")
    IN IF ext \in DOMAIN upper THEN upper[ext] ELSE ext

\* CheckUploadConstraints(filename, size, image): its (type, ok, err)
\* results, with its early returns in order.
CheckUploadConstraints(ext, size, image) ==
    LET filenameExt == ToLower(ext)
        Fail(e) == [type |-> "", ok |-> FALSE, err |-> e]
    IN IF size > MaxSize THEN Fail("ErrImageTooLarge")
       ELSE IF filenameExt \notin DOMAIN imageExtTypes THEN Fail("ErrImageTypeNotSupported")
       ELSE IF image.nil THEN [type |-> "", ok |-> TRUE, err |-> "none"]
       ELSE IF \E header \in imageExtHeaders[imageExtTypes[filenameExt]] : IsPrefix(header, image.bytes)
            THEN [type |-> imageExtTypes[filenameExt], ok |-> TRUE, err |-> "none"]
       ELSE Fail("ErrImageTypeMismatch")
=============================================================================
